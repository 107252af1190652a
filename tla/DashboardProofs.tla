---------------------------- MODULE DashboardProofs ----------------------------
(***************************************************************************)
(* The browser, proved for any number of mounts, sessions, calls and       *)
(* faults: at most one stream of events, no copy of an earlier session on  *)
(* the screen, a quiet screen that shows the books, and steps that are     *)
(* steps of the abstract Screen.                                           *)
(***************************************************************************)
EXTENDS Dashboard, TLAPS

(* In the initial state no mount has a stream.                             *)
LEMMA StreamInitInv == InitStream => StreamInv
BY MountAssumption DEF InitStream, StreamInv, StreamTypeOK, MountInv, OneStream, Mount, Nobody

(* The mount that comes on screen is a new one: its cleanup has not run.   *)
LEMMA EnterInv ==
  ASSUME StreamInv, NEW m \in Mount, NEW hasToken \in BOOLEAN, Enter(m, hasToken)
  PROVE  StreamInv'
BY MountAssumption DEF StreamInv, StreamTypeOK, MountInv, OneStream, Enter, Goes, Mount, Nobody

(* The mount that leaves the screen keeps nothing but a ticket that is on  *)
(* its way, and remembers that it has left.                                *)
LEMMA LeaveInv == ASSUME StreamInv, Leave PROVE StreamInv'
<1> DEFINE next == IF conn[onScreen] = "asking" THEN "asking" ELSE "over"
<1>1. onScreen \in Mount
  BY DEF StreamInv, StreamTypeOK, Leave
<1>2. /\ conn' = [conn EXCEPT ![onScreen] = next]
      /\ closed' = [closed EXCEPT ![onScreen] = TRUE]
      /\ told' = [told EXCEPT ![onScreen] = FALSE]
      /\ onScreen' = Nobody
  BY DEF Leave, Goes, Hushed
<1>3. StreamTypeOK'
  BY <1>1, <1>2 DEF StreamInv, StreamTypeOK
<1>4. MountInv'
  BY <1>1, <1>2, MountAssumption DEF StreamInv, StreamTypeOK, MountInv, Mount, Nobody
<1>5. OneStream'
  BY <1>1, <1>2 DEF StreamInv, StreamTypeOK, OneStream
<1> QED
  BY <1>3, <1>4, <1>5 DEF StreamInv

(* An answer to a request for a ticket, wanted or not.                     *)
LEMMA TicketInv ==
  ASSUME StreamInv, NEW m \in Mount, TicketMinted(m) \/ NoTicket(m)
  PROVE  StreamInv'
BY DEF StreamInv, StreamTypeOK, MountInv, OneStream, TicketMinted, NoTicket, MayGoOn, Goes

(* A stream that breaks, and the timer that follows.                       *)
LEMMA BreakInv ==
  ASSUME StreamInv, NEW m \in Mount,
         Break(m) \/ \E hasToken \in BOOLEAN : Retry(m, hasToken)
  PROVE  StreamInv'
BY DEF StreamInv, StreamTypeOK, MountInv, OneStream, Break, Retry, Goes, Hushed

(* A stream that opens, and the messages on it.                            *)
LEMMA MessageInv ==
  ASSUME StreamInv, NEW m \in Mount,
         Subscribe(m) \/ Receive(m) \/ Heartbeat(m) \/ Broadcast
  PROVE  StreamInv'
BY DEF StreamInv, StreamTypeOK, MountInv, OneStream, Subscribe, Receive, Heartbeat, Beats,
       Broadcast, Goes, Hushed, Greeting

(* Every step keeps the invariant.                                         *)
LEMMA StreamStepInv == StreamInv /\ [NextStream]_streamVars => StreamInv'
<1> SUFFICES ASSUME StreamInv, [NextStream]_streamVars PROVE StreamInv'
  OBVIOUS
<1>1. CASE Leave
  BY <1>1, LeaveInv
<1>2. ASSUME Broadcast PROVE StreamInv'
  BY <1>2 DEF StreamInv, StreamTypeOK, MountInv, OneStream, Broadcast
<1>3. ASSUME NEW m \in Mount,
             \/ TicketMinted(m) \/ NoTicket(m) \/ Break(m) \/ Receive(m)
             \/ Subscribe(m) \/ Heartbeat(m)
             \/ \E hasToken \in BOOLEAN : Enter(m, hasToken) \/ Retry(m, hasToken)
      PROVE  StreamInv'
  BY <1>3, EnterInv, TicketInv, BreakInv, MessageInv
<1>4. CASE UNCHANGED streamVars
  BY <1>4 DEF StreamInv, StreamTypeOK, MountInv, OneStream, streamVars
<1> QED
  BY <1>1, <1>2, <1>3, <1>4 DEF NextStream

-----------------------------------------------------------------------------
\* Types.

(* Operations turn states into states.                                     *)
LEMMA EffectType ==
  ASSUME NEW d \in State, NEW op \in Op
  PROVE  Effect(op, d) \in State
<1> USE DashboardAssumption
<1>1. CASE op \in [name : {"resolve", "raise"}, exc : Exc]
  BY <1>1 DEF Effect, State
<1>2. CASE op \in [name : {"createGroup", "deleteGroup"}, group : Group]
  BY <1>2 DEF Effect, State
<1>3. CASE op \in [name : {"assign"}, unit : Unit, group : Group \cup {NoGroup}]
  BY <1>3 DEF Effect, State
<1> QED
  BY <1>1, <1>2, <1>3 DEF Op

(* What is blank is well typed.                                            *)
LEMMA Blanks ==
  /\ EmptyState \in State
  /\ Blank \in Shows
  /\ NoFetch \in Fetches /\ NoFetch.got = {"none"}
  /\ Begun \in Fetches /\ Begun.got = {}
<1>1. EmptyState \in State
  BY DEF EmptyState, State
<1>2. Blank \in Shows
  BY <1>1, DashboardAssumption DEF Blank, Shows, NoData
<1>3. NoFetch \in Fetches /\ NoFetch.got = {"none"}
  BY <1>1 DEF NoFetch, Fetches
<1>4. Begun \in Fetches /\ Begun.got = {}
  BY <1>3 DEF Begun, Fetches
<1> QED
  BY <1>1, <1>2, <1>3, <1>4

(* An optimistic change, and the rollback of one, show states.             *)
LEMMA PatchType ==
  ASSUME cache \in Shows, NEW op \in Op
  PROVE  Patched(op) \in Shows /\ Patched(op).session = cache.session
BY EffectType DEF Patched, Shows

(* A rollback, by the snapshot or by its inverse, leaves a copy of the     *)
(* estate in the cache.                                                    *)
LEMMA RollbackType ==
  ASSUME cache \in Shows, NEW op \in Op \cup {NoOp}, NEW prev \in Shows
  PROVE  RolledBack(op, prev) \in Shows
<1>1. CASE op.name = "assign"
  <2>1. op.unit \in Unit
    BY <1>1 DEF Op, NoOp
  <2> QED
    BY <1>1, <2>1 DEF RolledBack, Shows, State
<1>2. CASE op.name \in {"resolve", "deleteGroup"}
  BY <1>2 DEF RolledBack
<1>3. CASE op.name \notin {"assign", "resolve", "deleteGroup"}
  BY <1>3 DEF RolledBack
<1> QED
  BY <1>1, <1>2, <1>3

(* A call that is under way has an operation.                              *)
LEMMA UnderWay ==
  ASSUME TypeOK, NEW c \in Caller,
         call[c].server \in {"asked", "written"} \/ call[c].browser = "waiting"
  PROVE  call[c] \in Active
<1>1. Fresh.server = "none" /\ Fresh.browser = "none"
  BY DEF Fresh
<1>2. Past.server = "over" /\ Past.browser = "none"
  BY <1>1 DEF Past, Fresh
<1>3. call[c] \in Calls
  BY DEF TypeOK
<1> QED
  BY <1>1, <1>2, <1>3 DEF Calls

-----------------------------------------------------------------------------
\* The cache and the sessions.

(* At first the cache is empty.                                            *)
LEMMA InitOwn == Init => OwnInv
<1> SUFFICES ASSUME Init PROVE OwnInv
  OBVIOUS
<1>1. StreamTypeOK
  BY StreamInitInv DEF Init, StreamInv
<1>2. call \in [Caller -> Calls]
  BY DEF Init, Calls
<1>3. db \in State /\ cache \in Shows /\ fetch \in Fetches
  BY Blanks DEF Init
<1>4. session \in 1..MaxSessions /\ signedIn \in BOOLEAN
      /\ faults \in 0..MaxFaults /\ suspect \in BOOLEAN /\ revived \in BOOLEAN
  <2>1. session = 1 /\ faults = 0
    BY DEF Init
  <2>2. signedIn \in BOOLEAN /\ suspect \in BOOLEAN /\ revived \in BOOLEAN
    BY Zenon DEF Init
  <2>3. session \in 1..MaxSessions /\ faults \in 0..MaxFaults
    BY <2>1, DashboardAssumption
  <2> QED
    BY <2>2, <2>3
<1>5. SessionInv /\ OwnDataOnly
  <2>1. fetch = NoFetch /\ cache = Blank /\ signedIn = TRUE
    BY DEF Init
  <2> QED
    BY <2>1 DEF SessionInv, Fetching, OwnDataOnly, Blank, NoData
<1> QED
  BY <1>1, <1>2, <1>3, <1>4, <1>5 DEF OwnInv, TypeOK

(* The steps of requests on the server leave the browser alone.            *)
LEMMA RequestOwn ==
  ASSUME OwnInv, StreamTypeOK', NEW c \in Caller, Request(c)
  PROVE  OwnInv'
<1>1. PICK to \in {"written", "refused", "done"} :
        call' = [call EXCEPT ![c] = Left([call[c] EXCEPT !.server = to])]
  BY DEF Request, Write, Refuse, Announce, Serves
<1>2. call[c].server \in {"asked", "written"}
  BY DEF Request, Write, Refuse, Announce, Serves
<1>3. call[c] \in Active
  BY <1>2, UnderWay DEF OwnInv
<1>4. Left([call[c] EXCEPT !.server = to]) \in Calls
  <2>1. [call[c] EXCEPT !.server = to] \in Active
    BY <1>3 DEF Active
  <2> QED
    BY <2>1 DEF Left, Calls
<1>5. call' \in [Caller -> Calls]
  BY <1>1, <1>4 DEF OwnInv, TypeOK
<1>6. db' = db \/ db' = Effect(call[c].op, db)
  BY DEF Request, Write, Refuse, Announce
<1>7. db' \in State
  BY <1>3, <1>6, EffectType DEF OwnInv, TypeOK, Active
<1>8. UNCHANGED <<cache, fetch, session, signedIn, faults, suspect, revived>>
  BY DEF Request, Write, Refuse, Announce
<1> QED
  BY <1>5, <1>7, <1>8 DEF OwnInv, TypeOK, SessionInv, OwnDataOnly, Fetching

(* An invalidation begins a query only for a manager who is signed in.     *)
LEMMA InvalidateOwn ==
  ASSUME OwnInv, Invalidate
  PROVE  fetch' \in Fetches /\ (fetch' # NoFetch => signedIn)
<1>1. [fetch EXCEPT !.joined = TRUE] \in Fetches
  BY DEF OwnInv, TypeOK, Fetches
<1> QED
  BY <1>1, Blanks DEF OwnInv, TypeOK, SessionInv, Fetching, Invalidate

(* An answer; what rolls back into another session than its own, or into   *)
(* none, is recorded.                                                      *)
LEMMA AnswerOwn ==
  ASSUME OwnInv, StreamTypeOK', NEW c \in Caller, Answer(c)
  PROVE  OwnInv'
<1>1. Hears(c)
  BY DEF Answer, Succeeds, Fails
<1>2. call[c] \in Active
  BY <1>1, UnderWay DEF OwnInv, Hears
<1>3. call' \in [Caller -> Calls]
  <2> DEFINE heard == [call[c] EXCEPT !.browser = "done", !.prev = Blank]
  <2>1. heard \in Active
    BY <1>2, Blanks DEF Active
  <2>2. Left(heard) \in Calls
    BY <2>1 DEF Left, Calls
  <2>3. call' = [call EXCEPT ![c] = Left(heard)]
    BY <1>1 DEF Hears
  <2> QED
    BY <2>2, <2>3 DEF OwnInv, TypeOK
<1>4. CASE Succeeds(c)
  <2>1. fetch' \in Fetches /\ (fetch' # NoFetch => signedIn)
    BY <1>4, InvalidateOwn DEF Succeeds
  <2>2. UNCHANGED <<db, cache, session, signedIn, faults, suspect, revived>>
    BY <1>4 DEF Succeeds
  <2> QED
    BY <1>3, <2>1, <2>2 DEF OwnInv, TypeOK, SessionInv, OwnDataOnly, Fetching
<1>5. CASE Fails(c)
  <2>1. cache' \in Shows
    BY <1>2, <1>5, RollbackType DEF OwnInv, TypeOK, Fails, Active
  <2>2. faults' \in 0..MaxFaults
    BY <1>5, DashboardAssumption DEF OwnInv, TypeOK, Fails, Fault
  <2>3. /\ suspect' = (suspect \/ Optimistic(call[c].op))
        /\ revived' = (revived \/ (cache' # cache /\ (~signedIn \/ cache'.session # session)))
        /\ UNCHANGED <<db, fetch, session, signedIn>>
    BY <1>5 DEF Fails
  <2>4. suspect' \in BOOLEAN /\ revived' \in BOOLEAN
    BY <2>3 DEF OwnInv, TypeOK, Optimistic
  <2>5. TypeOK'
    BY <1>3, <2>1, <2>2, <2>3, <2>4 DEF OwnInv, TypeOK
  <2>6. SessionInv' /\ OwnDataOnly'
    BY <2>3 DEF OwnInv, SessionInv, OwnDataOnly, Fetching
  <2> QED
    BY <2>5, <2>6 DEF OwnInv
<1> QED
  BY <1>4, <1>5 DEF Answer

(* A click shows its change in the copy there is, of the session it is of. *)
LEMMA ClickOwn ==
  ASSUME OwnInv, StreamTypeOK', NEW c \in Tab, NEW op \in Clicks, Click(c, op)
  PROVE  OwnInv'
<1>1. op \in Op
  BY DashboardAssumption
<1>2. cache' \in Shows /\ cache'.session = cache.session
  BY <1>1, PatchType DEF OwnInv, TypeOK, Click
<1>3. call' \in [Caller -> Calls]
  BY <1>1, Blanks DEF OwnInv, TypeOK, Click, Calls, Active, Caller
<1>4. UNCHANGED <<db, fetch, session, signedIn, faults, suspect, revived>>
  BY DEF Click
<1> QED
  BY <1>2, <1>3, <1>4 DEF OwnInv, TypeOK, SessionInv, OwnDataOnly, Fetching

(* A request from outside touches neither the cache nor the session.       *)
LEMMA ArriveOwn ==
  ASSUME OwnInv, StreamTypeOK', NEW c \in Outside, NEW op \in OutsideOps, Arrive(c, op)
  PROVE  OwnInv'
<1>1. [op |-> op, server |-> "asked", browser |-> "none", prev |-> Blank] \in Active
  BY Blanks, DashboardAssumption DEF Active
<1>2. call' = [call EXCEPT ![c] = [op |-> op, server |-> "asked", browser |-> "none",
                                   prev |-> Blank]]
  BY DEF Arrive
<1>3. call' \in [Caller -> Calls]
  BY <1>1, <1>2 DEF OwnInv, TypeOK, Calls, Caller
<1>4. UNCHANGED <<db, cache, fetch, session, signedIn, faults, suspect, revived>>
  BY DEF Arrive
<1> QED
  BY <1>3, <1>4 DEF OwnInv, TypeOK, SessionInv, OwnDataOnly, Fetching

(* A query reads, and ends with the copy of a session that lasts.          *)
LEMMA ReadOwn ==
  ASSUME OwnInv, StreamTypeOK', ReadUnits \/ ReadRest
  PROVE  OwnInv'
<1>1. PICK got \in SUBSET {"none", "units", "rest"}, copy \in State :
        fetch' = [got |-> got, joined |-> fetch.joined, copy |-> copy]
  <2>1. CASE ReadUnits
    <3>1. [fetch.copy EXCEPT !.groupOf = db.groupOf] \in State
      BY DEF OwnInv, TypeOK, Fetches, State
    <3>2. fetch' = [got |-> fetch.got \cup {"units"}, joined |-> fetch.joined,
                    copy |-> [fetch.copy EXCEPT !.groupOf = db.groupOf]]
      BY <2>1 DEF OwnInv, TypeOK, Fetches, ReadUnits
    <3> QED
      BY <3>1, <3>2 DEF OwnInv, TypeOK, Fetches
  <2>2. CASE ReadRest
    <3>1. [db EXCEPT !.groupOf = fetch.copy.groupOf] \in State
      BY DEF OwnInv, TypeOK, Fetches, State
    <3>2. fetch' = [got |-> fetch.got \cup {"rest"}, joined |-> fetch.joined,
                    copy |-> [db EXCEPT !.groupOf = fetch.copy.groupOf]]
      BY <2>2 DEF OwnInv, TypeOK, Fetches, ReadRest
    <3> QED
      BY <3>1, <3>2 DEF OwnInv, TypeOK, Fetches
  <2> QED
    BY <2>1, <2>2
<1>2. fetch' \in Fetches
  BY <1>1 DEF OwnInv, TypeOK, Fetches
<1>3. /\ Fetching
      /\ UNCHANGED <<db, cache, call, session, signedIn, faults, suspect, revived>>
  BY DEF ReadUnits, ReadRest
<1> QED
  BY <1>2, <1>3 DEF OwnInv, TypeOK, SessionInv, OwnDataOnly

(* A query that ends fills the cache with the copy of the session it was   *)
(* asked in, which is the current one; one that fails leaves it.           *)
LEMMA FetchOwn ==
  ASSUME OwnInv, StreamTypeOK', FetchDone \/ FetchFails
  PROVE  OwnInv'
<1>1. Fetching /\ fetch' = NoFetch
  BY Blanks DEF FetchDone, FetchFails, Fetching
<1>2. UNCHANGED <<db, call, session, signedIn, revived>>
  BY DEF FetchDone, FetchFails
<1>3. suspect' \in BOOLEAN
  BY DEF OwnInv, TypeOK, Fetches, FetchDone, FetchFails
<1>4. faults' \in 0..MaxFaults
  BY DashboardAssumption DEF OwnInv, TypeOK, FetchDone, FetchFails, Fault
<1>5. cache' = cache \/ cache' = [session |-> session, state |-> fetch.copy]
  BY DEF FetchDone, FetchFails
<1>6. cache' \in Shows /\ (cache' = cache \/ cache'.session = session)
  BY <1>5, DashboardAssumption DEF OwnInv, TypeOK, Shows, Fetches
<1> QED
  BY <1>1, <1>2, <1>3, <1>4, <1>6, Blanks DEF OwnInv, TypeOK, SessionInv, OwnDataOnly, Fetching

(* The layout and the stream keep the cache, and query for a manager who   *)
(* is signed in.                                                           *)
LEMMA StreamOwn ==
  ASSUME OwnInv, StreamTypeOK', NEW m \in Mount, Open(m) \/ Stream(m) \/ Disconnects(m)
  PROVE  OwnInv'
<1>1. fetch' \in Fetches /\ (fetch' # NoFetch => signedIn)
  <2>1. CASE Open(m)
    BY <2>1, Blanks DEF OwnInv, TypeOK, SessionInv, Fetching, Open
  <2>2. CASE Update(m)
    BY <2>2, InvalidateOwn DEF Update
  <2>3. CASE Connects(m) \/ Beat(m) \/ Disconnects(m)
    BY <2>3 DEF OwnInv, TypeOK, SessionInv, Fetching, Connects, Beat, Disconnects, Calm
  <2> QED
    BY <2>1, <2>2, <2>3 DEF Stream
<1>2. UNCHANGED <<db, cache, call, session, signedIn, suspect, revived>>
  BY DEF Open, Stream, Connects, Beat, Update, Disconnects, Calm
<1>3. faults' \in 0..MaxFaults
  <2>1. faults' = faults \/ Fault
    BY DEF Open, Stream, Connects, Beat, Update, Disconnects
  <2> QED
    BY <2>1, DashboardAssumption DEF OwnInv, TypeOK, Fault
<1> QED
  BY <1>1, <1>2, <1>3 DEF OwnInv, TypeOK, SessionInv, OwnDataOnly, Fetching

(* A session ends with its cache, and the next one starts with none.       *)
LEMMA SessionOwn ==
  ASSUME OwnInv, StreamTypeOK', Close \/ SignOut \/ SignIn
  PROVE  OwnInv'
<1>1. CASE Close
  BY <1>1 DEF OwnInv, TypeOK, SessionInv, OwnDataOnly, Fetching, Close
<1>2. CASE SignOut
  BY <1>2, Blanks
     DEF OwnInv, TypeOK, SessionInv, OwnDataOnly, Fetching, SignOut, Forgotten, Blank
<1>3. CASE SignIn
  BY <1>3, DashboardAssumption
     DEF OwnInv, TypeOK, SessionInv, OwnDataOnly, Fetching, SignIn
<1> QED
  BY <1>1, <1>2, <1>3

-----------------------------------------------------------------------------
\* Theorems.

(* Every step of the dashboard is a step of its stream, or leaves it.      *)
LEMMA StepOfStream ==
  ASSUME TypeOK, [Next]_vars
  PROVE  [NextStream]_streamVars
<1>1. ASSUME NEW c \in Caller, Request(c) \/ Answer(c) PROVE [NextStream]_streamVars
  BY <1>1 DEF Request, Answer, Write, Refuse, Announce, Succeeds, Fails, NextStream
<1>2. ASSUME NEW c \in Tab, NEW op \in Clicks, Click(c, op) PROVE UNCHANGED streamVars
  BY <1>2 DEF Click
<1>3. ASSUME NEW c \in Outside, NEW op \in OutsideOps, Arrive(c, op)
      PROVE  UNCHANGED streamVars
  BY <1>3 DEF Arrive
<1>4. ASSUME NEW m \in Mount, Open(m) \/ Stream(m) \/ Disconnects(m)
      PROVE  NextStream
  <2>1. signedIn \in BOOLEAN
    BY DEF TypeOK
  <2> QED
    BY <1>4, <2>1 DEF Open, Stream, Connects, Disconnects, Beat, Update, NextStream
<1>5. CASE Query \/ FetchFails \/ SignOut \/ SignIn
  <2>1. UNCHANGED streamVars
    BY <1>5 DEF Query, ReadUnits, ReadRest, FetchDone, FetchFails, SignOut, SignIn
  <2> QED
    BY <2>1
<1>6. CASE Close
  BY <1>6 DEF Close, NextStream
<1>7. CASE UNCHANGED vars
  BY <1>7 DEF vars
<1> QED
  BY <1>1, <1>2, <1>3, <1>4, <1>5, <1>6, <1>7 DEF Next

(* Every step keeps the session's and the stream's part of the invariant.  *)
LEMMA StepOwn == OwnInv /\ StreamInv /\ [Next]_vars => OwnInv' /\ StreamInv'
<1> SUFFICES ASSUME OwnInv, StreamInv, [Next]_vars PROVE OwnInv' /\ StreamInv'
  OBVIOUS
<1>1. StreamInv'
  BY StepOfStream, StreamStepInv DEF OwnInv
<1>2. StreamTypeOK'
  BY <1>1 DEF StreamInv
<1>3. CASE UNCHANGED vars
  <2>1. UNCHANGED <<db, cache, fetch, call, session, signedIn, faults, suspect, revived>>
    BY <1>3 DEF vars
  <2> QED
    BY <1>1, <1>2, <2>1 DEF OwnInv, TypeOK, SessionInv, OwnDataOnly, Fetching
<1>4. ASSUME NEW c \in Caller, Request(c) \/ Answer(c) PROVE OwnInv'
  BY <1>2, <1>4, RequestOwn, AnswerOwn
<1>5. ASSUME NEW c \in Tab, NEW op \in Clicks, Click(c, op) PROVE OwnInv'
  BY <1>2, <1>5, ClickOwn
<1>6. ASSUME NEW c \in Outside, NEW op \in OutsideOps, Arrive(c, op) PROVE OwnInv'
  BY <1>2, <1>6, ArriveOwn
<1>7. ASSUME NEW m \in Mount, Open(m) \/ Stream(m) \/ Disconnects(m) PROVE OwnInv'
  BY <1>2, <1>7, StreamOwn
<1>8. CASE Query \/ FetchFails
  <2>1. CASE ReadUnits \/ ReadRest
    BY <1>1, <1>2, <2>1, ReadOwn
  <2>2. CASE FetchDone \/ FetchFails
    BY <1>1, <1>2, <2>2, FetchOwn
  <2> QED
    BY <1>8, <2>1, <2>2 DEF Query
<1>9. CASE Close \/ SignOut \/ SignIn
  BY <1>1, <1>2, <1>9, SessionOwn
<1> QED
  BY <1>1, <1>3, <1>4, <1>5, <1>6, <1>7, <1>8, <1>9 DEF Next

(* The inductive invariant of the dashboard: types, the stream, and whose  *)
(* copy the cache holds.                                                   *)
THEOREM DashboardInvariant == Spec => [](OwnInv /\ StreamInv)
<1>1. Init => OwnInv /\ StreamInv
  BY InitOwn, StreamInitInv DEF Init
<1> QED
  BY <1>1, StepOwn, PTL DEF Spec

(* The browser holds one stream of events at the most, that of the mount   *)
(* on screen, however its mounts, sessions and requests interleave.        *)
THEOREM AtMostOneStream == Spec => []OneStream
<1>1. StreamInv => OneStream
  BY DEF StreamInv
<1> QED
  BY <1>1, DashboardInvariant, PTL

(* No manager is shown the copy of an earlier session, unless a rollback   *)
(* has put one back after its session.                                     *)
THEOREM NobodyElsesEstate == Spec => []OwnDataOnly
<1>1. OwnInv => OwnDataOnly
  BY DEF OwnInv
<1> QED
  BY <1>1, DashboardInvariant, PTL

-----------------------------------------------------------------------------
\* The screen and the books.

CurrentInv == OwnInv /\ StreamInv /\ FetchInv /\ ScreenInv

(* Before anybody has opened the dashboard there is nothing to show.       *)
LEMMA InitCurrent == Init => FetchInv /\ ScreenInv
BY DEF Init, InitStream, FetchInv, ScreenInv, NewsIsComing, On, Nobody, Fetching

(* An invalidation sends the query of a screen that is looked at, and what *)
(* it has read is not used, or is known to be joined.                      *)
LEMMA InvalidateCurrent ==
  ASSUME OwnInv, Invalidate, UNCHANGED <<onScreen, signedIn, db>>
  PROVE  FetchInv' /\ (On => Fetching')
<1>1. CASE ~On
  <2>1. ~On'
    BY <1>1 DEF On
  <2> QED
    BY <1>1, <2>1 DEF FetchInv, NewsIsComing
<1>2. CASE On /\ fetch' = [fetch EXCEPT !.joined = TRUE] /\ Fetching
  <2>1. fetch'.joined /\ fetch'.got = fetch.got
    BY <1>2 DEF OwnInv, TypeOK, Fetches
  <2>2. Fetching'
    <3>1. fetch' # NoFetch
      <4>1. NoFetch.joined = FALSE
        BY DEF NoFetch
      <4> QED
        BY <2>1, <4>1
    <3> QED
      BY <3>1 DEF Fetching, NoFetch
  <2> QED
    BY <2>1, <2>2 DEF FetchInv
<1>3. CASE On /\ fetch' = Begun
  <2>1. fetch'.got = {} /\ fetch' # NoFetch
    BY <1>3, Blanks
  <2>2. Fetching'
    BY <2>1 DEF Fetching, NoFetch
  <2> QED
    BY <2>1, <2>2 DEF FetchInv
<1> QED
  BY <1>1, <1>2, <1>3 DEF Invalidate, On

(* A call that has been served or heard keeps its place on the server,     *)
(* unless that is over.                                                    *)
LEMMA LeftFacts ==
  ASSUME NEW r \in Active
  PROVE  /\ (Left(r).server = "written" <=> r.server = "written")
         /\ (Left(r).browser = "waiting" <=> r.browser = "waiting")
         /\ (r.browser = "waiting" => Left(r).op = r.op)
BY DEF Left, Active, Past, Fresh

(* News that is on its way is not lost on the server: a change that is     *)
(* announced reaches the stream that is open.                              *)
LEMMA RequestCurrent ==
  ASSUME CurrentInv, NEW c \in Caller, Request(c)
  PROVE  FetchInv' /\ ScreenInv'
<1>1. PICK to \in {"written", "refused", "done"} :
        call' = [call EXCEPT ![c] = Left([call[c] EXCEPT !.server = to])]
  BY DEF Request, Write, Refuse, Announce, Serves
<1>2. call[c] \in Active /\ call[c].server \in {"asked", "written"}
  BY UnderWay DEF CurrentInv, OwnInv, Request, Write, Refuse, Announce, Serves
<1>3. [call[c] EXCEPT !.server = to] \in Active
  BY <1>2 DEF Active
<1>4. /\ call'[c].server = "written" <=> to = "written"
      /\ call'[c].browser = "waiting" <=> call[c].browser = "waiting"
      /\ call[c].browser = "waiting" => call'[c].op = call[c].op
      /\ \A k \in Caller \ {c} : call'[k] = call[k]
  BY <1>1, <1>2, <1>3, LeftFacts DEF CurrentInv, OwnInv, TypeOK, Active
<1>5. UNCHANGED <<cache, fetch, session, signedIn, suspect, conn, onScreen>>
  BY DEF Request, Write, Refuse, Announce, Broadcast, streamVars
<1>6. CASE Write(c)
  <2>1. call'[c].server = "written"
    <3>1. call' = [call EXCEPT ![c] = Left([call[c] EXCEPT !.server = "written"])]
      BY <1>6 DEF Write, Serves
    <3>2. [call[c] EXCEPT !.server = "written"] \in Active
      BY <1>2 DEF Active
    <3> QED
      BY <1>2, <3>1, <3>2, LeftFacts DEF CurrentInv, OwnInv, TypeOK, Active
  <2> QED
    BY <2>1 DEF FetchInv, ScreenInv, NewsIsComing
<1>7. CASE Refuse(c)
  <2>1. call[c].server = "asked" /\ db' = db /\ told' = told
    BY <1>7 DEF Refuse, Serves, streamVars
  <2>2. NewsIsComing => NewsIsComing'
    BY <1>4, <1>5, <2>1 DEF NewsIsComing, On
  <2> QED
    BY <1>4, <1>5, <2>1, <2>2 DEF CurrentInv, FetchInv, ScreenInv, Fetching, Optimistic
<1>8. CASE Announce(c)
  <2>1. Announced(call[c].op)
    BY <1>2 DEF Announced, Active, Op
  <2>2. db' = db /\ told' = [m \in Mount |-> told[m] \/ conn[m] = "open"]
    BY <1>8, <2>1 DEF Announce, Broadcast
  <2>3. onScreen \in Mount \/ ~On
    BY DEF CurrentInv, OwnInv, TypeOK, StreamTypeOK, On
  <2>4. NewsIsComing => NewsIsComing'
    BY <1>4, <1>5, <2>2, <2>3 DEF NewsIsComing, On
  <2> QED
    BY <1>4, <1>5, <2>2, <2>4 DEF CurrentInv, FetchInv, ScreenInv, Fetching, Optimistic
<1> QED
  BY <1>6, <1>7, <1>8 DEF Request

(* An answer sends the query, or the screen may be behind (suspect).       *)
LEMMA AnswerCurrent ==
  ASSUME CurrentInv, NEW c \in Caller, Answer(c)
  PROVE  FetchInv' /\ ScreenInv'
<1>1. Hears(c)
  BY DEF Answer, Succeeds, Fails
<1>2. call[c] \in Active /\ call[c].browser = "waiting"
  BY <1>1, UnderWay DEF CurrentInv, OwnInv, Hears
<1> DEFINE heard == [call[c] EXCEPT !.browser = "done", !.prev = Blank]
<1>3. heard \in Active /\ heard.server = call[c].server
  BY <1>2, Blanks DEF Active
<1>4. /\ call'[c].server = "written" <=> call[c].server = "written"
      /\ \A k \in Caller \ {c} : call'[k] = call[k]
  <2>1. call' = [call EXCEPT ![c] = Left(heard)]
    BY <1>1 DEF Hears
  <2> HIDE DEF heard
  <2> QED
    BY <1>3, <2>1, LeftFacts DEF CurrentInv, OwnInv, TypeOK
<1>5. UNCHANGED <<streamVars, db, session, signedIn>>
  BY DEF Answer, Succeeds, Fails
<1>6. NewsIsComing => NewsIsComing'
  BY <1>4, <1>5 DEF NewsIsComing, On, streamVars
<1>7. CASE Succeeds(c)
  <2>1. FetchInv' /\ (On => Fetching')
    BY <1>5, <1>7, InvalidateCurrent DEF CurrentInv, Succeeds, streamVars
  <2>2. ~On => NewsIsComing'
    BY <1>5 DEF NewsIsComing, On, streamVars
  <2> QED
    BY <2>1, <2>2 DEF ScreenInv
<1>8. CASE Fails(c)
  <2>1. fetch' = fetch /\ suspect' = (suspect \/ Optimistic(call[c].op))
    BY <1>8 DEF Fails
  <2>2. FetchInv'
    BY <1>5, <1>6, <2>1 DEF CurrentInv, FetchInv, Fetching
  <2>3. CASE Optimistic(call[c].op)
    BY <2>1, <2>2, <2>3 DEF ScreenInv
  <2>4. CASE ~Optimistic(call[c].op)
    <3>1. cache' = cache
      BY <1>8, <2>4 DEF Fails, RolledBack, Optimistic
    <3>2. \A k \in Caller : call[k].browser = "waiting" /\ Optimistic(call[k].op) => k # c
      BY <2>4
    <3> QED
      BY <1>4, <1>5, <1>6, <2>1, <2>2, <3>1, <3>2
         DEF CurrentInv, ScreenInv, Fetching, Optimistic
  <2> QED
    BY <2>3, <2>4
<1> QED
  BY <1>7, <1>8 DEF Answer

(* A change that is shown before it is made waits for its answer.          *)
LEMMA ClickCurrent ==
  ASSUME CurrentInv, NEW c \in Tab, NEW op \in Clicks, Click(c, op)
  PROVE  FetchInv' /\ ScreenInv'
<1>1. c \in Caller /\ call[c].server = "none" /\ call[c].browser = "none"
  BY DEF Click, Fresh, Caller
<1>2. /\ call'[c].op = op /\ call'[c].browser = "waiting"
      /\ \A k \in Caller \ {c} : call'[k] = call[k]
  BY <1>1 DEF CurrentInv, OwnInv, TypeOK, Click
<1>3. UNCHANGED <<streamVars, db, fetch, session, signedIn, suspect>>
  BY DEF Click
<1>4. NewsIsComing => NewsIsComing'
  BY <1>1, <1>2, <1>3 DEF NewsIsComing, On, streamVars
<1>5. cache' = cache \/ Optimistic(op)
  BY DEF Click, Patched
<1>6. FetchInv'
  BY <1>3, <1>4 DEF CurrentInv, FetchInv, Fetching
<1> QED
  BY <1>1, <1>2, <1>3, <1>4, <1>5, <1>6 DEF CurrentInv, ScreenInv, Fetching, Optimistic

(* A request of another browser waits for the server.                      *)
LEMMA ArriveCurrent ==
  ASSUME CurrentInv, NEW c \in Outside, NEW op \in OutsideOps, Arrive(c, op)
  PROVE  FetchInv' /\ ScreenInv'
<1>1. c \in Caller /\ call[c].server = "none" /\ call[c].browser = "none"
  BY DEF Arrive, Fresh, Caller
<1>2. \A k \in Caller \ {c} : call'[k] = call[k]
  BY <1>1 DEF CurrentInv, OwnInv, TypeOK, Arrive
<1>3. UNCHANGED <<streamVars, db, cache, fetch, session, signedIn, suspect>>
  BY DEF Arrive
<1>4. NewsIsComing => NewsIsComing'
  BY <1>1, <1>2, <1>3 DEF NewsIsComing, On, streamVars
<1> QED
  BY <1>1, <1>2, <1>3, <1>4 DEF CurrentInv, FetchInv, ScreenInv, Fetching, Optimistic

(* A query reads what the books hold, and shows it when it has read all.   *)
LEMMA QueryCurrent ==
  ASSUME CurrentInv, Query \/ FetchFails
  PROVE  FetchInv' /\ ScreenInv'
<1>1. UNCHANGED <<streamVars, db, call, session, signedIn>>
  BY DEF Query, ReadUnits, ReadRest, FetchDone, FetchFails
<1>2. NewsIsComing => NewsIsComing'
  BY <1>1 DEF NewsIsComing, On, streamVars
<1>3. fetch \in Fetches /\ db \in State
  BY DEF CurrentInv, OwnInv, TypeOK
<1>4. CASE ReadUnits
  <2>1. /\ fetch'.got = fetch.got \cup {"units"} /\ fetch'.joined = fetch.joined
        /\ fetch'.copy.groupOf = db.groupOf
        /\ fetch'.copy.open = fetch.copy.open /\ fetch'.copy.groups = fetch.copy.groups
    BY <1>3, <1>4 DEF ReadUnits, Fetches, State
  <2>2. Fetching' /\ Fetching
    <3>1. fetch'.got # {"none"}
      BY <2>1
    <3> QED
      BY <1>4, <3>1, Blanks DEF Fetching, ReadUnits, NoFetch
  <2> QED
    BY <1>1, <1>2, <2>1, <2>2 DEF CurrentInv, FetchInv, ScreenInv
<1>5. CASE ReadRest
  <2>1. /\ fetch'.got = fetch.got \cup {"rest"} /\ fetch'.joined = fetch.joined
        /\ fetch'.copy.groupOf = fetch.copy.groupOf
        /\ fetch'.copy.open = db.open /\ fetch'.copy.groups = db.groups
    BY <1>3, <1>5 DEF ReadRest, Fetches, State
  <2>2. Fetching' /\ Fetching
    <3>1. fetch'.got # {"none"}
      BY <2>1
    <3> QED
      BY <1>5, <3>1, Blanks DEF Fetching, ReadRest, NoFetch
  <2> QED
    BY <1>1, <1>2, <2>1, <2>2 DEF CurrentInv, FetchInv, ScreenInv
<1>6. CASE FetchDone \/ FetchFails
  <2>1. fetch' = NoFetch
    BY <1>6 DEF FetchDone, FetchFails
  <2>2. FetchInv'
    BY <2>1 DEF FetchInv, Fetching, NoFetch
  <2>3. CASE FetchFails
    BY <2>2, <2>3 DEF FetchFails, ScreenInv
  <2>4. CASE FetchDone
    <3>1. /\ cache' = [session |-> session, state |-> fetch.copy]
          /\ suspect' = fetch.joined /\ fetch.got = {"units", "rest"}
      BY <2>4 DEF FetchDone
    <3>2. Fetching
      BY <3>1, Blanks DEF Fetching
    <3>3. CASE fetch.joined \/ NewsIsComing
      BY <1>2, <2>2, <3>1, <3>3 DEF ScreenInv
    <3>4. CASE ~fetch.joined /\ ~NewsIsComing
      <4>1. /\ fetch.copy.groupOf = db.groupOf /\ fetch.copy.open = db.open
            /\ fetch.copy.groups = db.groups
        BY <3>1, <3>2, <3>4 DEF CurrentInv, FetchInv
      <4>2. fetch.copy = db
        BY <1>3, <4>1 DEF Fetches, State
      <4> QED
        BY <1>1, <2>2, <3>1, <4>2 DEF ScreenInv
    <3> QED
      BY <3>3, <3>4
  <2> QED
    BY <1>6, <2>3, <2>4
<1> QED
  BY <1>4, <1>5, <1>6 DEF Query

(* The layout that opens, and the stream: its greeting and its messages    *)
(* are news, and so is a stream that has yet to open.                      *)
LEMMA StreamCurrent ==
  ASSUME CurrentInv, NEW m \in Mount, Open(m) \/ Stream(m) \/ Disconnects(m)
  PROVE  FetchInv' /\ ScreenInv'
<1>1. UNCHANGED <<db, cache, call, session, signedIn>>
  BY DEF Open, Stream, Connects, Beat, Update, Disconnects, Calm
<1>2. suspect' = suspect
  BY DEF Open, Stream, Connects, Beat, Update, Disconnects, Calm
<1>3. /\ conn \in [Mount -> {"fresh", "asking", "waiting", "opening", "open", "over"}]
      /\ told \in [Mount -> BOOLEAN] /\ (On => onScreen \in Mount)
  BY DEF CurrentInv, OwnInv, TypeOK, StreamTypeOK, On
<1>4. CASE Open(m)
  <2>1. onScreen' = m /\ conn'[m] = "asking"
    BY <1>3, <1>4 DEF Open, Enter, Goes
  <2>2. NewsIsComing'
    BY <2>1 DEF NewsIsComing
  <2> QED
    BY <2>2 DEF FetchInv, ScreenInv
<1>5. CASE Update(m)
  <2>1. UNCHANGED onScreen
    BY <1>5 DEF Update, Receive
  <2>2. FetchInv' /\ (On => Fetching')
    BY <1>1, <1>5, <2>1, InvalidateCurrent DEF CurrentInv, Update
  <2>3. ~On => NewsIsComing'
    BY <1>1, <2>1 DEF NewsIsComing, On
  <2> QED
    BY <2>2, <2>3 DEF ScreenInv
<1>6. CASE Connects(m) \/ Beat(m) \/ Disconnects(m)
  <2>1. fetch' = fetch /\ onScreen' = onScreen
    BY <1>6 DEF Connects, Beat, Disconnects, Calm, TicketMinted, Retry, Subscribe,
                Heartbeat, NoTicket, Break
  <2>2. \/ conn'[m] # "open" /\ \A n \in Mount \ {m} : conn'[n] = conn[n] /\ told'[n] = told[n]
        \/ told'[m] /\ \A n \in Mount \ {m} : conn'[n] = conn[n] /\ told'[n] = told[n]
    BY <1>3, <1>6 DEF Connects, Beat, Disconnects, TicketMinted, Retry, Subscribe, Greeting,
                Heartbeat, NoTicket, Break, Goes, Hushed
  <2>3. NewsIsComing => NewsIsComing'
    BY <1>1, <1>3, <2>1, <2>2 DEF NewsIsComing, On
  <2> QED
    BY <1>1, <1>2, <2>1, <2>3 DEF CurrentInv, FetchInv, ScreenInv, Fetching
<1> QED
  BY <1>4, <1>5, <1>6 DEF Stream

(* Nobody looks at a screen that is left, nor before signing in.           *)
LEMMA SessionCurrent ==
  ASSUME CurrentInv, Close \/ SignOut \/ SignIn
  PROVE  FetchInv' /\ ScreenInv'
<1>1. ~On'
  BY DEF Close, Leave, SignOut, SignIn, On, streamVars
<1> QED
  BY <1>1 DEF FetchInv, ScreenInv, NewsIsComing

(* No interleaving of reads, writes, clicks, events and sessions breaks    *)
(* the invariant.                                                          *)
LEMMA StepCurrent == CurrentInv /\ [Next]_vars => CurrentInv'
<1> SUFFICES ASSUME CurrentInv, [Next]_vars PROVE CurrentInv'
  OBVIOUS
<1>1. OwnInv' /\ StreamInv'
  BY StepOwn DEF CurrentInv
<1>2. CASE UNCHANGED vars
  <2>1. UNCHANGED <<streamVars, db, cache, fetch, call, session, signedIn, suspect>>
    BY <1>2 DEF vars
  <2>2. NewsIsComing => NewsIsComing'
    BY <2>1 DEF NewsIsComing, On, streamVars
  <2> QED
    BY <1>1, <2>1, <2>2 DEF CurrentInv, FetchInv, ScreenInv, Fetching, Optimistic
<1>3. ASSUME NEW c \in Caller, Request(c) \/ Answer(c) PROVE FetchInv' /\ ScreenInv'
  BY <1>3, RequestCurrent, AnswerCurrent
<1>4. ASSUME NEW m \in Mount, Open(m) \/ Stream(m) \/ Disconnects(m)
      PROVE  FetchInv' /\ ScreenInv'
  BY <1>4, StreamCurrent
<1> QED
  BY <1>1, <1>2, <1>3, <1>4, ClickCurrent, ArriveCurrent, QueryCurrent, SessionCurrent
     DEF Next, CurrentInv

(* When nothing is under way the screen shows the books of its own         *)
(* session, unless a rollback or a failed query is on record: no event and *)
(* no interleaving of reads and writes leaves it behind unnoticed.         *)
THEOREM AQuietScreenIsCurrent == Spec => []QuietScreenIsCurrent
<1>1. Init => CurrentInv
  BY InitOwn, InitCurrent, StreamInitInv DEF Init, CurrentInv
<1>2. CurrentInv => QuietScreenIsCurrent
  BY DEF CurrentInv, ScreenInv, NewsIsComing, QuietScreenIsCurrent, Quiet
<1> QED
  BY <1>1, <1>2, StepCurrent, PTL DEF Spec

-----------------------------------------------------------------------------
\* The refinement.

(* Every step of the dashboard is a step of the screen it promises, or     *)
(* none: the books change alone, the picture changes alone, and the screen *)
(* is switched on and off with whatever picture there is.                  *)
LEMMA StepOfScreen ==
  ASSUME TypeOK, TypeOK', [Next]_vars
  PROVE  [Promise!Next]_(Promise!vars)
<1>1. /\ db' \in State /\ cache'.state \in State
      /\ On \in BOOLEAN /\ On' \in BOOLEAN
  BY DEF TypeOK, Shows, On
<1>2. CASE cache' = cache /\ On' = On
  BY <1>1, <1>2 DEF Promise!Next, Promise!Change, Promise!vars
<1>3. CASE db' = db
  <2>1. On' = On \/ On' = ~On
    BY <1>1
  <2> QED
    BY <1>1, <1>3, <2>1 DEF Promise!Next, Promise!Redraw, Promise!Switch, Promise!vars
<1>4. (cache' = cache /\ On' = On) \/ db' = db
  <2>1. ASSUME NEW c \in Caller, Request(c) \/ Answer(c)
        PROVE  (cache' = cache /\ On' = On) \/ db' = db
    BY <2>1 DEF Request, Answer, Write, Refuse, Announce, Succeeds, Fails, On, streamVars
  <2>2. ASSUME NEW c \in Tab, NEW op \in Clicks, Click(c, op) PROVE db' = db
    BY <2>2 DEF Click
  <2>3. ASSUME NEW c \in Outside, NEW op \in OutsideOps, Arrive(c, op) PROVE db' = db
    BY <2>3 DEF Arrive
  <2>4. ASSUME NEW m \in Mount, Open(m) \/ Stream(m) \/ Disconnects(m) PROVE db' = db
    BY <2>4 DEF Open, Stream, Connects, Beat, Update, Disconnects, Calm
  <2>5. CASE Query \/ FetchFails
    BY <2>5 DEF Query, ReadUnits, ReadRest, FetchDone, FetchFails
  <2>6. CASE Close \/ SignOut \/ SignIn
    BY <2>6 DEF Close, SignOut, SignIn
  <2>7. CASE UNCHANGED vars
    BY <2>7 DEF vars
  <2> QED
    BY <2>1, <2>2, <2>3, <2>4, <2>5, <2>6, <2>7 DEF Next
<1> QED
  BY <1>2, <1>3, <1>4

(* The safety part of ImplementsScreen: the dashboard does what Screen     *)
(* allows, step by step.  That it catches up in the end is liveness, which *)
(* the run checks.                                                         *)
THEOREM EveryStepIsOfTheScreen == Spec => Promise!Init /\ [][Promise!Next]_(Promise!vars)
<1>1. Init => Promise!Init
  <2> SUFFICES ASSUME Init PROVE Promise!Init
    OBVIOUS
  <2>1. db \in State /\ cache.state \in State
    BY Blanks DEF Init, Blank
  <2>2. On = FALSE
    BY DEF Init, InitStream, On
  <2> QED
    BY <2>1, <2>2 DEF Promise!Init
<1>2. OwnInv => TypeOK
  BY DEF OwnInv
<1>3. TypeOK /\ TypeOK' /\ [Next]_vars => [Promise!Next]_(Promise!vars)
  BY StepOfScreen
<1> QED
  BY <1>1, <1>2, <1>3, DashboardInvariant, PTL DEF Spec
=============================================================================
