----------------------------- MODULE LiveUpdates -----------------------------
(***************************************************************************)
(* The stream of estate events into the browser: useLiveUpdates            *)
(* (use-live-updates.ts), the effect that every mount of the dashboard's   *)
(* layout runs, and the server side of the stream (realtime.controller.ts, *)
(* realtime.service.ts).  A mount asks for a ticket, opens an EventSource  *)
(* with it, and after an error waits for a timer and starts over.  The     *)
(* layout may be left at any await, and come back as another mount.        *)
(***************************************************************************)
EXTENDS Naturals

CONSTANT MaxMounts   \* bound: mounts of the layout

ASSUME MountAssumption == MaxMounts \in Nat

Mount  == 1..MaxMounts   \* in the order they come; each runs the effect
Nobody == 0              \* the layout is not on screen

VARIABLES
  conn,      \* where connect() stands in each mount
  closed,    \* the effect's local variable, set by its cleanup
  onScreen,  \* the mount that is on screen
  told       \* whether a message to a mount is on the wire

streamVars == <<conn, closed, onScreen, told>>

InitStream ==
  /\ conn = [m \in Mount |-> "fresh"]
  /\ closed = [m \in Mount |-> FALSE]
  /\ onScreen = Nobody
  /\ told = [m \in Mount |-> FALSE]

Goes(m, next) == conn' = [conn EXCEPT ![m] = next]

Hushed(m) == told' = [told EXCEPT ![m] = FALSE]
-----------------------------------------------------------------------------
\* The layout is mounted and unmounted.

(* Without a token and an estate the effect returns at once.               *)
Enter(m, hasToken) ==
  /\ onScreen = Nobody /\ conn[m] = "fresh"
  /\ \A n \in Mount : n < m => conn[n] # "fresh"
  /\ onScreen' = m
  /\ Goes(m, IF hasToken THEN "asking" ELSE "over")
  /\ UNCHANGED <<closed, told>>

(* The cleanup clears the timer and closes the EventSource; a ticket that  *)
(* is being asked for cannot be called back.                               *)
Leave ==
  /\ onScreen # Nobody
  /\ onScreen' = Nobody
  /\ closed' = [closed EXCEPT ![onScreen] = TRUE]
  /\ Goes(onScreen, IF conn[onScreen] = "asking" THEN "asking" ELSE "over")
  /\ Hushed(onScreen)
-----------------------------------------------------------------------------
\* connect().

\* Mutant of MayGoOn: closed is not looked at after the await.
GoesOnAnyway(m) == TRUE

MayGoOn(m) == ~closed[m]

TicketMinted(m) ==
  /\ conn[m] = "asking"
  /\ Goes(m, IF MayGoOn(m) THEN "opening" ELSE "over")
  /\ UNCHANGED <<closed, onScreen, told>>

(* The server is down, or the API token has expired: again in 5 seconds.   *)
NoTicket(m) ==
  /\ conn[m] = "asking"
  /\ Goes(m, IF MayGoOn(m) THEN "waiting" ELSE "over")
  /\ UNCHANGED <<closed, onScreen, told>>

(* onerror: the ticket was refused, or the connection is gone with what    *)
(* was on the wire.  Again in 3 seconds, with another ticket.              *)
Break(m) ==
  /\ conn[m] \in {"opening", "open"}
  /\ Goes(m, "waiting")
  /\ Hushed(m)
  /\ UNCHANGED <<closed, onScreen>>

(* The timer calls connect, which gives up if the estate is gone.          *)
Retry(m, hasToken) ==
  /\ conn[m] = "waiting"
  /\ Goes(m, IF hasToken THEN "asking" ELSE "over")
  /\ UNCHANGED <<closed, onScreen, told>>

(* onmessage.                                                              *)
Receive(m) ==
  /\ told[m]
  /\ Hushed(m)
  /\ UNCHANGED <<conn, closed, onScreen>>
-----------------------------------------------------------------------------
\* The server's side.

\* Mutant of Greeting: the stream does not begin with an event of its own.
NoGreeting == FALSE

(* The first event of a stream, before those of the estate.                *)
Greeting == TRUE

Subscribe(m) ==
  /\ conn[m] = "opening"
  /\ Goes(m, "open")
  /\ told' = [told EXCEPT ![m] = Greeting]
  /\ UNCHANGED <<closed, onScreen>>

\* Mutant of Beats: the stream has no heartbeat.
NeverBeats(m) == FALSE

Beats(m) == conn[m] = "open"

Heartbeat(m) ==
  /\ Beats(m) /\ ~told[m]
  /\ told' = [told EXCEPT ![m] = TRUE]
  /\ UNCHANGED <<conn, closed, onScreen>>

(* broadcast: nobody keeps an event for a stream that is not open.         *)
Broadcast ==
  /\ told' = [m \in Mount |-> told[m] \/ conn[m] = "open"]
  /\ UNCHANGED <<conn, closed, onScreen>>
-----------------------------------------------------------------------------
NextStream ==
  \/ Leave \/ Broadcast
  \/ \E m \in Mount : \/ TicketMinted(m) \/ NoTicket(m) \/ Break(m) \/ Receive(m)
                      \/ Subscribe(m) \/ Heartbeat(m)
                      \/ \E hasToken \in BOOLEAN : Enter(m, hasToken) \/ Retry(m, hasToken)

StreamTypeOK ==
  /\ conn \in [Mount -> {"fresh", "asking", "waiting", "opening", "open", "over"}]
  /\ closed \in [Mount -> BOOLEAN]
  /\ onScreen \in Mount \cup {Nobody}
  /\ told \in [Mount -> BOOLEAN]

(* However often the layout comes and goes while tickets are on their way, *)
(* the browser holds one stream at the most, that of the mount on screen,  *)
(* and no timer of a mount that has gone will open another ("const         *)
(* closed", use-live-updates.ts 20-55).                                    *)
OneStream ==
  \A m \in Mount : conn[m] \in {"waiting", "opening", "open"} => m = onScreen

(* The inductive invariant.                                                *)
MountInv ==
  \A m \in Mount :
    /\ onScreen = m => ~closed[m] /\ conn[m] # "fresh"
    /\ conn[m] = "fresh" => ~closed[m]
    /\ conn[m] = "asking" /\ ~closed[m] => m = onScreen
    /\ told[m] => conn[m] = "open"

StreamInv == StreamTypeOK /\ MountInv /\ OneStream
=============================================================================
