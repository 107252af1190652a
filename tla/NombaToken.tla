----------------------------- MODULE NombaToken -----------------------------
(***************************************************************************)
(* The access token that every call to Nomba needs (nomba.service.ts): a   *)
(* cache with the time it was filled, the promise of a fetch under way     *)
(* which concurrent callers share, and a cron job that fetches whether or  *)
(* not somebody else is.  JavaScript runs each handler to its next await,  *)
(* so what happens when a fetch is answered - the cache is filled, finally *)
(* drops the shared promise, the callers go on - is one step.              *)
(*                                                                         *)
(* Time is counted in units that are longer than the timeout of a fetch    *)
(* (15 seconds) and of which Threshold make 25 minutes.                    *)
(***************************************************************************)
EXTENDS Naturals, FiniteSets

CONSTANTS
  Caller,     \* requests that call Nomba
  Fetch,      \* fetches of a token: names, used again when a fetch is over
  NoFetch,    \* no fetch
  Threshold,  \* REFRESH_THRESHOLD_MS
  Lifetime,   \* how long a token is accepted: 30 minutes
  MaxOverlaps \* bound: refreshes that meet a fetch under way, in a row

ASSUME TokenAssumption ==
  /\ Threshold \in Nat \ {0} /\ Lifetime \in Nat /\ Threshold < Lifetime
  /\ MaxOverlaps \in Nat
  /\ IsFiniteSet(Fetch)
  /\ NoFetch \notin Fetch

VARIABLES
  cache,     \* tokenCache, with the age of fetchedAt and of the token itself
  shared,    \* fetchingToken
  flying,    \* the fetches under way
  elapsed,   \* units of time that ended during each of them
  cron,      \* the fetch of the cron job, while it is under way
  caller,    \* where each caller is
  overlaps   \* history: refreshes that met a fetch under way, until all is quiet

tokenVars == <<cache, shared, flying, elapsed, cron, caller, overlaps>>

Token    == [filled : 0 .. Lifetime, age : 0 .. Lifetime]
NoToken  == [filled |-> Lifetime, age |-> Lifetime]   \* like an old one
Idle     == [at |-> "idle"]
Failed   == [at |-> "failed"]
On(f)    == [at |-> "waiting", fetch |-> f]
Sent(n)  == [at |-> "sent", age |-> n]

TokenInit ==
  /\ cache = NoToken
  /\ shared = NoFetch
  /\ flying = {}
  /\ elapsed = [f \in Fetch |-> 0]
  /\ cron = NoFetch
  /\ caller = [c \in Caller |-> Idle]
  /\ overlaps = 0
-----------------------------------------------------------------------------
\* getAccessToken.

\* Mutant of Fresh: whatever is cached is served.
Cached == cache # NoToken

(* A token is served from the cache until it reaches the threshold.        *)
Fresh == cache.filled < Threshold

\* Mutant of MayFetch: no look at the promise of a fetch under way.
MayFetchAlways == ~Fresh

MayFetch == ~Fresh /\ shared = NoFetch

Serve(c) ==
  /\ caller[c] = Idle
  /\ Fresh
  /\ caller' = [caller EXCEPT ![c] = Sent(cache.age)]
  /\ UNCHANGED <<cache, shared, flying, elapsed, cron, overlaps>>

Join(c) ==
  /\ caller[c] = Idle
  /\ ~Fresh /\ shared # NoFetch
  /\ caller' = [caller EXCEPT ![c] = On(shared)]
  /\ UNCHANGED <<cache, shared, flying, elapsed, cron, overlaps>>

(* fetchAndCacheToken: the new promise takes the place of the old one.     *)
StartFetch(f) ==
  /\ f \notin flying
  /\ flying' = flying \cup {f}
  /\ elapsed' = [elapsed EXCEPT ![f] = 0]
  /\ shared' = f

FetchFor(c, f) ==
  /\ caller[c] = Idle
  /\ MayFetch
  /\ StartFetch(f)
  /\ caller' = [caller EXCEPT ![c] = On(f)]
  /\ UNCHANGED <<cache, cron, overlaps>>

(* refreshToken: at least ten minutes lie between two of them.             *)
Refresh(f) ==
  /\ cron = NoFetch
  /\ flying = {} \/ overlaps < MaxOverlaps
  /\ StartFetch(f)
  /\ cron' = f
  /\ overlaps' = IF flying = {} THEN 0 ELSE overlaps + 1
  /\ UNCHANGED <<cache, caller>>
-----------------------------------------------------------------------------
\* The end of _doFetchToken, and of finally.

Waiting(c, f) == caller[c] = On(f)

FetchEnds(f, next) ==
  /\ f \in flying
  /\ flying' = flying \ {f}
  /\ cron' = IF cron = f THEN NoFetch ELSE cron
  /\ caller' = [c \in Caller |-> IF Waiting(c, f) THEN next ELSE caller[c]]
  /\ overlaps' = IF flying = {f} THEN 0 ELSE overlaps
  /\ UNCHANGED elapsed

(* The token was issued while the fetch was under way; fetchedAt is now.   *)
FetchAnswered(f) ==
  \E age \in 0 .. elapsed[f] :
    /\ FetchEnds(f, Sent(age))
    /\ cache' = [filled |-> 0, age |-> age]
    /\ shared' = NoFetch

\* Mutant of FetchFails: the promise is dropped after a success only.
FetchFailsAndStays(f) == FetchEnds(f, Failed) /\ UNCHANGED <<cache, shared>>

(* Finally drops the promise that is shared now, be it another fetch's.    *)
FetchFails(f) ==
  /\ FetchEnds(f, Failed)
  /\ shared' = NoFetch
  /\ UNCHANGED cache
-----------------------------------------------------------------------------
(* The caller's request to Nomba, or the caller, is over.                  *)
EndRequest(c) ==
  /\ caller[c].at \in {"sent", "failed"}
  /\ caller' = [caller EXCEPT ![c] = Idle]
  /\ UNCHANGED <<cache, shared, flying, elapsed, cron, overlaps>>

Older(n) == IF n < Lifetime THEN n + 1 ELSE n

(* A unit of time ends.  A fetch is shorter than a unit, so it sees the    *)
(* end of one at most.                                                     *)
Tick ==
  /\ \A f \in flying : elapsed[f] = 0
  /\ cache' = [filled |-> Older(cache.filled), age |-> Older(cache.age)]
  /\ elapsed' = [f \in Fetch |-> IF f \in flying THEN 1 ELSE 0]
  /\ UNCHANGED <<shared, flying, cron, caller, overlaps>>

Asks(c)     == Serve(c) \/ Join(c) \/ \E f \in Fetch : FetchFor(c, f)
Complete(f) == FetchAnswered(f) \/ FetchFails(f)

TokenNext ==
  \/ \E c \in Caller : Asks(c) \/ EndRequest(c)
  \/ \E f \in Fetch : Refresh(f) \/ Complete(f)
  \/ Tick

(* A fetch is answered, or ended by its timeout.                           *)
TokenFairness == \A f \in Fetch : WF_tokenVars(Complete(f))

TokenSpec == TokenInit /\ [][TokenNext]_tokenVars /\ TokenFairness
-----------------------------------------------------------------------------
(* Every variable is of its type.                                          *)
TokenTypeOK ==
  /\ cache \in Token
  /\ shared \in Fetch \cup {NoFetch}
  /\ flying \subseteq Fetch
  /\ elapsed \in [Fetch -> 0 .. 1]
  /\ cron \in Fetch \cup {NoFetch}
  /\ caller \in [Caller -> {Idle, Failed} \cup {On(f) : f \in Fetch}
                                           \cup {Sent(n) : n \in 0 .. Lifetime}]
  /\ overlaps \in 0 .. MaxOverlaps

(* No request leaves with a token that has expired, although fetchedAt is  *)
(* the time of the answer and not of the issue, and an old fetch may fill  *)
(* the cache after a new one ("refresh before 30-min expiry", line 19).    *)
TokenIsValid == \A c \in Caller : caller[c].at = "sent" => caller[c].age < Lifetime

(* Callers do not stampede the token endpoint (lines 22-25): however many  *)
(* there are, at most one fetch is under way, and one more for each        *)
(* refresh by the cron job that met a fetch under way.  Such a refresh     *)
(* takes over the shared promise, which the end of the other drops.        *)
StampedeIsBounded == Cardinality(flying) <= 1 + overlaps

(* Every caller gets a token or an error in the end: what it waits for is  *)
(* under way, also after failures and for the waiters of a promise that    *)
(* another has replaced.                                                   *)
CallersAreAnswered ==
  \A c \in Caller : caller[c].at = "waiting" ~> caller[c].at # "waiting"

(* The inductive invariant: the shared promise is one that will settle, and*)
(* if there is none another fetch may start.                               *)
PromiseInv ==
  /\ shared # NoFetch => shared \in flying
  /\ cron # NoFetch => cron \in flying
  /\ \A c \in Caller, f \in Fetch : Waiting(c, f) => f \in flying
  /\ Cardinality(flying) + (IF shared = NoFetch THEN 1 ELSE 0) <= 1 + overlaps
AgeInv == cache.filled < Lifetime => cache.age <= cache.filled + 1
TokenInv   == TokenTypeOK /\ PromiseInv /\ AgeInv /\ TokenIsValid
=============================================================================
