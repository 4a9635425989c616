------------------------------- MODULE Grants -------------------------------
(***************************************************************************)
(* POST /api/voice/token (voice/cache.py): the grant a kiosk opens a voice *)
(* turn with.  Gemini's token is minted with a prompt that is stamped with *)
(* the wall clock, and is served again until the stamp could mislead; the  *)
(* relay providers get a single-use ticket (voice/relay.py,                *)
(* voice/local/session.py).  PUT /api/voice/config switches the provider   *)
(* from a worker thread, in two steps, while requests await.               *)
(*                                                                         *)
(* Requests carry the kiosk's own clock, which may be any moment of Times. *)
(* Monotonic ages (of the snapshot, of a ticket) pass at any moment.       *)
(***************************************************************************)
EXTENDS Integers, FiniteSets, FiniteSetsExt

CONSTANTS Requests,  \* requests that may be under way at once
          Zones,     \* request -> timezones its kiosk may report
          Times,     \* moments, an interval of Nat
          Agendas,   \* sets of moments at which events may start or end
          DayLength, \* a midnight every so many moments
          MaxStale,  \* voice_token_max_stale_seconds, within the ttl
          MaxTickets \* bound on the tickets issued

Nobody == "nobody"

\* The cap on a token's age is at least a second (max(max_stale, 1)).
ASSUME GrantsAssumption ==
  /\ Nobody \notin Requests /\ Times \subseteq Nat /\ Agendas \subseteq SUBSET Times
  /\ DayLength \in Nat \ {0} /\ MaxStale \in Nat \ {0} /\ MaxTickets \in Nat

VARIABLES
  provider,  \* the provider in force: "gemini" or "azure_openai_realtime"
  pending,   \* the override is set, the caches are not yet reset
  agenda,    \* the starts and ends of the household's events
  snapshot,  \* _snapshot: the days cached and the boundaries in it
  token,     \* _token
  lock,      \* the request that holds _lock
  request,   \* each request: where it is and what it has read
  tickets,   \* _TICKETS: ticket -> "live", "expired" or "gone"
  opened,    \* ticket -> how many sessions it opened
  served     \* the answer just given, with the request it was made for

grantVars == <<provider, pending, agenda, snapshot, token, lock, request, tickets, opened, served>>

None == [none |-> TRUE]
Providers == {"gemini", "azure_openai_realtime"}
Reusable(p) == p = "gemini"
Dayof(t) == t \div DayLength
NextMidnight(t) == DayLength * (Dayof(t) + 1)
Idle == [at |-> "idle", now |-> 0, zone |-> None, provider |-> "gemini", boundaries |-> {}]

GrantsTypeOK ==
  /\ provider \in Providers /\ pending \in BOOLEAN /\ agenda \subseteq Times
  /\ snapshot = None \/ snapshot \in [day : Nat, boundaries : SUBSET Times]
  /\ token = None \/ (/\ token.minted < token.until
                      /\ token.until <= token.minted + MaxStale)
  /\ lock \in Requests \cup {Nobody}
  /\ \A r \in Requests : request[r].at \in {"idle", "lock", "snapshot", "mint"}
  /\ \A r \in Requests : request[r].at \in {"snapshot", "mint"} <=> lock = r
  /\ Cardinality(DOMAIN tickets) <= MaxTickets

GrantsInit ==
  /\ provider \in Providers /\ pending = FALSE
  /\ agenda \in Agendas
  /\ snapshot = None /\ token = None /\ lock = Nobody
  /\ request = [r \in Requests |-> Idle]
  /\ tickets = <<>> /\ opened = <<>>
  /\ served = None

-----------------------------------------------------------------------------
\* freshness_horizon.  Mutant: the end of the day is not looked at.
HorizonWithoutMidnight(now, boundaries) ==
  Min({now + MaxStale} \cup {b \in boundaries : b > now})

FreshnessHorizon(now, boundaries) ==
  Min({now + MaxStale, NextMidnight(now)} \cup {b \in boundaries : b > now})

\* _CachedToken.is_fresh; a clock that went back is not fresh either.
IsFresh(now, zone, p) ==
  /\ token # None
  /\ token.provider = p /\ token.zone = zone
  /\ token.minted <= now /\ now < token.until

\* What the answer to a request was made of, for the property below.
Serve(q, minted, boundaries) ==
  served' = [provider |-> minted.provider, asked |-> q.provider, zone |-> minted.zone,
             askedZone |-> q.zone, minted |-> minted.minted, now |-> q.now,
             boundaries |-> boundaries]

\* get(): the adapter is chosen first; a fresh token is served at once.
Get(r) == \E now \in Times, zone \in Zones[r] :
  LET q == [Idle EXCEPT !.now = now, !.zone = zone, !.provider = provider]
  IN /\ request[r].at = "idle"
     /\ IF Reusable(provider) /\ IsFresh(now, zone, provider)
        THEN Serve(q, token, token.boundaries) /\ UNCHANGED request
        ELSE request' = [request EXCEPT ![r] = [q EXCEPT !.at = "lock"]] /\ served' = None
     /\ UNCHANGED <<provider, pending, agenda, snapshot, token, lock, tickets, opened>>

\* The lock is got: another request may have minted meanwhile; the snapshot
\* may be cached for the day, unless its ttl has passed.
Acquire(r) ==
  LET q == request[r]
  IN /\ q.at = "lock" /\ lock = Nobody
     /\ \/ /\ Reusable(q.provider) /\ IsFresh(q.now, q.zone, q.provider)
           /\ Serve(q, token, token.boundaries)
           /\ request' = [request EXCEPT ![r] = Idle]
           /\ UNCHANGED lock
        \/ /\ ~(Reusable(q.provider) /\ IsFresh(q.now, q.zone, q.provider))
           /\ snapshot # None /\ snapshot.day = Dayof(q.now)
           /\ request' = [request EXCEPT ![r].at = "mint", ![r].boundaries = snapshot.boundaries]
           /\ lock' = r /\ served' = None
        \/ /\ ~(Reusable(q.provider) /\ IsFresh(q.now, q.zone, q.provider))
           /\ request' = [request EXCEPT ![r].at = "snapshot"]
           /\ lock' = r /\ served' = None
     /\ UNCHANGED <<provider, pending, agenda, snapshot, token, tickets, opened>>

\* The provider's snapshot, fetched in a worker thread, is cached.
Fetched(r) ==
  /\ request[r].at = "snapshot"
  /\ snapshot' = [day |-> Dayof(request[r].now), boundaries |-> agenda]
  /\ request' = [request EXCEPT ![r].at = "mint", ![r].boundaries = agenda]
  /\ UNCHANGED <<provider, pending, agenda, token, lock, tickets, opened>> /\ served' = None

\* _prune of the ticket store, which every issue and redemption begins with.
Pruned == [t \in DOMAIN tickets |-> IF tickets[t] = "expired" THEN "gone" ELSE tickets[t]]

\* create_grant answers: the token is cached, or a ticket is issued.
Minted(r) ==
  LET q == request[r]
      minted == [provider |-> q.provider, zone |-> q.zone, minted |-> q.now,
                 until |-> FreshnessHorizon(q.now, q.boundaries), boundaries |-> q.boundaries]
      n == Cardinality(DOMAIN tickets) + 1
  IN /\ q.at = "mint"
     /\ IF Reusable(q.provider)
        THEN token' = minted /\ UNCHANGED <<tickets, opened>>
        ELSE /\ n <= MaxTickets
             /\ tickets' = [t \in 1 .. n |-> IF t = n THEN "live" ELSE Pruned[t]]
             /\ opened' = [t \in 1 .. n |-> IF t = n THEN 0 ELSE opened[t]]
             /\ UNCHANGED token
     /\ Serve(q, minted, q.boundaries)
     /\ request' = [request EXCEPT ![r] = Idle] /\ lock' = Nobody
     /\ UNCHANGED <<provider, pending, agenda, snapshot>>

\* Mutant: a mint that fails keeps the lock.
FailsLocked(r) ==
  /\ request[r].at \in {"snapshot", "mint"}
  /\ request' = [request EXCEPT ![r] = Idle]
  /\ UNCHANGED <<provider, pending, agenda, snapshot, token, lock, tickets, opened>> /\ served' = None

\* The calendar or the mint fails: 409 or 500, and the lock is released.
Fails(r) ==
  /\ request[r].at \in {"snapshot", "mint"}
  /\ request' = [request EXCEPT ![r] = Idle] /\ lock' = Nobody
  /\ UNCHANGED <<provider, pending, agenda, snapshot, token, tickets, opened>> /\ served' = None

\* _TICKETS.pop of redeem_ticket.
Taken(t) == [Pruned EXCEPT ![t] = "gone"]

\* A kiosk, or a second one with the same ticket, opens its session.
Redeem(t) ==
  /\ tickets' = Taken(t)
  /\ opened' = [opened EXCEPT ![t] = IF Pruned[t] = "live" THEN Min({@ + 1, 2}) ELSE @]
  /\ UNCHANGED <<provider, pending, agenda, snapshot, token, lock, request>> /\ served' = None

Expire(t) ==
  /\ tickets[t] = "live"
  /\ tickets' = [tickets EXCEPT ![t] = "expired"]
  /\ UNCHANGED <<provider, pending, agenda, snapshot, token, lock, request, opened>> /\ served' = None

\* set_voice_config: the override first, the caches after it.
SetProvider(p) ==
  /\ ~pending
  /\ provider' = p /\ pending' = TRUE
  /\ UNCHANGED <<agenda, snapshot, token, lock, request, tickets, opened>> /\ served' = None

ResetCaches ==
  /\ pending
  /\ pending' = FALSE /\ token' = None /\ snapshot' = None
  /\ UNCHANGED <<provider, agenda, lock, request, tickets, opened>> /\ served' = None

GrantsNext ==
  \/ \E r \in Requests : Get(r) \/ Acquire(r) \/ Fetched(r) \/ Minted(r) \/ Fails(r)
  \/ \E t \in DOMAIN tickets : Redeem(t) \/ Expire(t)
  \/ \E p \in Providers : SetProvider(p)
  \/ ResetCaches

GrantsSpec == GrantsInit /\ [][GrantsNext]_grantVars

-----------------------------------------------------------------------------
\* voice/cache.py:10-24.  Whatever is minted, switched or reset meanwhile, a
\* request is answered with a grant of the provider that was in force when it
\* was made, for its own timezone, whose stamp cannot mislead: no event that
\* the prompt knows of, no midnight and no more than the cap lies between the
\* stamp and the kiosk's clock.  And a ticket opens one session.
GrantIsCurrent ==
  /\ served # None =>
       /\ served.provider = served.asked /\ served.zone = served.askedZone
       /\ served.minted <= served.now /\ served.now < served.minted + MaxStale
       /\ Dayof(served.minted) = Dayof(served.now)
       /\ \A b \in served.boundaries : ~(served.minted < b /\ b <= served.now)
  /\ \A t \in DOMAIN opened : opened[t] <= 1
=============================================================================
