------------------------------ MODULE Calendars -----------------------------
(***************************************************************************)
(* What GET /api/calendar shows: calendar/graph.py and outlook_personal.py *)
(* put one snapshot together from several mailboxes, over many requests to *)
(* Microsoft Graph of which any may fail, with two caches per mailbox (the *)
(* colours of its categories, the name of its holder) and the household's  *)
(* choice of further calendars (calendar/secondary.py).                    *)
(*                                                                         *)
(* A mailbox is the set of calendars that Graph lists for it; events are   *)
(* the household's, so that a calendar which is shared into a second       *)
(* mailbox brings the same events.  Times, pages, titles and the reuse of  *)
(* an access token are left out; getting a token is one of the requests.   *)
(***************************************************************************)
EXTENDS Gates, Integers, Sequences, FiniteSets

CONSTANTS Users,     \* the mailboxes, a sequence
          Mailbox,   \* per user a set of [id, owner, default, hidden, events]
          Malformed, \* events the models reject
          Tagged     \* events with a category

VARIABLES
  enabled,   \* SecondaryCalendarStore._enabled, pairs of a user and an id
  chosen,    \* what its file holds
  cache,     \* _entries of both caches: whether fresh and whether known
  learnt,    \* the entries whose last good answer since the start had content (history)
  shown      \* the snapshot the kiosk got last

calendarVars == <<enabled, chosen, cache, learnt, shown>>

Members == {Users[i] : i \in DOMAIN Users}

\* An event is of one calendar; a calendar that Graph reports the owner of is
\* once in its owner's mailbox, and the default one of a mailbox is its own.
ASSUME CalendarsAssumption ==
  /\ Users \in Seq(Members)
  /\ \A u \in Members : \A c \in Mailbox[u] : c.default => c.owner \in {u, "unreported"}
  /\ \A u, v \in Members : \A c \in Mailbox[u], d \in Mailbox[v] :
       c.events \cap d.events # {} /\ c.owner # "unreported" /\ d.owner # "unreported"
         => c.owner = d.owner /\ (u = v => c = d)

Caches == {"colors", "names"} \X Members
Unread == [fresh |-> FALSE, known |-> FALSE]
Failed == [failed |-> TRUE, calendars |-> {}, events |-> {}]
Primary(u) == <<u, "primary">>

CalendarsInit ==
  /\ enabled = {} /\ chosen = {} /\ learnt = {} /\ shown = Failed
  /\ cache = [c \in Caches |-> Unread]

-----------------------------------------------------------------------------
\* is_foreign_calendar: somebody else's calendar, when Graph says whose.
\* Mutant: everything listed is the mailbox's own.
ForeignNever(calendar, u) == FALSE

Foreign(calendar, u) == calendar.owner \notin {"unreported", u}

\* The calendars beyond the default one that the people flyout may offer.
Extras == [u \in Members |->
  {c \in Mailbox[u] : ~c.default /\ ~Foreign(c, u) /\ ~c.hidden}]

DefaultEvents == [u \in Members |->
  UNION {c.events : c \in {d \in Mailbox[u] : d.default}}]

\* secondary_calendar_id, and those whose events are asked for.
ExtraId(u, calendar) == <<u, calendar.id>>
Chosen(u) == {c \in Extras[u] : ExtraId(u, c) \in enabled}

\* _map_event: a malformed event is skipped, the others stay.
Mapped(events, id) == {<<e, id>> : e \in events \ Malformed}

\* One user's part of the snapshot; the extras are left out when they could
\* not be listed.
Rows(u, listed) ==
  {Primary(u)} \cup {ExtraId(u, c) : c \in IF listed THEN Extras[u] ELSE {}}

EventsOf(u, listed) ==
  Mapped(DefaultEvents[u], Primary(u)) \cup
    UNION {Mapped(c.events, ExtraId(u, c)) : c \in IF listed THEN Chosen(u) ELSE {}}

\* The caches that are looked up: the name always, colours when an event that
\* was fetched has a category.
Lookups(u, listed) ==
  {<<"names", u>>} \cup
    (IF Tagged \cap (DefaultEvents[u] \cup
                     UNION {c.events : c \in IF listed THEN Chosen(u) ELSE {}}) = {}
     THEN {} ELSE {<<"colors", u>>})

\* CategoryColorCache.get and ProfileNameCache.get: nothing is asked while the
\* entry is fresh; a failed request keeps what was known, for another period,
\* and a good answer replaces it, by nothing if it is empty.
Asked(entry, answer) ==
  IF entry.fresh THEN entry
  ELSE [fresh |-> TRUE, known |-> answer = "full" \/ (answer = "failed" /\ entry.known)]

\* snapshot(): user after user.  What fails for the user after the first
\* `done` ones (its token, its events, those of an extra calendar) fails the
\* whole snapshot; the lists, colours and names are taken as they come.
GetCalendar ==
  \E done \in 0 .. Len(Users) : LET users == {Users[i] : i \in 1 .. done} IN
  \E listed \in SUBSET users,
     partly \in SUBSET UNION {Lookups(Users[i], TRUE) : i \in {done + 1} \cap DOMAIN Users} :
    LET asked == partly \cup UNION {Lookups(u, u \in listed) : u \in users}
        stale == {c \in asked : ~cache[c].fresh}
    IN \E answer \in [stale -> {"full", "empty", "failed"}] :
       /\ cache' = [c \in Caches |-> IF c \in asked THEN Asked(cache[c], answer[c]) ELSE cache[c]]
       /\ learnt' = {c \in learnt \cup stale :
                       c \in stale => answer[c] = "full" \/ (c \in learnt /\ answer[c] = "failed")}
       /\ shown' = IF done < Len(Users) THEN Failed
                   ELSE [failed |-> FALSE,
                         calendars |-> UNION {Rows(u, u \in listed) : u \in users},
                         events |-> UNION {EventsOf(u, u \in listed) : u \in users}]
       /\ UNCHANGED <<enabled, chosen>>

\* PUT /calendar/calendars, for a calendar that a kiosk was shown; refused for
\* a primary one.  The file is written as well as it can be.
SetCalendarEnabled(id, on) ==
  /\ RequireUnlocked
  /\ id \in shown.calendars \ {Primary(u) : u \in Members}
  /\ on # (id \in enabled)
  /\ enabled' = IF on THEN enabled \cup {id} ELSE enabled \ {id}
  /\ chosen' \in {chosen, enabled'}
  /\ UNCHANGED <<cache, learnt, shown>>

CacheExpires(c) ==
  /\ cache[c].fresh
  /\ cache' = [cache EXCEPT ![c].fresh = FALSE]
  /\ UNCHANGED <<enabled, chosen, learnt, shown>>

RestartCalendars ==
  /\ enabled' = chosen
  /\ cache' = [c \in Caches |-> Unread] /\ learnt' = {}
  /\ UNCHANGED <<chosen, shown>>

CalendarIds == UNION {{<<u, c.id>> : c \in Mailbox[u]} \cup {Primary(u)} : u \in Members}

CalendarsNext ==
  \/ GetCalendar \/ RestartCalendars
  \/ \E c \in Caches : CacheExpires(c)
  \/ \E id \in CalendarIds, on \in BOOLEAN : SetCalendarEnabled(id, on)

-----------------------------------------------------------------------------
CalendarsTypeOK ==
  /\ enabled \subseteq CalendarIds /\ chosen \subseteq CalendarIds
  /\ cache \in [Caches -> [fresh : BOOLEAN, known : BOOLEAN]] /\ learnt \subseteq Caches
  /\ \A e \in shown.events : e[2] \in shown.calendars

\* A snapshot that succeeds shows the default calendar of every member whole,
\* but for malformed events, and nothing twice, although members share their
\* calendars with each other (as long as Graph reports the owner); what has
\* been learnt about a mailbox is not lost to a request that fails.
EveryEventOnce ==
  /\ ~shown.failed =>
       /\ \A u \in Members : DefaultEvents[u] \ Malformed \subseteq {e[1] : e \in shown.events}
       /\ \A e, f \in shown.events :
            e[1] = f[1] /\ e # f =>
              \E u \in Members : \E c \in Mailbox[u] :
                c.owner = "unreported" /\ e[1] \in c.events
  /\ \A c \in learnt : cache[c].known
=============================================================================
