---------------------------- MODULE HouseholdProofs ----------------------------
(***************************************************************************)
(* Theorems about the household's data (Household): the calendars, for any *)
(* mailboxes; signing in, for any number of accounts, flows and threads;   *)
(* the boards, for any names, items, notes and screens; presence, for any  *)
(* observers; and the types of everything.  Each part has an inductive     *)
(* invariant of its own, and a step of the household is a step of the part *)
(* or leaves its variables alone.                                          *)
(***************************************************************************)
EXTENDS Household, FiniteSetTheorems, SequenceTheorems, WellFoundedInduction, TLAPS

-----------------------------------------------------------------------------
(***************************************************************************)
(* The calendars.                                                          *)
(***************************************************************************)
CalendarsTypes ==
  /\ enabled \subseteq CalendarIds /\ chosen \subseteq CalendarIds
  /\ cache \in [Caches -> [fresh : BOOLEAN, known : BOOLEAN]] /\ learnt \subseteq Caches

\* What a snapshot shows, and where it is from: of the default calendar of a
\* member, or of an extra calendar that Graph does not say is another's.
FromDefault(e, u) == e = <<e[1], Primary(u)>> /\ e[1] \in DefaultEvents[u]
FromExtra(e, u) == \E c \in Extras[u] : e = <<e[1], ExtraId(u, c)>> /\ e[1] \in c.events

Sourced ==
  /\ \A e \in shown.events : \E u \in Members : FromDefault(e, u) \/ FromExtra(e, u)
  /\ \A e \in shown.events : e[2] \in shown.calendars
  /\ ~shown.failed => \A u \in Members : \A x \in DefaultEvents[u] \ Malformed :
                        <<x, Primary(u)>> \in shown.events
  /\ \A c \in learnt : cache[c].known

CalendarsInv == CalendarsTypes /\ Sourced

\* Two sources of the same event are the same, where owners are reported.
LEMMA OneSource ==
  ASSUME NEW e, NEW f, NEW u \in Members, NEW v \in Members, e[1] = f[1],
         FromDefault(e, u) \/ FromExtra(e, u), FromDefault(f, v) \/ FromExtra(f, v),
         ~\E w \in Members : \E c \in Mailbox[w] : c.owner = "unreported" /\ e[1] \in c.events
  PROVE  e = f
<1>1. ASSUME NEW g, NEW w \in Members, FromDefault(g, w), g[1] = e[1]
      PROVE  \E c \in Mailbox[w] : c.default /\ c.owner = w /\ e[1] \in c.events
  <2>1. PICK c \in Mailbox[w] : c.default /\ e[1] \in c.events
    BY <1>1 DEF FromDefault, DefaultEvents
  <2>2. c.owner = w
    BY <2>1, CalendarsAssumption
  <2> QED
    BY <2>1, <2>2
<1>2. ASSUME NEW g, NEW w \in Members, FromExtra(g, w), g[1] = e[1]
      PROVE  \E c \in Mailbox[w] : /\ ~c.default /\ c.owner = w /\ e[1] \in c.events
                                   /\ g = <<g[1], ExtraId(w, c)>>
  BY <1>2 DEF FromExtra, Extras, Foreign
<1>3. \A c \in Mailbox[u], d \in Mailbox[v] :
        c.owner = u /\ d.owner = v /\ e[1] \in c.events /\ e[1] \in d.events => u = v /\ c = d
  <2>1. ASSUME NEW c \in Mailbox[u], NEW d \in Mailbox[v],
               c.owner = u, d.owner = v, e[1] \in c.events, e[1] \in d.events
        PROVE  u = v /\ c = d
    <3>1. c.owner # "unreported" /\ d.owner # "unreported" /\ c.events \cap d.events # {}
      BY <2>1
    <3> QED
      BY <2>1, <3>1, CalendarsAssumption
  <2> QED
    BY <2>1
<1>4. CASE FromDefault(e, u) /\ FromDefault(f, v)
  <2>1. u = v
    BY <1>1, <1>3, <1>4
  <2> QED
    BY <1>4, <2>1 DEF FromDefault
<1>5. CASE FromDefault(e, u) /\ FromExtra(f, v)
  BY <1>1, <1>2, <1>3, <1>5
<1>6. CASE FromExtra(e, u) /\ FromDefault(f, v)
  BY <1>1, <1>2, <1>3, <1>6
<1>7. CASE FromExtra(e, u) /\ FromExtra(f, v)
  BY <1>2, <1>3, <1>7
<1> QED
  BY <1>4, <1>5, <1>6, <1>7

LEMMA CalendarsBegin == CalendarsInit => CalendarsInv
BY DEF CalendarsInit, CalendarsInv, CalendarsTypes, Sourced, Failed, Unread

LEMMA SnapshotStep == ASSUME CalendarsInv, GetCalendar PROVE CalendarsInv'
<1>1. PICK done \in 0 .. Len(Users) : LET users == {Users[i] : i \in 1 .. done} IN
        \E listed \in SUBSET users,
           partly \in SUBSET UNION {Lookups(Users[i], TRUE) : i \in {done + 1} \cap DOMAIN Users} :
          LET asked == partly \cup UNION {Lookups(u, u \in listed) : u \in users}
              stale == {c \in asked : ~cache[c].fresh}
          IN \E answer \in [stale -> {"full", "empty", "failed"}] :
             /\ cache' = [c \in Caches |-> IF c \in asked THEN Asked(cache[c], answer[c]) ELSE cache[c]]
             /\ learnt' = {c \in learnt \cup stale :
                             c \in stale => answer[c] = "full" \/ (c \in learnt /\ answer[c] = "failed")}
             /\ shown' = IF done < Len(Users) THEN Failed
                         ELSE [failed |-> FALSE,
                               calendars |-> UNION {Rows(u, u \in listed) : u \in users},
                               events |-> UNION {EventsOf(u, u \in listed) : u \in users}]
             /\ UNCHANGED <<enabled, chosen>>
  BY DEF GetCalendar
<1> DEFINE users == {Users[i] : i \in 1 .. done}
<1>2. PICK listed \in SUBSET users,
           partly \in SUBSET UNION {Lookups(Users[i], TRUE) : i \in {done + 1} \cap DOMAIN Users} :
        LET asked == partly \cup UNION {Lookups(u, u \in listed) : u \in users}
            stale == {c \in asked : ~cache[c].fresh}
        IN \E answer \in [stale -> {"full", "empty", "failed"}] :
           /\ cache' = [c \in Caches |-> IF c \in asked THEN Asked(cache[c], answer[c]) ELSE cache[c]]
           /\ learnt' = {c \in learnt \cup stale :
                           c \in stale => answer[c] = "full" \/ (c \in learnt /\ answer[c] = "failed")}
           /\ shown' = IF done < Len(Users) THEN Failed
                       ELSE [failed |-> FALSE,
                             calendars |-> UNION {Rows(u, u \in listed) : u \in users},
                             events |-> UNION {EventsOf(u, u \in listed) : u \in users}]
           /\ UNCHANGED <<enabled, chosen>>
  BY <1>1
<1> DEFINE asked == partly \cup UNION {Lookups(u, u \in listed) : u \in users}
<1> DEFINE stale == {c \in asked : ~cache[c].fresh}
<1>3. PICK answer \in [stale -> {"full", "empty", "failed"}] :
        /\ cache' = [c \in Caches |-> IF c \in asked THEN Asked(cache[c], answer[c]) ELSE cache[c]]
        /\ learnt' = {c \in learnt \cup stale :
                        c \in stale => answer[c] = "full" \/ (c \in learnt /\ answer[c] = "failed")}
        /\ shown' = IF done < Len(Users) THEN Failed
                    ELSE [failed |-> FALSE,
                          calendars |-> UNION {Rows(u, u \in listed) : u \in users},
                          events |-> UNION {EventsOf(u, u \in listed) : u \in users}]
        /\ UNCHANGED <<enabled, chosen>>
  BY <1>2
<1>4. Users \in Seq(Members) /\ Len(Users) \in Nat /\ DOMAIN Users = 1 .. Len(Users)
  BY CalendarsAssumption
<1>5. users \subseteq Members /\ (~(done < Len(Users)) => users = Members)
  BY <1>4 DEF Members
<1>6. asked \subseteq Caches
  <2>1. \A u \in Members : \A on : Lookups(u, on) \subseteq Caches
    BY DEF Lookups, Caches
  <2>2. \A i \in DOMAIN Users : Users[i] \in Members
    BY DEF Members
  <2>3. partly \subseteq Caches
    <3>1. \A i \in DOMAIN Users : Lookups(Users[i], TRUE) \subseteq Caches
      BY <2>1, <2>2
    <3> QED
      BY <3>1
  <2>4. \A u \in users : Lookups(u, u \in listed) \subseteq Caches
    BY <1>5, <2>1
  <2> QED
    BY <2>3, <2>4
<1> HIDE DEF users, asked, stale
<1>7. CalendarsTypes /\ Sourced
  BY DEF CalendarsInv
<1>8. ASSUME NEW c \in Caches
      PROVE  /\ cache'[c] \in [fresh : BOOLEAN, known : BOOLEAN]
             /\ c \in learnt' => cache'[c].known
  <2>1. cache[c] \in [fresh : BOOLEAN, known : BOOLEAN]
    BY <1>7 DEF CalendarsTypes
  <2>2. c \in learnt => cache[c].known
    BY <1>7 DEF Sourced
  <2>3. c \in stale <=> c \in asked /\ ~cache[c].fresh
    BY DEF stale
  <2>4. cache'[c] = IF c \in asked THEN Asked(cache[c], answer[c]) ELSE cache[c]
    BY <1>3
  <2>5. CASE c \notin asked \/ cache[c].fresh
    <3>1. cache'[c] = cache[c]
      BY <2>4, <2>5 DEF Asked
    <3> QED
      BY <1>3, <2>1, <2>2, <2>3, <2>5, <3>1
  <2>6. CASE c \in asked /\ ~cache[c].fresh
    <3> DEFINE known == answer[c] = "full" \/ (answer[c] = "failed" /\ cache[c].known)
    <3>1. cache'[c] = [fresh |-> TRUE, known |-> known]
      BY <2>4, <2>6 DEF Asked
    <3>2. known \in BOOLEAN
      OBVIOUS
    <3>3. c \in learnt' => known
      BY <1>3, <2>2, <2>3, <2>6
    <3> HIDE DEF known
    <3>4. cache'[c] \in [fresh : BOOLEAN, known : BOOLEAN]
      BY <3>1, <3>2
    <3>5. cache'[c].known = known
      BY <3>1
    <3> QED
      BY <3>3, <3>4, <3>5, Zenon
  <2> QED
    BY <2>5, <2>6
<1>9. CalendarsTypes'
  <2>1. cache' \in [Caches -> [fresh : BOOLEAN, known : BOOLEAN]]
    BY <1>3, <1>8
  <2>2. learnt' \subseteq Caches
    BY <1>3, <1>6, <1>7 DEF CalendarsTypes, stale
  <2> QED
    BY <1>3, <1>7, <2>1, <2>2 DEF CalendarsTypes
<1>10. \A c \in learnt' : cache'[c].known
  BY <1>8, <1>9 DEF CalendarsTypes
<1>11. CASE done < Len(Users)
  <2>1. shown' = Failed
    BY <1>3, <1>11
  <2> QED
    BY <1>9, <1>10, <2>1 DEF CalendarsInv, Sourced, Failed
<1>12. CASE ~(done < Len(Users))
  <2>1. /\ shown'.failed = FALSE
        /\ shown'.calendars = UNION {Rows(u, u \in listed) : u \in Members}
        /\ shown'.events = UNION {EventsOf(u, u \in listed) : u \in Members}
    BY <1>3, <1>5, <1>12
  <2>2. ASSUME NEW u \in Members, NEW e \in EventsOf(u, u \in listed)
        PROVE  (FromDefault(e, u) \/ FromExtra(e, u)) /\ e[2] \in Rows(u, u \in listed)
    <3>1. CASE e \in Mapped(DefaultEvents[u], Primary(u))
      BY <3>1 DEF Mapped, FromDefault, Rows
    <3>2. CASE e \notin Mapped(DefaultEvents[u], Primary(u))
      <4>1. PICK c \in Chosen(u) : u \in listed /\ e \in Mapped(c.events, ExtraId(u, c))
        BY <2>2, <3>2 DEF EventsOf
      <4>2. c \in Extras[u] /\ e[1] \in c.events /\ e = <<e[1], ExtraId(u, c)>>
        BY <4>1 DEF Chosen, Mapped
      <4> QED
        BY <4>1, <4>2 DEF FromExtra, Rows
    <3> QED
      BY <3>1, <3>2
  <2>3. \A e \in shown'.events : \E u \in Members : FromDefault(e, u) \/ FromExtra(e, u)
    BY <2>1, <2>2
  <2>4. \A e \in shown'.events : e[2] \in shown'.calendars
    BY <2>1, <2>2
  <2>5. ASSUME NEW u \in Members, NEW x \in DefaultEvents[u] \ Malformed
        PROVE  <<x, Primary(u)>> \in shown'.events
    <3>1. <<x, Primary(u)>> \in EventsOf(u, u \in listed)
      BY DEF EventsOf, Mapped
    <3> QED
      BY <2>1, <3>1
  <2> QED
    BY <1>9, <1>10, <2>3, <2>4, <2>5 DEF CalendarsInv, Sourced
<1> QED
  BY <1>11, <1>12

LEMMA CalendarsStep == CalendarsInv /\ [CalendarsNext]_calendarVars => CalendarsInv'
<1> SUFFICES ASSUME CalendarsInv, [CalendarsNext]_calendarVars PROVE CalendarsInv'
  OBVIOUS
<1>1. CalendarsTypes /\ Sourced
  BY DEF CalendarsInv
<1>2. ASSUME NEW id \in CalendarIds, NEW on \in BOOLEAN, SetCalendarEnabled(id, on)
      PROVE  CalendarsInv'
  <2>1. enabled' \subseteq CalendarIds /\ chosen' \subseteq CalendarIds /\ UNCHANGED <<cache, learnt, shown>>
    BY <1>1, <1>2 DEF SetCalendarEnabled, CalendarsTypes
  <2> QED
    BY <1>1, <2>1 DEF CalendarsInv, CalendarsTypes, Sourced
<1>3. ASSUME NEW c \in Caches, CacheExpires(c)
      PROVE  CalendarsInv'
  <2>1. cache' = [cache EXCEPT ![c].fresh = FALSE] /\ UNCHANGED <<enabled, chosen, learnt, shown>>
    BY <1>3 DEF CacheExpires
  <2>2. /\ cache' \in [Caches -> [fresh : BOOLEAN, known : BOOLEAN]]
        /\ \A d \in Caches : cache'[d].known = cache[d].known
    BY <1>1, <2>1 DEF CalendarsTypes
  <2> QED
    BY <1>1, <2>1, <2>2 DEF CalendarsInv, CalendarsTypes, Sourced
<1>4. CASE RestartCalendars
  <2>1. /\ enabled' = chosen /\ UNCHANGED <<chosen, shown>>
        /\ cache' = [c \in Caches |-> Unread] /\ learnt' = {}
    BY <1>4 DEF RestartCalendars
  <2>2. cache' \in [Caches -> [fresh : BOOLEAN, known : BOOLEAN]]
    BY <2>1 DEF Unread
  <2> QED
    BY <1>1, <2>1, <2>2 DEF CalendarsInv, CalendarsTypes, Sourced
<1>5. CASE UNCHANGED calendarVars
  BY <1>1, <1>5 DEF calendarVars, CalendarsInv, CalendarsTypes, Sourced
<1> QED
  BY <1>2, <1>3, <1>4, <1>5, SnapshotStep DEF CalendarsNext

LEMMA CalendarsInvMeans == CalendarsInv => EveryEventOnce
<1> SUFFICES ASSUME CalendarsInv PROVE EveryEventOnce
  OBVIOUS
<1>1. Sourced
  BY DEF CalendarsInv
<1>2. ASSUME NEW e \in shown.events, NEW f \in shown.events, e[1] = f[1], e # f
      PROVE  \E u \in Members : \E c \in Mailbox[u] : c.owner = "unreported" /\ e[1] \in c.events
  <2>1. PICK u \in Members : FromDefault(e, u) \/ FromExtra(e, u)
    BY <1>1 DEF Sourced
  <2>2. PICK v \in Members : FromDefault(f, v) \/ FromExtra(f, v)
    BY <1>1 DEF Sourced
  <2> QED
    BY <1>2, <2>1, <2>2, OneSource
<1>3. ASSUME ~shown.failed, NEW u \in Members
      PROVE  DefaultEvents[u] \ Malformed \subseteq {e[1] : e \in shown.events}
  <2>1. ASSUME NEW x \in DefaultEvents[u] \ Malformed
        PROVE  \E e \in shown.events : x = e[1]
    <3>1. <<x, Primary(u)>> \in shown.events /\ <<x, Primary(u)>>[1] = x
      BY <1>1, <1>3 DEF Sourced
    <3> QED
      BY <3>1
  <2> QED
    BY <2>1
<1> QED
  BY <1>1, <1>2, <1>3 DEF Sourced, EveryEventOnce

\* As far as the calendars go, a behaviour of the household is one of theirs.
LEMMA CalendarsPart == HouseholdInit => CalendarsInit
BY DEF HouseholdInit

LEMMA CalendarsPartSteps == [HouseholdNext]_householdVars => [CalendarsNext]_calendarVars
BY DEF HouseholdNext, householdVars, Privacy, List, Notes, Aggregator, OfCamera, SigningIn, Calendar

LEMMA CalendarsInvAlways == HouseholdSpec => []CalendarsInv
<1>1. HouseholdInit => CalendarsInv
  BY CalendarsPart, CalendarsBegin
<1>2. CalendarsInv /\ [HouseholdNext]_householdVars => CalendarsInv'
  BY CalendarsStep, CalendarsPartSteps
<1> QED
  BY <1>1, <1>2, PTL DEF HouseholdSpec

\* A snapshot that succeeds shows every default calendar whole and nothing
\* twice, unless Graph hid an owner, and what was learnt about a mailbox
\* survives the requests that fail (graph.py and outlook_personal.py,
\* snapshot; secondary.py, is_foreign_calendar), for any members, mailboxes
\* and choice of calendars.
THEOREM EventsAlwaysOnce == HouseholdSpec => []EveryEventOnce
BY CalendarsInvAlways, CalendarsInvMeans, PTL

-----------------------------------------------------------------------------
(***************************************************************************)
(* Signing in.  As long as no two saves, and no save and sign-out, have    *)
(* overlapped, the tokens are in one of few places: in memory and in the   *)
(* file when nothing is under way, and on their way through one thread     *)
(* otherwise; or the file could not be written, and then it is not taken   *)
(* for written.  A save that is skipped because nothing seems to have      *)
(* changed is right because every token is a new one.                      *)
(***************************************************************************)
Obtained == Accounts \X (1 .. tokens)
Stages == {"free", "ended", "polling", "clear", "asking", "serialize", "write", "replace", "touch"}

SignInTypes ==
  /\ tokens \in Nat /\ overlapped \in BOOLEAN /\ leaving \in BOOLEAN /\ unsaved \in BOOLEAN
  /\ memory \subseteq Obtained
  /\ file \in {Absent, Torn} \/ file \subseteq Obtained
  /\ written = Absent \/ written \subseteq Obtained
  /\ tmp \in {Absent, Torn} \/ tmp \subseteq Obtained
  /\ thread \in [Threads -> [at : Stages, data : SUBSET Obtained]]

\* The code that is shown, and those that may still be asked for.
Codes ==
  /\ pending \subseteq Flows /\ \A f \in pending : thread[f].at \notin {"free", "ended"}
  /\ begins \in 0 .. Cardinality(Unused)

\* Where the tokens are on their way through a save.
Carried(t) ==
  /\ thread[t].at # "touch" => seen = Present
  /\ thread[t].at # "touch" => OnDisk = memory \/ written # memory
  /\ thread[t].at \in {"write", "replace", "touch"} => thread[t].data = memory
  /\ thread[t].at = "replace" => tmp = memory
  /\ thread[t].at = "touch" => file = memory

\* What was last written is what the file holds, or the file was removed.
Marked == \/ \E t \in Threads : thread[t].at = "touch"
          \/ written \in {Absent, file} \/ file = Absent

Resting ==
  /\ seen = Present
  /\ ~unsaved => OnDisk = memory
  /\ OnDisk = memory \/ written # memory

Settled ==
  /\ file # Torn /\ Marked
  /\ AccountsOf(memory) = wanted
  /\ leaving => memory = {} /\ seen = Present /\ \A t \in Threads : ~Saving(t)
  /\ ~leaving /\ (\A t \in Threads : ~Saving(t)) => Resting
  /\ \A t \in Threads : Saving(t) => Carried(t) /\ \A u \in Threads : Saving(u) => u = t

SignInInv == SignInTypes /\ Codes /\ (~overlapped => Settled)

\* No cache is the absent one, or a torn one.
LEMMA Caches0 == \A S \in SUBSET Obtained : S # Absent /\ S # Torn
<1>1. \A x \in Obtained : x # <<>> /\ x # <<"torn">>
  <2>1. \A a, b : <<a, b>> # <<>> /\ <<a, b>> # <<"torn">>
    <3>1. \A a, b : Len(<<a, b>>) = 2
      OBVIOUS
    <3>2. Len(<<>>) = 0 /\ Len(<<"torn">>) = 1
      OBVIOUS
    <3> QED
      BY <3>1, <3>2
  <2>2. \A x \in Obtained : x = <<x[1], x[2]>>
    BY DEF Obtained
  <2> QED
    BY <2>1, <2>2
<1> QED
  BY <1>1 DEF Absent, Torn

\* A thread that holds the only save, or none: whoever looks sees the memory.
LEMMA Looking == ASSUME SignInInv, ~overlapped PROVE Synced = memory
<1>1. Settled
  BY DEF SignInInv
<1>2. CASE seen = Present
  BY <1>2 DEF Synced, Differs, Present, OnDisk
<1>3. CASE seen # Present
  <2>1. PICK t \in Threads : Saving(t) /\ thread[t].at = "touch"
    <3>1. PICK t \in Threads : Saving(t)
      BY <1>1, <1>3 DEF Settled, Resting
    <3>2. Carried(t)
      BY <1>1, <3>1 DEF Settled
    <3> QED
      BY <1>3, <3>1, <3>2 DEF Carried
  <2>2. file = memory /\ memory # Absent /\ memory # Torn
    BY <1>1, <2>1, Caches0 DEF Settled, Carried, SignInInv, SignInTypes
  <2>3. OnDisk = file
    BY <2>2 DEF OnDisk
  <2> QED
    BY <2>2, <2>3 DEF Synced
<1> QED
  BY <1>2, <1>3

LEMMA SignInInvMeans == SignInInv => SignInHolds
<1> SUFFICES ASSUME SignInInv PROVE SignInHolds
  OBVIOUS
<1>1. ASSUME ~overlapped, ~leaving, \A t \in Threads : ~Saving(t)
      PROVE  /\ AccountsOf(Synced) = wanted
             /\ ~unsaved => AccountsOf(OnDisk) = wanted
             /\ written = Synced => OnDisk = Synced
  <2>1. Synced = memory
    BY <1>1, Looking
  <2>2. Settled
    BY <1>1 DEF SignInInv
  <2> QED
    BY <1>1, <2>1, <2>2 DEF Settled, Resting
<1> QED
  BY <1>1 DEF SignInInv, Codes, SignInHolds

LEMMA SignInBegins == SignInInit => SignInInv
<1> SUFFICES ASSUME SignInInit PROVE SignInInv
  OBVIOUS
<1> USE DEF SignInInit
<1>1. SignInTypes
  BY DEF SignInTypes, Free, Stages
<1>2. Unused \subseteq Flows /\ Cardinality(Unused) \in Nat
  BY SignInAssumption, FS_Subset, FS_CardinalityType DEF Unused
<1>3. Codes
  BY <1>2 DEF Codes
<1>4. \A t \in Threads : ~Saving(t)
  BY DEF Saving, Free
<1>5. Absent # Torn
  BY DEF Absent, Torn
<1>6. Settled
  BY <1>4, <1>5 DEF Settled, Resting, Marked, AccountsOf, OnDisk, Present
<1> QED
  BY <1>1, <1>3, <1>6 DEF SignInInv

LEMMA Wider == ASSUME tokens \in Nat, tokens' \in {tokens, tokens + 1} PROVE Obtained \subseteq Obtained'
BY DEF Obtained

LEMMA CodesHold ==
  ASSUME Codes, pending' \subseteq pending, begins' = begins,
         \A f \in Flows : thread'[f].at = "free" <=> thread[f].at = "free",
         \A f \in pending' : thread'[f].at # "ended"
  PROVE  Codes'
<1>1. Unused' = Unused
  BY DEF Unused
<1> QED
  BY <1>1 DEF Codes

\* One thread moves on; what it carries stays.
LEMMA Moving ==
  ASSUME SignInTypes, NEW t \in Threads, NEW a \in Stages, thread' = [thread EXCEPT ![t].at = a]
  PROVE  /\ thread' \in [Threads -> [at : Stages, data : SUBSET Obtained]]
         /\ thread'[t].at = a /\ thread'[t].data = thread[t].data
         /\ \A u \in Threads \ {t} : thread'[u] = thread[u]
<1>1. thread \in [Threads -> [at : Stages, data : SUBSET Obtained]]
  BY DEF SignInTypes
<1> QED
  BY <1>1

\* A thread has saved, or need not.
LEMMA Finishing ==
  ASSUME SignInTypes, NEW t \in Threads, Done(t)
  PROVE  /\ thread' \in [Threads -> [at : Stages, data : SUBSET Obtained]]
         /\ thread'[t].at = After(t) /\ After(t) \in {"clear", "free"}
         /\ (t \in Flows => After(t) = "clear")
         /\ \A u \in Threads \ {t} : thread'[u] = thread[u]
<1>1. thread \in [Threads -> [at : Stages, data : SUBSET Obtained]]
  BY DEF SignInTypes
<1>2. After(t) \in {"clear", "free"} /\ After(t) \in Stages /\ (t \in Flows => After(t) = "clear")
  BY DEF After, Stages
<1>3. thread' = [thread EXCEPT ![t] = [at |-> After(t), data |-> {}]]
  BY DEF Done
<1> QED
  BY <1>1, <1>2, <1>3

\* Threads that are not saving go on, and somebody may look.
LEMMA OthersMove ==
  ASSUME SignInInv, UNCHANGED <<file, written, tmp, leaving, tokens, wanted, overlapped, unsaved>>,
         UNCHANGED <<memory, seen>> \/ Look,
         thread' \in [Threads -> [at : Stages, data : SUBSET Obtained]],
         \A t \in Threads : thread'[t] = thread[t] \/ (~Saving(t) /\ ~Saving(t)')
  PROVE  SignInTypes' /\ (~overlapped' => Settled')
<1>1. SignInTypes /\ (~overlapped => Settled)
  BY DEF SignInInv
<1>2. SignInTypes'
  <2>1. Obtained' = Obtained
    BY DEF Obtained
  <2>2. memory' \subseteq Obtained
    BY <1>1 DEF Look, OnDisk, SignInTypes
  <2> QED
    BY <1>1, <2>1, <2>2 DEF SignInTypes
<1>3. ASSUME ~overlapped
      PROVE  Settled'
  <2>1. /\ memory' = memory /\ (seen = Present => seen' = Present)
        /\ seen' = seen \/ seen' = Present
    BY <1>3, Looking DEF Look, Synced
  <2>2. /\ \A t \in Threads : Saving(t)' = Saving(t) /\ (Saving(t) => thread'[t] = thread[t])
        /\ Present' = Present /\ OnDisk' = OnDisk
    BY DEF Saving, Present, OnDisk
  <2>3. Settled
    BY <1>1, <1>3
  <2>4. ASSUME NEW t \in Threads, Saving(t)
        PROVE  Carried(t)'
    BY <2>1, <2>2, <2>3, <2>4 DEF Settled, Carried
  <2>5. \A t \in Threads : Saving(t)' => Carried(t)' /\ \A u \in Threads : Saving(u)' => u = t
    BY <2>2, <2>3, <2>4 DEF Settled
  <2>6. leaving' => memory' = {} /\ seen' = Present' /\ \A t \in Threads : ~Saving(t)'
    BY <2>1, <2>2, <2>3 DEF Settled
  <2>7. ~leaving' /\ (\A t \in Threads : ~Saving(t)') => Resting'
    BY <2>1, <2>2, <2>3 DEF Settled, Resting
  <2>8. AccountsOf(memory') = wanted' /\ file' # Torn
    BY <2>1, <2>3 DEF Settled
  <2>9. Marked'
    <3>1. \A t \in Threads : thread[t].at = "touch" => thread'[t].at = "touch"
      BY <2>2 DEF Saving
    <3> QED
      BY <2>3, <3>1 DEF Settled, Marked
  <2> QED
    BY <2>5, <2>6, <2>7, <2>8, <2>9 DEF Settled
<1> QED
  BY <1>2, <1>3

LEMMA LookStep ==
  ASSUME SignInInv, Status \/ BeginChecks \/ BeginInstalls \/ Expires \/ Cancel PROVE SignInInv'
<1>1. /\ SignInTypes /\ Codes /\ thread \in [Threads -> [at : Stages, data : SUBSET Obtained]]
      /\ Flows \subseteq Threads
  BY DEF SignInInv, SignInTypes, Threads
<1>2. CASE Status \/ Expires \/ Cancel
  <2>1. /\ UNCHANGED <<file, written, tmp, leaving, tokens, wanted, overlapped, unsaved, thread, begins>>
        /\ UNCHANGED <<memory, seen>> \/ Look
        /\ pending' \subseteq pending
    BY <1>2 DEF Status, Expires, Cancel, cacheVars, historyVars
  <2>2. Codes'
    BY <1>1, <2>1, CodesHold DEF Codes
  <2> QED
    BY <1>1, <2>1, <2>2, OthersMove DEF SignInInv
<1>3. CASE BeginChecks
  <2>1. /\ UNCHANGED <<file, written, tmp, leaving, tokens, wanted, overlapped, unsaved, thread, pending>>
        /\ Look /\ begins' = begins + 1 /\ begins < Cardinality(Unused)
    BY <1>3 DEF BeginChecks, cacheVars, historyVars
  <2>2. Codes'
    <3>1. Unused' = Unused
      BY <2>1 DEF Unused
    <3>2. Unused \subseteq Flows /\ Cardinality(Unused) \in Nat
      BY SignInAssumption, FS_Subset, FS_CardinalityType DEF Unused
    <3> QED
      BY <1>1, <2>1, <3>1, <3>2 DEF Codes
  <2> QED
    BY <1>1, <2>1, <2>2, OthersMove DEF SignInInv
<1>4. CASE BeginInstalls
  <2> DEFINE g == CHOOSE f \in Unused : TRUE
  <2>1. /\ UNCHANGED <<file, written, tmp, leaving, tokens, wanted, overlapped, unsaved>>
        /\ Look /\ begins > 0 /\ begins' = begins - 1
        /\ \/ pending' = {g} /\ thread' = [thread EXCEPT ![g].at = "polling"]
           \/ pending' = {} /\ thread' = thread
    BY <1>4 DEF BeginInstalls, cacheVars, historyVars
  <2>2. /\ Unused \in SUBSET Flows /\ IsFiniteSet(Unused) /\ Cardinality(Unused) \in Nat
        /\ begins \in 1 .. Cardinality(Unused)
    <3>1. Unused \in SUBSET Flows
      BY DEF Unused
    <3>2. IsFiniteSet(Unused) /\ Cardinality(Unused) \in Nat
      BY <3>1, SignInAssumption, FS_Subset, FS_CardinalityType
    <3> QED
      BY <1>1, <2>1, <3>1, <3>2 DEF Codes
  <2>3. g \in Unused /\ g \in Flows /\ g \in Threads /\ thread[g].at = "free"
    <3>1. Unused # {}
      BY <2>2, FS_EmptySet
    <3>2. g \in Unused
      BY <3>1
    <3> HIDE DEF g
    <3> QED
      BY <1>1, <3>2 DEF Unused
  <2> HIDE DEF g
  <2>4. CASE pending' = {} /\ thread' = thread
    <3>1. Unused' = Unused
      BY <2>4 DEF Unused
    <3>2. Codes'
      BY <2>1, <2>2, <2>4, <3>1 DEF Codes
    <3> QED
      BY <1>1, <2>1, <2>4, <3>2, OthersMove DEF SignInInv
  <2>5. CASE pending' = {g} /\ thread' = [thread EXCEPT ![g].at = "polling"]
    <3>1. /\ thread' \in [Threads -> [at : Stages, data : SUBSET Obtained]]
          /\ thread'[g].at = "polling" /\ \A u \in Threads \ {g} : thread'[u] = thread[u]
      BY <1>1, <2>3, <2>5, Moving DEF Stages
    <3>2. Unused' = Unused \ {g}
      BY <1>1, <2>3, <3>1 DEF Unused
    <3>3. Cardinality(Unused') = Cardinality(Unused) - 1
      BY <2>2, <2>3, <3>2, FS_RemoveElement
    <3>4. Codes'
      BY <2>1, <2>2, <2>3, <2>5, <3>1, <3>3 DEF Codes
    <3>5. \A t \in Threads : thread'[t] = thread[t] \/ (~Saving(t) /\ ~Saving(t)')
      BY <2>3, <3>1 DEF Saving
    <3> QED
      BY <2>1, <3>1, <3>4, <3>5, OthersMove DEF SignInInv
  <2> QED
    BY <2>1, <2>4, <2>5
<1> QED
  BY <1>2, <1>3, <1>4

LEMMA FlowStep ==
  ASSUME SignInInv, NEW f \in Flows, FlowFails(f) \/ FlowEnds(f) PROVE SignInInv'
<1>1. /\ SignInTypes /\ Codes /\ f \in Threads /\ Flows \subseteq Threads
      /\ UNCHANGED <<memory, seen, file, written, tmp, leaving, tokens, wanted, overlapped,
                     unsaved, begins>>
  BY DEF SignInInv, FlowFails, FlowEnds, cacheVars, historyVars, Threads
<1>2. PICK a \in {"clear", "ended"} :
        /\ thread' = [thread EXCEPT ![f].at = a] /\ thread[f].at \in {"polling", "clear"}
        /\ pending' \subseteq pending /\ (a = "ended" => pending' = {})
  BY DEF FlowFails, FlowEnds, CodeCleared
<1>3. /\ thread' \in [Threads -> [at : Stages, data : SUBSET Obtained]]
      /\ thread'[f].at = a /\ \A u \in Threads \ {f} : thread'[u] = thread[u]
  BY <1>1, <1>2, Moving DEF Stages
<1>4. \A t \in Threads : thread'[t] = thread[t] \/ (~Saving(t) /\ ~Saving(t)')
  BY <1>2, <1>3 DEF Saving
<1>5. Codes'
  <2>1. \A g \in Flows : thread'[g].at = "free" <=> thread[g].at = "free"
    BY <1>1, <1>2, <1>3
  <2>2. \A g \in pending' : thread'[g].at # "ended"
    BY <1>1, <1>2, <1>3 DEF Codes
  <2> QED
    BY <1>1, <1>2, <2>1, <2>2, CodesHold
<1> QED
  BY <1>1, <1>3, <1>4, <1>5, OthersMove DEF SignInInv

LEMMA RefreshStep == ASSUME SignInInv, NEW p \in Pollers, Refresh(p) PROVE SignInInv'
<1>1. /\ SignInTypes /\ Codes /\ p \in Threads /\ Flows \subseteq Threads /\ p \notin Flows
      /\ UNCHANGED <<file, written, tmp, leaving, tokens, wanted, overlapped, unsaved, begins, pending>>
      /\ Look /\ thread[p].at = "free" /\ thread' = [thread EXCEPT ![p].at = "asking"]
  BY SignInAssumption DEF SignInInv, Refresh, cacheVars, historyVars, Threads
<1>2. /\ thread' \in [Threads -> [at : Stages, data : SUBSET Obtained]]
      /\ thread'[p].at = "asking" /\ \A u \in Threads \ {p} : thread'[u] = thread[u]
  BY <1>1, Moving DEF Stages
<1>3. \A t \in Threads : thread'[t] = thread[t] \/ (~Saving(t) /\ ~Saving(t)')
  BY <1>1, <1>2 DEF Saving
<1>4. Codes'
  <2>1. \A g \in Flows : thread'[g] = thread[g]
    BY <1>1, <1>2
  <2> QED
    BY <1>1, <2>1, CodesHold DEF Codes
<1> QED
  BY <1>1, <1>2, <1>3, <1>4, OthersMove DEF SignInInv

\* A thread begins to save, with a token that is new, or with none.
LEMMA SavingBegins ==
  ASSUME SignInInv, NEW t \in Threads, thread[t].at \in {"polling", "asking"},
         thread' = [thread EXCEPT ![t].at = "serialize"],
         overlapped' = (overlapped \/ Overlaps(t)),
         UNCHANGED <<seen, file, written, tmp, leaving, pending, begins, unsaved>>,
         tokens' \in {tokens, tokens + 1}, memory' \subseteq Obtained',
         \/ memory' = memory
         \/ tokens' = tokens + 1 /\ \E x \in memory' : x[2] = tokens + 1,
         AccountsOf(memory) = wanted => AccountsOf(memory') = wanted'
  PROVE  SignInInv'
<1>1. SignInTypes /\ Codes /\ tokens \in Nat /\ Obtained \subseteq Obtained'
  <2>1. SignInTypes /\ Codes /\ tokens \in Nat
    BY DEF SignInInv, SignInTypes
  <2> QED
    BY <2>1, Wider
<1>2. /\ thread' \in [Threads -> [at : Stages, data : SUBSET Obtained]]
      /\ thread'[t].at = "serialize" /\ \A u \in Threads \ {t} : thread'[u] = thread[u]
  BY <1>1, Moving DEF Stages
<1>3. SignInTypes'
  <2>1. thread' \in [Threads -> [at : Stages, data : SUBSET Obtained']]
    BY <1>1, <1>2
  <2>2. tokens' \in Nat
    BY <1>1
  <2>3. overlapped' \in BOOLEAN
    <3>1. Overlaps(t) \in BOOLEAN
      BY DEF Overlaps
    <3>2. (overlapped \/ Overlaps(t)) \in BOOLEAN
      BY Zenon
    <3> QED
      BY <3>2, Zenon
  <2> QED
    BY <1>1, <2>1, <2>2, <2>3 DEF SignInTypes
<1>4. Codes'
  <2>1. \A g \in Flows : thread'[g].at = thread[g].at \/ (g = t /\ thread'[g].at = "serialize")
    BY <1>2 DEF Threads
  <2>2. \A g \in Flows : thread'[g].at = "free" <=> thread[g].at = "free"
    BY <2>1
  <2>3. \A g \in pending' : thread'[g].at # "ended"
    BY <1>1, <2>1 DEF Codes
  <2> QED
    BY <1>1, <2>2, <2>3, CodesHold
<1>5. ASSUME ~overlapped'
      PROVE  Settled'
  <2>1. ~overlapped /\ ~leaving /\ \A u \in Threads \ {t} : ~Saving(u)
    BY <1>5 DEF Overlaps
  <2>2. ~Saving(t) /\ Settled
    BY <2>1 DEF SignInInv, Saving
  <2>3. /\ OnDisk = memory \/ written # memory
        /\ seen = Present /\ OnDisk' = OnDisk /\ Present' = Present
    BY <2>1, <2>2 DEF Settled, Resting, OnDisk, Present
  <2>4. \A u \in Threads : Saving(u)' <=> u = t
    BY <1>2, <2>1 DEF Saving
  <2>5. OnDisk' = memory' \/ written' # memory'
    <3>1. CASE memory' = memory
      BY <2>3, <3>1
    <3>2. CASE tokens' = tokens + 1 /\ \E x \in memory' : x[2] = tokens + 1
      <4>1. PICK x \in memory' : x[2] = tokens + 1
        BY <3>2
      <4>2. ~(tokens + 1 <= tokens)
        BY <1>1
      <4>3. \A y \in Obtained : y[2] <= tokens
        BY <1>1 DEF Obtained
      <4>4. x \notin Obtained
        BY <4>1, <4>2, <4>3
      <4>5. x # <<>>
        <5>1. x \in Obtained'
          BY <4>1
        <5>2. \A a, b : <<a, b>> # <<>>
          OBVIOUS
        <5>3. x = <<x[1], x[2]>>
          BY <5>1 DEF Obtained
        <5> QED
          BY <5>2, <5>3
      <4>6. x \notin written
        BY <1>1, <4>4, <4>5 DEF SignInTypes, Absent
      <4> QED
        BY <4>1, <4>6
    <3> QED
      BY <3>1, <3>2
  <2>6. Carried(t)'
    BY <1>2, <2>3, <2>5 DEF Carried
  <2>7. AccountsOf(memory') = wanted' /\ ~leaving' /\ file' # Torn
    BY <2>1, <2>2 DEF Settled
  <2>8. Marked'
    <3>1. ~\E u \in Threads : thread[u].at = "touch"
      BY <2>1, <2>2 DEF Saving
    <3> QED
      BY <2>2, <3>1 DEF Settled, Marked
  <2> QED
    BY <2>4, <2>6, <2>7, <2>8 DEF Settled
<1> QED
  BY <1>3, <1>4, <1>5 DEF SignInInv

LEMMA SucceedsStep ==
  ASSUME SignInInv, NEW f \in Flows, NEW account \in Accounts, FlowSucceeds(f, account) PROVE SignInInv'
<1>1. /\ f \in Threads /\ thread[f].at \in {"polling", "asking"}
      /\ thread' = [thread EXCEPT ![f].at = "serialize"]
      /\ overlapped' = (overlapped \/ Overlaps(f))
      /\ UNCHANGED <<seen, file, written, tmp, leaving, pending, begins, unsaved>>
      /\ tokens' = tokens + 1 /\ wanted' = wanted \cup {account}
      /\ memory' = {t \in memory : t[1] # account} \cup {<<account, tokens + 1>>}
  BY DEF FlowSucceeds, cacheVars, Threads
<1>2. /\ tokens \in Nat /\ memory \subseteq Obtained
  BY DEF SignInInv, SignInTypes
<1>3. Obtained \subseteq Obtained' /\ <<account, tokens + 1>> \in Obtained'
  BY <1>1, <1>2, Wider DEF Obtained
<1>4. memory' \subseteq Obtained'
  BY <1>1, <1>2, <1>3
<1>5. \E x \in memory' : x[2] = tokens + 1
  <2>1. <<account, tokens + 1>> \in memory' /\ <<account, tokens + 1>>[2] = tokens + 1
    BY <1>1
  <2> QED
    BY <2>1
<1>6. AccountsOf(memory') = AccountsOf(memory) \cup {account}
  <2>1. <<account, tokens + 1>>[1] = account
    OBVIOUS
  <2>2. ASSUME NEW a \in AccountsOf(memory')
        PROVE  a \in AccountsOf(memory) \cup {account}
    BY <1>1, <2>1, <2>2 DEF AccountsOf
  <2>3. ASSUME NEW a \in AccountsOf(memory), a # account
        PROVE  a \in AccountsOf(memory')
    <3>1. PICK t \in memory : a = t[1]
      BY <2>3 DEF AccountsOf
    <3>2. t \in memory'
      BY <1>1, <2>3, <3>1
    <3> QED
      BY <3>1, <3>2 DEF AccountsOf
  <2>4. account \in AccountsOf(memory')
    <3>1. <<account, tokens + 1>> \in memory'
      BY <1>1
    <3> QED
      BY <2>1, <3>1 DEF AccountsOf
  <2> QED
    BY <2>2, <2>3, <2>4
<1> QED
  BY <1>1, <1>4, <1>5, <1>6, SavingBegins

LEMMA RefreshedStep == ASSUME SignInInv, NEW p \in Pollers, Refreshed(p) PROVE SignInInv'
<1>1. /\ p \in Threads /\ thread[p].at \in {"polling", "asking"}
      /\ thread' = [thread EXCEPT ![p].at = "serialize"]
      /\ overlapped' = (overlapped \/ Overlaps(p))
      /\ UNCHANGED <<seen, file, written, tmp, leaving, pending, begins, wanted, unsaved>>
  BY DEF Refreshed, cacheVars, Threads
<1>2. /\ tokens \in Nat /\ memory \subseteq Obtained
  BY DEF SignInInv, SignInTypes
<1>3. CASE memory' = memory /\ tokens' = tokens
  <2>1. memory' \subseteq Obtained' /\ AccountsOf(memory') = AccountsOf(memory)
    BY <1>2, <1>3 DEF Obtained
  <2> QED
    BY <1>1, <1>3, <2>1, SavingBegins
<1>4. ASSUME NEW t \in memory, tokens' = tokens + 1,
             memory' = (memory \ {t}) \cup {<<t[1], tokens + 1>>}
      PROVE  SignInInv'
  <2>1. Obtained \subseteq Obtained' /\ <<t[1], tokens + 1>> \in Obtained'
    <3>1. t[1] \in Accounts
      BY <1>2 DEF Obtained
    <3> QED
      BY <1>2, <1>4, <3>1, Wider DEF Obtained
  <2>2. memory' \subseteq Obtained'
    BY <1>2, <1>4, <2>1
  <2>3. <<t[1], tokens + 1>> \in memory' /\ <<t[1], tokens + 1>>[2] = tokens + 1
        /\ <<t[1], tokens + 1>>[1] = t[1]
    BY <1>4
  <2>4. \E x \in memory' : x[2] = tokens + 1
    BY <2>3
  <2>5. AccountsOf(memory') = AccountsOf(memory)
    <3>1. ASSUME NEW a \in AccountsOf(memory') PROVE a \in AccountsOf(memory)
      BY <1>4, <2>3, <3>1 DEF AccountsOf
    <3>2. ASSUME NEW a \in AccountsOf(memory) PROVE a \in AccountsOf(memory')
      <4>1. PICK u \in memory : a = u[1]
        BY <3>2 DEF AccountsOf
      <4>2. CASE u = t
        BY <2>3, <4>1, <4>2 DEF AccountsOf
      <4>3. CASE u # t
        BY <1>4, <4>1, <4>3 DEF AccountsOf
      <4> QED
        BY <4>2, <4>3
    <3> QED
      BY <3>1, <3>2
  <2> QED
    BY <1>1, <1>4, <2>2, <2>4, <2>5, SavingBegins
<1> QED
  BY <1>3, <1>4 DEF Refreshed

\* One step of a save.
LEMMA SaveStep ==
  ASSUME SignInInv, NEW t \in Threads, Serialize(t) \/ WriteTmp(t) \/ Replace(t) \/ Touch(t)
  PROVE  SignInInv'
<1> USE DEF cacheVars, historyVars
<1>1. /\ SignInTypes /\ Codes /\ (~overlapped => Settled)
      /\ thread[t].at \in {"serialize", "write", "replace", "touch"} /\ Saving(t)
      /\ UNCHANGED <<memory, pending, begins, leaving, tokens, wanted, overlapped>>
  BY DEF SignInInv, Serialize, WriteTmp, Replace, Touch, Saving
<1>2. /\ thread' \in [Threads -> [at : Stages, data : SUBSET Obtained]]
      /\ thread'[t].at \in {"write", "replace", "touch", "clear", "free"}
      /\ t \in Flows => thread'[t].at # "free"
      /\ \A u \in Threads \ {t} : thread'[u] = thread[u]
  <2>1. CASE Done(t)
    BY <1>1, <2>1, Finishing
  <2>2. CASE Serialize(t) /\ ~Done(t)
    <3>1. thread' = [thread EXCEPT ![t] = [at |-> "write", data |-> memory]]
      BY <2>2 DEF Serialize
    <3> QED
      BY <1>1, <3>1 DEF SignInTypes, Stages
  <2>3. CASE ~Done(t) /\ (WriteTmp(t) \/ Replace(t))
    <3>1. PICK a \in {"replace", "touch"} : thread' = [thread EXCEPT ![t].at = a]
      BY <2>3 DEF WriteTmp, Replace, SaveFails
    <3> QED
      BY <1>1, <3>1, Moving DEF Stages
  <2> QED
    BY <2>1, <2>2, <2>3 DEF Touch
<1>3. SignInTypes'
  <2>1. Obtained' = Obtained
    BY <1>1 DEF Obtained
  <2>2. thread[t].data \subseteq Obtained
    BY <1>1 DEF SignInTypes
  <2>3. /\ file' \in {Absent, Torn} \/ file' \subseteq Obtained
        /\ written' = Absent \/ written' \subseteq Obtained
        /\ tmp' \in {Absent, Torn} \/ tmp' \subseteq Obtained
        /\ unsaved' \in BOOLEAN
    BY <1>1, <2>2 DEF SignInTypes, Serialize, WriteTmp, Replace, Touch, SaveFails
  <2> QED
    BY <1>1, <1>2, <2>1, <2>3 DEF SignInTypes
<1>4. Codes'
  <2>1. \A f \in Flows : thread'[f].at = "free" <=> thread[f].at = "free"
    BY <1>1, <1>2 DEF Threads
  <2>2. \A f \in pending' : thread'[f].at # "ended"
    BY <1>1, <1>2 DEF Codes, Threads
  <2> QED
    BY <1>1, <2>1, <2>2, CodesHold
<1>5. ASSUME ~overlapped'
      PROVE  Settled'
  <2>1. Settled /\ ~leaving /\ Carried(t) /\ \A u \in Threads \ {t} : ~Saving(u)
    BY <1>1, <1>5 DEF Settled
  <2>2. /\ ~leaving' /\ AccountsOf(memory') = wanted'
        /\ \A u \in Threads : Saving(u)' => u = t
    BY <1>1, <1>2, <2>1 DEF Settled, Saving
  <2>3. memory # Absent /\ memory # Torn
    BY <1>1, Caches0 DEF SignInTypes
  <2>4. /\ file' # Torn /\ Marked'
        /\ Saving(t)' => Carried(t)'
        /\ ~Saving(t)' => Resting'
    <3>1. ASSUME thread[t].at # "touch", Done(t), unsaved' = TRUE \/ OnDisk = memory,
                 UNCHANGED <<seen, file, written, memory>>
          PROVE  file' # Torn /\ Marked' /\ ~Saving(t)' /\ Resting'
      <4>1. ~Saving(t)'
        BY <1>1, <3>1, Finishing DEF Saving
      <4>2. seen = Present /\ (OnDisk = memory \/ written # memory)
        BY <2>1, <3>1 DEF Carried
      <4>3. Resting'
        BY <3>1, <4>2 DEF Resting, OnDisk, Present
      <4>4. Marked'
        BY <2>1, <3>1 DEF Settled, Marked, Saving
      <4> QED
        BY <2>1, <3>1, <4>1, <4>3, <4>4 DEF Settled
    <3>2. CASE Serialize(t)
      <4>1. UNCHANGED <<seen, file, written, tmp, memory>> /\ thread[t].at = "serialize"
        BY <3>2 DEF Serialize
      <4>2. seen = Present /\ (OnDisk = memory \/ written # memory)
        BY <2>1, <4>1 DEF Carried
      <4>3. CASE written = memory /\ Done(t)
        BY <3>1, <4>1, <4>2, <4>3
      <4>4. CASE thread' = [thread EXCEPT ![t] = [at |-> "write", data |-> memory]]
        <5>1. thread'[t].at = "write" /\ thread'[t].data = memory
          BY <1>1, <4>4 DEF SignInTypes
        <5>2. Marked'
          BY <2>1, <4>1 DEF Settled, Marked, Saving
        <5> QED
          BY <2>1, <4>1, <4>2, <5>1, <5>2 DEF Settled, Saving, Carried, Present, OnDisk
      <4> QED
        BY <3>2, <4>3, <4>4 DEF Serialize
    <3>3. CASE WriteTmp(t)
      <4>1. /\ UNCHANGED <<seen, file, written, memory>> /\ thread[t].at = "write"
            /\ seen = Present /\ thread[t].data = memory
            /\ OnDisk = memory \/ written # memory
        BY <2>1, <3>3 DEF WriteTmp, Carried
      <4>2. CASE tmp' = thread[t].data /\ thread' = [thread EXCEPT ![t].at = "replace"]
        <5>1. thread'[t].at = "replace" /\ thread'[t].data = thread[t].data
          BY <1>1, <4>2, Moving DEF Stages
        <5>2. Marked'
          BY <2>1, <4>1 DEF Settled, Marked, Saving
        <5> QED
          BY <2>1, <4>1, <4>2, <5>1, <5>2 DEF Settled, Saving, Carried, Present, OnDisk
      <4>3. CASE SaveFails(t)
        BY <3>1, <4>1, <4>3 DEF SaveFails
      <4> QED
        BY <3>3, <4>2, <4>3 DEF WriteTmp
    <3>4. CASE Replace(t)
      <4>1. tmp = memory /\ thread[t].data = memory /\ thread[t].at = "replace"
        BY <2>1, <3>4 DEF Replace, Carried
      <4>2. CASE file' = tmp /\ thread' = [thread EXCEPT ![t].at = "touch"]
        <5>1. thread'[t].at = "touch" /\ thread'[t].data = thread[t].data
          BY <1>1, <4>2, Moving DEF Stages
        <5> QED
          BY <1>1, <2>3, <4>1, <4>2, <5>1 DEF Saving, Carried, Marked
      <4>3. CASE SaveFails(t) /\ UNCHANGED <<file, tmp, seen>>
        BY <1>1, <3>1, <3>4, <4>1, <4>3 DEF SaveFails, Replace
      <4> QED
        BY <3>4, <4>2, <4>3 DEF Replace
    <3>5. CASE Touch(t)
      <4>1. /\ file = memory /\ thread[t].data = memory
            /\ UNCHANGED <<memory, file>> /\ Done(t) /\ seen' = "this"
            /\ written' = thread[t].data
        BY <2>1, <2>3, <3>5 DEF Touch, Carried
      <4>2. ~Saving(t)'
        BY <1>1, <4>1, Finishing DEF Saving
      <4>3. file' # Torn /\ Marked' /\ Resting'
        BY <2>3, <4>1 DEF Marked, Resting, OnDisk, Present
      <4> QED
        BY <4>2, <4>3
    <3> QED
      BY <3>2, <3>3, <3>4, <3>5
  <2>5. \A u \in Threads : Saving(u)' => Carried(u)'
    BY <2>2, <2>4
  <2> QED
    BY <2>2, <2>4, <2>5 DEF Settled
<1> QED
  BY <1>3, <1>4, <1>5 DEF SignInInv

LEMMA SignOutStep == ASSUME SignInInv, SignOut \/ SignedOut PROVE SignInInv'
<1>1. /\ SignInTypes /\ Codes /\ (~overlapped => Settled)
      /\ UNCHANGED <<written, tmp, thread, begins, tokens>> /\ pending' \subseteq pending
      /\ memory' = memory \/ memory' = {}
      /\ file' = file \/ file' = Absent
      /\ leaving' \in BOOLEAN /\ unsaved' \in {unsaved, TRUE, FALSE}
  BY DEF SignInInv, SignOut, SignedOut, cacheVars, historyVars, FileRemoved
<1>2. Obtained' = Obtained /\ Unused' = Unused /\ \A t \in Threads : Saving(t)' = Saving(t)
  BY <1>1 DEF Obtained, Unused, Saving
<1>3. overlapped' \in BOOLEAN
  <2>1. CASE SignOut
    BY <2>1, Zenon DEF SignOut
  <2>2. CASE SignedOut
    BY <1>1, <2>2 DEF SignedOut, SignInTypes
  <2> QED
    BY <2>1, <2>2
<1>4. SignInTypes'
  BY <1>1, <1>2, <1>3 DEF SignInTypes
<1>5. Codes'
  BY <1>1, <1>2 DEF Codes
<1>6. ASSUME SignOut, ~overlapped'
      PROVE  Settled'
  <2>1. /\ leaving' = TRUE /\ memory' = {} /\ seen' = Present /\ wanted' = {} /\ file' = file
        /\ \A t \in Threads : ~Saving(t)
    BY <1>6 DEF SignOut, cacheVars
  <2>2. Present' = Present /\ AccountsOf(memory') = {}
    BY <2>1 DEF Present, AccountsOf
  <2>3. file' # Torn /\ Marked'
    <3>1. Settled
      BY <1>1, <1>6 DEF SignOut
    <3> QED
      BY <1>1, <2>1, <3>1 DEF Settled, Marked
  <2> QED
    BY <1>2, <2>1, <2>2, <2>3 DEF Settled
<1>7. ASSUME SignedOut, ~overlapped'
      PROVE  Settled'
  <2>1. /\ leaving /\ ~leaving' /\ ~overlapped /\ wanted' = wanted
    BY <1>7 DEF SignedOut
  <2>2. Settled /\ memory = {} /\ seen = Present /\ \A t \in Threads : ~Saving(t)
    BY <1>1, <2>1 DEF Settled
  <2>3. memory' = memory /\ memory' = {}
    BY <1>1, <2>2
  <2>4. CASE file' = Absent /\ seen' = "none"
    <3>1. OnDisk' = {} /\ Present' = "none" /\ Absent # Torn
      BY <2>4 DEF OnDisk, Present, Absent, Torn
    <3>2. file' # Torn /\ Marked' /\ Resting'
      BY <2>3, <2>4, <3>1 DEF Marked, Resting
    <3> QED
      BY <1>2, <2>1, <2>2, <2>3, <3>2 DEF Settled
  <2>5. CASE UNCHANGED <<file, seen>> /\ unsaved' = TRUE
    <3>1. written \in {Absent, file} \/ file = Absent
      BY <2>2 DEF Settled, Marked, Saving
    <3>2. memory # Absent
      BY <1>1, Caches0 DEF SignInTypes
    <3>3. OnDisk = memory \/ written # memory
      BY <2>2, <3>1, <3>2 DEF OnDisk
    <3>4. file' # Torn /\ Marked' /\ Resting'
      BY <1>1, <2>2, <2>3, <2>5, <3>1, <3>3 DEF Settled, Marked, Resting, OnDisk, Present
    <3> QED
      BY <1>2, <2>1, <2>2, <2>3, <3>4 DEF Settled
  <2> QED
    BY <1>7, <2>4, <2>5 DEF SignedOut, FileRemoved
<1> QED
  BY <1>4, <1>5, <1>6, <1>7 DEF SignInInv

LEMMA RestartStep == ASSUME SignInInv, RestartSignIn PROVE SignInInv'
<1>1. /\ SignInTypes /\ Codes
      /\ memory' = OnDisk /\ written' = Absent /\ pending' = {}
      /\ seen' = IF file = Torn THEN "none" ELSE Present
      /\ thread' = [t \in Threads |-> IF t \in Flows /\ thread[t].at # "free" THEN Ended ELSE Free]
      /\ begins' = 0 /\ leaving' = FALSE
      /\ wanted' = AccountsOf(OnDisk) /\ overlapped' = (file = Torn) /\ unsaved' = FALSE
      /\ UNCHANGED <<file, tmp, tokens>>
  BY DEF SignInInv, RestartSignIn
<1>2. \A t \in Threads : thread'[t] \in {Ended, Free} /\ ~Saving(t)'
  BY <1>1 DEF Saving, Ended, Free
<1>3. SignInTypes'
  <2>1. Obtained' = Obtained /\ OnDisk \subseteq Obtained
    BY <1>1 DEF Obtained, OnDisk, SignInTypes
  <2>2. thread' \in [Threads -> [at : Stages, data : SUBSET Obtained]]
    BY <1>1 DEF Ended, Free, Stages
  <2> QED
    BY <1>1, <2>1, <2>2 DEF SignInTypes
<1>4. Codes'
  <2>1. Unused' \in SUBSET Flows
    BY DEF Unused
  <2>2. Cardinality(Unused') \in Nat
    BY <2>1, SignInAssumption, FS_Subset, FS_CardinalityType
  <2> QED
    BY <1>1, <2>2 DEF Codes
<1>5. ASSUME ~overlapped'
      PROVE  Settled'
  <2>1. OnDisk' = OnDisk /\ Present' = Present /\ file' # Torn
    BY <1>1, <1>5 DEF OnDisk, Present
  <2>2. Marked' /\ Resting'
    BY <1>1, <2>1 DEF Marked, Resting
  <2> QED
    BY <1>1, <1>2, <2>1, <2>2 DEF Settled
<1> QED
  BY <1>3, <1>4, <1>5 DEF SignInInv

LEMMA SignInStep == SignInInv /\ [SignInNext]_signInVars => SignInInv'
<1> SUFFICES ASSUME SignInInv, [SignInNext]_signInVars PROVE SignInInv'
  OBVIOUS
<1>1. CASE UNCHANGED signInVars
  <2>1. UNCHANGED <<memory, file, seen, written, tmp, pending,
                    thread, begins, leaving, tokens, wanted, overlapped, unsaved>>
    BY <1>1 DEF signInVars
  <2>2. /\ Obtained' = Obtained /\ Unused' = Unused /\ OnDisk' = OnDisk /\ Present' = Present
        /\ \A t \in Threads : Saving(t)' = Saving(t)
    BY <2>1 DEF Obtained, Unused, OnDisk, Present, Saving
  <2>3. \A t \in Threads : Carried(t)' = Carried(t)
    BY <2>1, <2>2 DEF Carried
  <2> QED
    BY <2>1, <2>2, <2>3 DEF SignInInv, SignInTypes, Codes, Settled, Resting, Marked
<1>2. CASE Status \/ BeginChecks \/ BeginInstalls \/ Expires \/ Cancel
  BY <1>2, LookStep
<1>3. CASE SignOut \/ SignedOut
  BY <1>3, SignOutStep
<1>4. CASE RestartSignIn
  BY <1>4, RestartStep
<1>5. ASSUME NEW f \in Flows, FlowFails(f) \/ FlowEnds(f)
      PROVE  SignInInv'
  BY <1>5, FlowStep
<1>6. ASSUME NEW f \in Flows, NEW a \in Accounts, FlowSucceeds(f, a)
      PROVE  SignInInv'
  BY <1>6, SucceedsStep
<1>7. ASSUME NEW p \in Pollers, Refresh(p) \/ Refreshed(p)
      PROVE  SignInInv'
  BY <1>7, RefreshStep, RefreshedStep
<1>8. ASSUME NEW t \in Threads, Serialize(t) \/ WriteTmp(t) \/ Replace(t) \/ Touch(t)
      PROVE  SignInInv'
  BY <1>8, SaveStep
<1> QED
  BY <1>1, <1>2, <1>3, <1>4, <1>5, <1>6, <1>7, <1>8 DEF SignInNext

\* As far as signing in goes, a behaviour of the household is one of its.
LEMMA SignInPart == HouseholdInit => SignInInit
BY DEF HouseholdInit

LEMMA SignInPartSteps == [HouseholdNext]_householdVars => [SignInNext]_signInVars
BY DEF HouseholdNext, householdVars, Privacy, List, Notes, Aggregator, OfCamera, SigningIn, Calendar

LEMMA SignInInvAlways == HouseholdSpec => []SignInInv
<1>1. HouseholdInit => SignInInv
  BY SignInPart, SignInBegins
<1>2. SignInInv /\ [HouseholdNext]_householdVars => SignInInv'
  BY SignInStep, SignInPartSteps
<1> QED
  BY <1>1, <1>2, PTL DEF HouseholdSpec

\* A code on the screen is one somebody still waits for, and with nothing
\* under way those who have signed in and not out are in memory, and in the
\* file too unless it could not be replaced or removed when it was last to be;
\* what is not in the file is then not taken for written.  All that unless two
\* saves, or a save and a sign-out, overlapped (personal_auth.py, begin_sign_in, _complete and sign_out;
\* outlook_personal.py, shared_msal_app and save_cache), for any accounts,
\* any finite number of flows and any number of threads that refresh.
THEOREM SignInAlwaysHolds == HouseholdSpec => []SignInHolds
BY SignInInvAlways, SignInInvMeans, PTL

-----------------------------------------------------------------------------
(***************************************************************************)
(* The boards.  Most of what changes a list drops elements of it or moves  *)
(* them: what was true of every two elements stays true.  A sequence picks *)
(* from another when it takes each of the other's elements at most once.   *)
(***************************************************************************)
Picks(t, s) ==
  \E h \in [DOMAIN t -> DOMAIN s] : IsInjective(h) /\ \A k \in DOMAIN t : t[k] = s[h[k]]

LEMMA SetInduction ==
  ASSUME NEW S \in SUBSET Nat, 0 \in S, \A n \in S : n + 1 \in S
  PROVE  S = Nat
<1> DEFINE T == Nat \ S
           R == OpToRel(<, Nat)
<1>1. SUFFICES ASSUME T # {} PROVE FALSE
  OBVIOUS
<1>2. PICK x \in T : \A y \in T : ~ (<<y, x>> \in R)
  <2> HIDE DEF R
  <2>1. IsWellFoundedOn(R, Nat)
    BY NatLessThanWellFounded DEF R
  <2>2. T \subseteq Nat
    OBVIOUS
  <2> HIDE DEF T
  <2> QED
    BY <1>1, <2>1, <2>2, WFMin
<1>3. \A y \in T : ~(y < x)
  BY <1>2 DEF OpToRel
<1>4. x # 0 /\ x - 1 \in Nat /\ x - 1 < x
  OBVIOUS
<1>5. x - 1 \in S
  BY <1>3, <1>4
<1>6. (x - 1) + 1 \in S
  BY <1>5
<1> QED
  BY <1>4, <1>6

\* The recursive function of Sift exists, for any length.
Sifts(f, s, S, n) ==
  f = [i \in 0 .. n |-> IF i = 0 THEN <<>>
                        ELSE IF s[i] \in S THEN Append(f[i - 1], s[i])
                        ELSE f[i - 1]]

LEMMA SiftsExist == ASSUME NEW s, NEW S PROVE \A n \in Nat : \E f : Sifts(f, s, S, n)
<1> DEFINE T == {n \in Nat : \E f : Sifts(f, s, S, n)}
<1>1. 0 \in T
  <2>1. Sifts([i \in 0 .. 0 |-> <<>>], s, S, 0)
    BY DEF Sifts
  <2> QED
    BY <2>1
<1>2. ASSUME NEW n \in T
      PROVE  n + 1 \in T
  <2>1. PICK f : Sifts(f, s, S, n)
    OBVIOUS
  <2> DEFINE last == IF s[n + 1] \in S THEN Append(f[n], s[n + 1]) ELSE f[n]
             g == [i \in 0 .. (n + 1) |-> IF i = n + 1 THEN last ELSE f[i]]
  <2>2. ASSUME NEW i \in 0 .. (n + 1)
        PROVE  g[i] = IF i = 0 THEN <<>>
                      ELSE IF s[i] \in S THEN Append(g[i - 1], s[i]) ELSE g[i - 1]
    <3>1. CASE i = n + 1
      <4>1. i # 0 /\ i - 1 = n /\ n \in 0 .. (n + 1) /\ n # n + 1
        BY <3>1
      <4>2. g[i] = last /\ g[i - 1] = f[n]
        BY <3>1, <4>1
      <4> QED
        BY <3>1, <4>1, <4>2
    <3>2. CASE i # n + 1 /\ i # 0
      <4>1. i \in 0 .. n /\ i - 1 \in 0 .. (n + 1) /\ i - 1 # n + 1
        BY <3>2
      <4>2. g[i] = f[i] /\ g[i - 1] = f[i - 1]
        BY <3>2, <4>1
      <4>3. f[i] = IF s[i] \in S THEN Append(f[i - 1], s[i]) ELSE f[i - 1]
        BY <2>1, <3>2, <4>1 DEF Sifts
      <4> QED
        BY <3>2, <4>2, <4>3
    <3>3. CASE i # n + 1 /\ i = 0
      <4>1. f[0] = <<>>
        BY <2>1 DEF Sifts
      <4> QED
        BY <3>3, <4>1
    <3> QED
      BY <3>1, <3>2, <3>3
  <2>3. g = [i \in 0 .. (n + 1) |-> IF i = 0 THEN <<>>
                                    ELSE IF s[i] \in S THEN Append(g[i - 1], s[i])
                                    ELSE g[i - 1]]
    <3>1. g = [i \in 0 .. (n + 1) |-> g[i]]
      OBVIOUS
    <3> HIDE DEF g
    <3> QED
      BY <2>2, <3>1
  <2> HIDE DEF g
  <2>4. Sifts(g, s, S, n + 1)
    BY <2>3 DEF Sifts
  <2> QED
    BY <2>4
<1>3. T = Nat
  <2> HIDE DEF T
  <2>1. T \in SUBSET Nat
    BY DEF T
  <2> QED
    BY <1>1, <1>2, <2>1, SetInduction
<1> QED
  BY <1>3

\* What is sifted are elements of the sequence that are in the set, each
\* taken once.
Takes(u, s, S, i) ==
  \E h \in [DOMAIN u -> 1 .. i] :
    IsInjective(h) /\ \A k \in DOMAIN u : u[k] = s[h[k]] /\ u[k] \in S

LEMMA SiftPicks ==
  ASSUME NEW E, NEW s \in Seq(E), NEW S
  PROVE  /\ Sift(s, S) \in Seq(E) /\ Picks(Sift(s, S), s)
         /\ \A k \in DOMAIN Sift(s, S) : Sift(s, S)[k] \in S
<1> DEFINE n == Len(s)
           f == CHOOSE g : Sifts(g, s, S, n)
           T == {i \in Nat : i <= n => f[i] \in Seq(E) /\ Takes(f[i], s, S, i)}
<1>1. n \in Nat /\ DOMAIN s = 1 .. n /\ \A i \in 1 .. n : s[i] \in E
  BY LenProperties
<1>2. Sift(s, S) = f[n]
  BY DEF Sift, Sifts
<1>3. Sifts(f, s, S, n)
  BY <1>1, SiftsExist
<1> HIDE DEF n, f
<1>4. 0 \in T
  <2>1. f[0] = <<>>
    BY <1>1, <1>3 DEF Sifts
  <2>2. <<>> \in [DOMAIN <<>> -> 1 .. 0] /\ IsInjective(<<>>) /\ DOMAIN <<>> = {} /\ <<>> \in Seq(E)
    BY DEF IsInjective
  <2>3. Takes(<<>>, s, S, 0)
    BY <2>2 DEF Takes
  <2> QED
    BY <2>1, <2>2, <2>3
<1>5. ASSUME NEW i \in T
      PROVE  i + 1 \in T
  <2>1. CASE i + 1 <= n
    <3>1. /\ i \in Nat /\ i <= n /\ i + 1 \in 0 .. n /\ i + 1 # 0 /\ (i + 1) - 1 = i
          /\ s[i + 1] \in E
      BY <1>1, <2>1
    <3> DEFINE u == f[i]
               e == s[i + 1]
               v == Append(u, e)
    <3>2. f[i + 1] = IF e \in S THEN v ELSE u
      <4>1. f[i + 1] = IF s[i + 1] \in S THEN Append(f[(i + 1) - 1], s[i + 1])
                       ELSE f[(i + 1) - 1]
        BY <1>3, <3>1 DEF Sifts
      <4> QED
        BY <3>1, <4>1
    <3>3. u \in Seq(E) /\ Takes(u, s, S, i)
      BY <3>1
    <3>4. PICK h \in [DOMAIN u -> 1 .. i] :
            IsInjective(h) /\ \A k \in DOMAIN u : u[k] = s[h[k]] /\ u[k] \in S
      BY <3>3 DEF Takes
    <3>5. 1 .. i \subseteq 1 .. (i + 1) /\ i + 1 \notin 1 .. i /\ i + 1 \in 1 .. (i + 1)
      BY <3>1
    <3>6. Takes(u, s, S, i + 1)
      <4>1. h \in [DOMAIN u -> 1 .. (i + 1)]
        BY <3>5
      <4> QED
        BY <3>4, <4>1 DEF Takes
    <3>7. CASE e \in S
      <4> DEFINE m == Len(u)
                 h2 == [k \in 1 .. (m + 1) |-> IF k = m + 1 THEN i + 1 ELSE h[k]]
      <4>1. /\ m \in Nat /\ DOMAIN u = 1 .. m /\ v \in Seq(E) /\ DOMAIN v = 1 .. (m + 1)
            /\ v[m + 1] = e /\ \A k \in 1 .. m : v[k] = u[k]
        <5>1. v \in Seq(E) /\ Len(v) = m + 1
          BY <3>1, <3>3, AppendProperties
        <5> QED
          BY <3>1, <3>3, <5>1, LenProperties, AppendProperties
      <4> HIDE DEF m, u, v
      <4>2. \A k \in 1 .. (m + 1) : k = m + 1 \/ k \in 1 .. m
        BY <4>1
      <4>3. h2 \in [DOMAIN v -> 1 .. (i + 1)]
        BY <3>4, <3>5, <4>1, <4>2
      <4>4. \A k \in 1 .. m : k # m + 1 /\ k \in 1 .. (m + 1) /\ h[k] \in 1 .. i
        BY <3>4, <4>1
      <4>5. IsInjective(h2)
        <5>1. ASSUME NEW a \in 1 .. (m + 1), NEW b \in 1 .. (m + 1), h2[a] = h2[b]
              PROVE  a = b
          <6>1. CASE a = m + 1 /\ b # m + 1
            BY <3>5, <4>2, <4>4, <5>1, <6>1
          <6>2. CASE b = m + 1 /\ a # m + 1
            BY <3>5, <4>2, <4>4, <5>1, <6>2
          <6>3. CASE a # m + 1 /\ b # m + 1
            <7>1. a \in DOMAIN h /\ b \in DOMAIN h /\ h[a] = h[b]
              BY <4>1, <4>2, <5>1, <6>3
            <7> QED
              BY <3>4, <7>1 DEF IsInjective
          <6> QED
            BY <6>1, <6>2, <6>3
        <5> QED
          BY <5>1 DEF IsInjective
      <4>6. ASSUME NEW k \in DOMAIN v
            PROVE  v[k] = s[h2[k]] /\ v[k] \in S
        <5>1. CASE k = m + 1
          BY <3>7, <4>1, <5>1
        <5>2. CASE k # m + 1
          BY <3>4, <4>1, <4>2, <5>2
        <5> QED
          BY <5>1, <5>2
      <4> HIDE DEF h2
      <4>7. Takes(v, s, S, i + 1)
        BY <4>3, <4>5, <4>6 DEF Takes
      <4>8. f[i + 1] = v
        BY <3>2, <3>7
      <4> QED
        BY <3>1, <4>1, <4>7, <4>8
    <3>8. CASE e \notin S
      <4>1. f[i + 1] = u
        BY <3>2, <3>8
      <4> HIDE DEF u
      <4> QED
        BY <3>1, <3>3, <3>6, <4>1
    <3> QED
      BY <3>7, <3>8
  <2>2. CASE ~(i + 1 <= n)
    BY <2>2
  <2> QED
    BY <2>1, <2>2
<1>6. T = Nat
  <2> HIDE DEF T
  <2>1. T \in SUBSET Nat
    BY DEF T
  <2> QED
    BY <1>4, <1>5, <2>1, SetInduction
<1>7. f[n] \in Seq(E) /\ Takes(f[n], s, S, n)
  BY <1>1, <1>6
<1>8. Picks(f[n], s)
  BY <1>1, <1>7 DEF Picks, Takes
<1>9. \A k \in DOMAIN f[n] : f[n][k] \in S
  BY <1>7 DEF Takes
<1> QED
  BY <1>2, <1>7, <1>8, <1>9

-----------------------------------------------------------------------------
(***************************************************************************)
(* Lists of items, of which none has the id of another, and of names, of   *)
(* which none is like another.                                             *)
(***************************************************************************)
Owned(m) == [id : 1 .. m, name : Names, checked : BOOLEAN]
OnceEach(s) == \A i, j \in DOMAIN s : s[i].id = s[j].id => i = j
GoodItems(s, m) == s \in Seq(Owned(m)) /\ OnceEach(s)

KeysOnce(s) == \A i, j \in DOMAIN s : Key[s[i]] = Key[s[j]] => i = j
GoodRecent(s) == s \in Seq(Names) /\ Len(s) <= RecentMax /\ KeysOnce(s)

\* Every item of t is, but for its check mark, one of s.
From(t, s) ==
  \A k \in DOMAIN t : \E j \in DOMAIN s : t[k].id = s[j].id /\ t[k].name = s[j].name

LEMMA AlikeFrom ==
  ASSUME NEW t, NEW s, OnceEach(t), From(t, s), Alike(t)
  PROVE  Alike(s)
<1>1. PICK i \in DOMAIN t, j \in DOMAIN t : i # j /\ Key[t[i].name] = Key[t[j].name]
  BY DEF Alike
<1>2. PICK a \in DOMAIN s : t[i].id = s[a].id /\ t[i].name = s[a].name
  BY DEF From
<1>3. PICK b \in DOMAIN s : t[j].id = s[b].id /\ t[j].name = s[b].name
  BY DEF From
<1>4. t[i].id # t[j].id
  BY <1>1 DEF OnceEach
<1>5. a # b /\ Key[s[a].name] = Key[s[b].name]
  BY <1>1, <1>2, <1>3, <1>4
<1> QED
  BY <1>5 DEF Alike

LEMMA OwnedGrows ==
  ASSUME NEW m \in Nat, NEW n \in Nat, m <= n, NEW s, GoodItems(s, m)
  PROVE  GoodItems(s, n)
<1>1. Owned(m) \subseteq Owned(n)
  <2>1. 1 .. m \subseteq 1 .. n
    OBVIOUS
  <2> QED
    BY <2>1 DEF Owned
<1>2. s \in Seq(Owned(n))
  BY <1>1, SeqMonotonic DEF GoodItems
<1> QED
  BY <1>2 DEF GoodItems

LEMMA SiftItems ==
  ASSUME NEW m, NEW s, GoodItems(s, m), NEW S
  PROVE  /\ GoodItems(Sift(s, S), m) /\ From(Sift(s, S), s)
         /\ \A k \in DOMAIN Sift(s, S) : Sift(s, S)[k] \in S
<1> DEFINE t == Sift(s, S)
<1>1. s \in Seq(Owned(m)) /\ OnceEach(s)
  BY DEF GoodItems
<1>2. t \in Seq(Owned(m)) /\ Picks(t, s) /\ \A k \in DOMAIN t : t[k] \in S
  BY <1>1, SiftPicks
<1> HIDE DEF t
<1>3. PICK h \in [DOMAIN t -> DOMAIN s] : IsInjective(h) /\ \A k \in DOMAIN t : t[k] = s[h[k]]
  BY <1>2 DEF Picks
<1>4. From(t, s)
  BY <1>3 DEF From
<1>5. OnceEach(t)
  <2>1. ASSUME NEW i \in DOMAIN t, NEW j \in DOMAIN t, t[i].id = t[j].id
        PROVE  i = j
    <3>1. s[h[i]].id = s[h[j]].id /\ h[i] \in DOMAIN s /\ h[j] \in DOMAIN s
      BY <1>3, <2>1
    <3>2. h[i] = h[j]
      BY <1>1, <3>1 DEF OnceEach
    <3> QED
      BY <1>3, <3>2 DEF IsInjective
  <2> QED
    BY <2>1 DEF OnceEach
<1> QED
  BY <1>2, <1>4, <1>5 DEF GoodItems, t

\* Removing the element at i.
LEMMA RemoveIs ==
  ASSUME NEW E, NEW s \in Seq(E), NEW i \in 1 .. Len(s)
  PROVE  /\ RemoveAt(s, i) \in Seq(E) /\ Len(RemoveAt(s, i)) = Len(s) - 1
         /\ \A k \in 1 .. (Len(s) - 1) : RemoveAt(s, i)[k] = IF k < i THEN s[k] ELSE s[k + 1]
<1> DEFINE n == Len(s)
           a == SubSeq(s, 1, i - 1)
           b == SubSeq(s, i + 1, n)
<1>1. n \in Nat /\ i \in Nat /\ 1 <= i /\ i <= n /\ \A k \in 1 .. n : s[k] \in E
  BY LenProperties
<1>2. /\ a \in Seq(E) /\ Len(a) = i - 1
      /\ \A k \in 1 .. (i - 1) : a[k] = s[k]
  <2>1. 1 \in Int /\ i - 1 \in Int /\ \A k \in 1 .. (i - 1) : s[k] \in E
    BY <1>1
  <2>2. /\ a \in Seq(E) /\ Len(a) = IF 1 <= i - 1 THEN (i - 1) - 1 + 1 ELSE 0
        /\ \A k \in 1 .. ((i - 1) - 1 + 1) : a[k] = s[1 + k - 1]
    BY <2>1, SubSeqProperties
  <2> QED
    BY <1>1, <2>2
<1>3. /\ b \in Seq(E) /\ Len(b) = n - i
      /\ \A k \in 1 .. (n - i) : b[k] = s[i + k]
  <2>1. i + 1 \in Int /\ n \in Int /\ \A k \in (i + 1) .. n : s[k] \in E
    BY <1>1
  <2>2. /\ b \in Seq(E) /\ Len(b) = IF i + 1 <= n THEN (n - (i + 1)) + 1 ELSE 0
        /\ \A k \in 1 .. ((n - (i + 1)) + 1) : b[k] = s[((i + 1) + k) - 1]
    BY <2>1, SubSeqProperties
  <2> QED
    BY <1>1, <2>2
<1>4. RemoveAt(s, i) = a \o b
  BY DEF RemoveAt
<1> HIDE DEF a, b, n
<1>5. /\ a \o b \in Seq(E) /\ Len(a \o b) = Len(a) + Len(b)
      /\ \A k \in 1 .. Len(a) + Len(b) :
           (a \o b)[k] = IF k <= Len(a) THEN a[k] ELSE b[k - Len(a)]
  BY <1>2, <1>3, ConcatProperties
<1>6. ASSUME NEW k \in 1 .. (n - 1)
      PROVE  (a \o b)[k] = IF k < i THEN s[k] ELSE s[k + 1]
  <2>1. k \in 1 .. Len(a) + Len(b)
    BY <1>1, <1>2, <1>3
  <2>2. (a \o b)[k] = IF k <= i - 1 THEN a[k] ELSE b[k - (i - 1)]
    BY <1>2, <1>5, <2>1
  <2>3. CASE k < i
    <3>1. k <= i - 1 /\ k \in 1 .. (i - 1)
      BY <1>1, <2>3
    <3> QED
      BY <1>2, <2>2, <2>3, <3>1
  <2>4. CASE ~(k < i)
    <3>1. ~(k <= i - 1) /\ k - (i - 1) \in 1 .. (n - i) /\ i + (k - (i - 1)) = k + 1
      BY <1>1, <2>4
    <3> QED
      BY <1>3, <2>2, <2>4, <3>1
  <2> QED
    BY <2>3, <2>4
<1>7. Len(a \o b) = n - 1
  BY <1>1, <1>2, <1>3, <1>5
<1> QED
  BY <1>4, <1>5, <1>6, <1>7 DEF n

LEMMA PrependIs ==
  ASSUME NEW E, NEW s \in Seq(E), NEW x \in E
  PROVE  /\ <<x>> \o s \in Seq(E) /\ Len(<<x>> \o s) = Len(s) + 1
         /\ (<<x>> \o s)[1] = x
         /\ \A k \in 2 .. (Len(s) + 1) : (<<x>> \o s)[k] = s[k - 1]
<1>1. <<x>> \in Seq(E) /\ Len(<<x>>) = 1 /\ <<x>>[1] = x /\ Len(s) \in Nat
  BY LenProperties
<1>2. /\ <<x>> \o s \in Seq(E) /\ Len(<<x>> \o s) = Len(<<x>>) + Len(s)
      /\ \A i \in 1 .. Len(<<x>>) + Len(s) :
           (<<x>> \o s)[i] = IF i <= Len(<<x>>) THEN <<x>>[i] ELSE s[i - Len(<<x>>)]
  BY <1>1, ConcatProperties
<1> QED
  BY <1>1, <1>2

LEMMA ConcatItems ==
  ASSUME NEW m, NEW t, NEW s, GoodItems(t, m), GoodItems(s, m),
         \A i \in DOMAIN t, j \in DOMAIN s : t[i].id # s[j].id
  PROVE  /\ GoodItems(t \o s, m)
         /\ \A k \in DOMAIN (t \o s) : \/ \E i \in DOMAIN t : (t \o s)[k] = t[i]
                                       \/ \E j \in DOMAIN s : (t \o s)[k] = s[j]
<1> DEFINE u == t \o s
<1>1. /\ t \in Seq(Owned(m)) /\ s \in Seq(Owned(m)) /\ OnceEach(t) /\ OnceEach(s)
      /\ Len(t) \in Nat /\ Len(s) \in Nat /\ DOMAIN t = 1 .. Len(t) /\ DOMAIN s = 1 .. Len(s)
  BY LenProperties DEF GoodItems
<1>2. /\ u \in Seq(Owned(m)) /\ Len(u) = Len(t) + Len(s)
      /\ \A i \in 1 .. Len(t) + Len(s) : u[i] = IF i <= Len(t) THEN t[i] ELSE s[i - Len(t)]
  BY <1>1, ConcatProperties
<1> HIDE DEF u
<1>3. DOMAIN u = 1 .. (Len(t) + Len(s))
  BY <1>2, LenProperties
<1>4. \A k \in DOMAIN u : \/ k \in DOMAIN t /\ u[k] = t[k]
                          \/ k - Len(t) \in DOMAIN s /\ u[k] = s[k - Len(t)] /\ ~(k <= Len(t))
  BY <1>1, <1>2, <1>3
<1>5. OnceEach(u)
  <2>1. ASSUME NEW i \in DOMAIN u, NEW j \in DOMAIN u, u[i].id = u[j].id
        PROVE  i = j
    <3>1. CASE i \in DOMAIN t /\ u[i] = t[i] /\ j \in DOMAIN t /\ u[j] = t[j]
      BY <1>1, <2>1, <3>1 DEF OnceEach
    <3>2. CASE /\ i - Len(t) \in DOMAIN s /\ u[i] = s[i - Len(t)]
               /\ j - Len(t) \in DOMAIN s /\ u[j] = s[j - Len(t)]
      <4>1. i - Len(t) = j - Len(t)
        BY <1>1, <2>1, <3>2 DEF OnceEach
      <4> QED
        BY <1>1, <1>3, <4>1
    <3> QED
      BY <1>4, <2>1, <3>1, <3>2
  <2> QED
    BY <2>1 DEF OnceEach
<1>6. \A k \in DOMAIN u : (\E i \in DOMAIN t : u[k] = t[i]) \/ (\E j \in DOMAIN s : u[k] = s[j])
  BY <1>4
<1> QED
  BY <1>2, <1>5, <1>6 DEF GoodItems, u

LEMMA MinIs ==
  ASSUME NEW S \in SUBSET Nat, S # {}
  PROVE  Min(S) \in S /\ \A y \in S : Min(S) <= y
<1> DEFINE R == OpToRel(<, Nat)
<1>1. PICK x \in S : \A y \in S : ~ (<<y, x>> \in R)
  <2> HIDE DEF R
  <2>1. IsWellFoundedOn(R, Nat)
    BY NatLessThanWellFounded DEF R
  <2> QED
    BY <2>1, WFMin
<1>2. \A y \in S : ~(y < x)
  BY <1>1 DEF OpToRel
<1>3. \A y \in S : x <= y
  BY <1>2
<1> QED
  BY <1>3 DEF Min

LEMMA FindIs ==
  ASSUME NEW E, NEW s \in Seq(E), NEW name
  PROVE  /\ Find(s, name) = 0 => \A i \in DOMAIN s : Key[s[i].name] # Key[name]
         /\ Find(s, name) # 0 => Find(s, name) \in 1 .. Len(s)
<1> DEFINE I == {i \in 1 .. Len(s) : Key[s[i].name] = Key[name]}
<1>1. Find(s, name) = IF I # {} THEN Min(I) ELSE 0
  BY DEF Find, SelectInSeq
<1>2. I \in SUBSET Nat /\ \A i \in I : i # 0 /\ i \in 1 .. Len(s)
  BY LenProperties
<1>3. DOMAIN s = 1 .. Len(s)
  BY LenProperties
<1>4. CASE I = {}
  BY <1>1, <1>3, <1>4
<1>5. CASE I # {}
  <2>1. Min(I) \in I
    <3> HIDE DEF I
    <3> QED
      BY <1>2, <1>5, MinIs
  <2> HIDE DEF I
  <2> QED
    BY <1>1, <1>2, <1>5, <2>1
<1> QED
  BY <1>4, <1>5

\* Remembering a name: it comes first, nothing like it stays.
LEMMA RememberIs ==
  ASSUME NEW s, GoodRecent(s), NEW name \in Names
  PROVE  GoodRecent(Remember(s, name))
<1> DEFINE S == {n \in Names : Key[n] # Key[name]}
           t == Sift(s, S)
           u == <<name>> \o t
           n == IF Len(u) < RecentMax THEN Len(u) ELSE RecentMax
           v == SubSeq(u, 1, n)
<1>1. Remember(s, name) = v
  BY DEF Remember
<1>2. s \in Seq(Names) /\ KeysOnce(s)
  BY DEF GoodRecent
<1>3. t \in Seq(Names) /\ Picks(t, s) /\ \A k \in DOMAIN t : t[k] \in S
  <2> HIDE DEF S
  <2> QED
    BY <1>2, SiftPicks
<1>4. \A k \in DOMAIN t : Key[t[k]] # Key[name]
  BY <1>3
<1> HIDE DEF t, S
<1>5. KeysOnce(t)
  <2>1. PICK h \in [DOMAIN t -> DOMAIN s] : IsInjective(h) /\ \A k \in DOMAIN t : t[k] = s[h[k]]
    BY <1>3 DEF Picks
  <2>2. ASSUME NEW i \in DOMAIN t, NEW j \in DOMAIN t, Key[t[i]] = Key[t[j]]
        PROVE  i = j
    <3>1. h[i] = h[j]
      BY <1>2, <2>1, <2>2 DEF KeysOnce
    <3> QED
      BY <2>1, <3>1 DEF IsInjective
  <2> QED
    BY <2>2 DEF KeysOnce
<1>6. /\ u \in Seq(Names) /\ Len(u) = Len(t) + 1 /\ u[1] = name
      /\ \A k \in 2 .. (Len(t) + 1) : u[k] = t[k - 1]
      /\ Len(t) \in Nat /\ DOMAIN t = 1 .. Len(t)
  BY <1>3, PrependIs, LenProperties
<1> HIDE DEF u
<1>7. \A i, j \in 1 .. (Len(t) + 1) : Key[u[i]] = Key[u[j]] => i = j
  <2>1. ASSUME NEW i \in 1 .. (Len(t) + 1), NEW j \in 1 .. (Len(t) + 1), Key[u[i]] = Key[u[j]]
        PROVE  i = j
    <3>1. \A k \in 1 .. (Len(t) + 1) : \/ k = 1 /\ u[k] = name
                                       \/ k # 1 /\ k - 1 \in DOMAIN t /\ u[k] = t[k - 1]
      BY <1>6
    <3>2. CASE i = 1 \/ j = 1
      BY <1>4, <2>1, <3>1, <3>2
    <3>3. CASE i # 1 /\ j # 1
      <4>1. i - 1 = j - 1
        BY <1>5, <2>1, <3>1, <3>3 DEF KeysOnce
      <4> QED
        BY <1>6, <4>1
    <3> QED
      BY <3>2, <3>3
  <2> QED
    BY <2>1
<1>8. n \in Nat /\ n <= Len(u) /\ n <= RecentMax /\ Len(u) \in Nat
  BY <1>6, BoardsAssumption
<1> HIDE DEF n
<1>9. v \in Seq(Names) /\ Len(v) = n /\ \A k \in 1 .. n : v[k] = u[k]
  <2>1. 1 \in Int /\ n \in Int /\ \A k \in 1 .. n : u[k] \in Names
    BY <1>6, <1>8, ElementOfSeq
  <2>2. /\ v \in Seq(Names) /\ Len(v) = IF 1 <= n THEN (n - 1) + 1 ELSE 0
        /\ \A k \in 1 .. ((n - 1) + 1) : v[k] = u[(1 + k) - 1]
    BY <2>1, SubSeqProperties
  <2> QED
    BY <1>8, <2>2
<1> HIDE DEF v
<1>10. DOMAIN v = 1 .. n /\ 1 .. n \subseteq 1 .. (Len(t) + 1)
  BY <1>6, <1>8, <1>9, LenProperties
<1>11. KeysOnce(v)
  BY <1>7, <1>9, <1>10 DEF KeysOnce
<1> QED
  BY <1>1, <1>8, <1>9, <1>11 DEF GoodRecent

-----------------------------------------------------------------------------
(***************************************************************************)
(* The shopping list.  What is in memory, in the file and with the kiosks  *)
(* that offer an undo is each a list without repeated ids.                 *)
(***************************************************************************)
ListInv ==
  /\ madeItems \in Nat /\ offers \in 0 .. Screens
  /\ GoodItems(items, madeItems) /\ GoodItems(removed, madeItems)
  /\ GoodItems(listFile.items, madeItems)
  /\ GoodRecent(recent) /\ GoodRecent(listFile.recent)
  /\ (Alike(items) => sameName) /\ (Alike(listFile.items) => sameName)

LEMMA NothingListed == \A m : GoodItems(<<>>, m) /\ ~Alike(<<>>) /\ GoodRecent(<<>>)
<1>1. Len(<<>>) = 0 /\ Len(<<>>) <= RecentMax /\ DOMAIN <<>> = {}
  BY BoardsAssumption
<1> QED
  BY <1>1 DEF GoodItems, OnceEach, Alike, GoodRecent, KeysOnce

\* What a step leaves, when it says what the two lists are.
LEMMA ListAfter ==
  ASSUME ListInv, NEW s, NEW r, NEW m \in Nat, madeItems <= m,
         items' = s, recent' = r, madeItems' = m,
         GoodItems(s, m), GoodRecent(r), GoodItems(removed', m), offers' \in 0 .. Screens,
         Alike(s) => sameName', sameName => sameName',
         PersistList \/ UNCHANGED listFile
  PROVE  ListInv'
<1>1. GoodItems(listFile.items, m) /\ GoodRecent(listFile.recent)
      /\ (Alike(listFile.items) => sameName')
  BY OwnedGrows DEF ListInv
<1>2. \/ listFile' = [items |-> s, recent |-> r]
      \/ listFile' = listFile
  BY DEF PersistList
<1>3. GoodItems(listFile'.items, m) /\ GoodRecent(listFile'.recent)
      /\ (Alike(listFile'.items) => sameName')
  <2>1. CASE listFile' = listFile
    BY <1>1, <2>1
  <2>2. CASE listFile' = [items |-> s, recent |-> r]
    <3>1. listFile'.items = s /\ listFile'.recent = r
      BY <2>2
    <3> QED
      BY <3>1
  <2> QED
    BY <1>2, <2>1, <2>2
<1>4. GoodItems(items', madeItems') /\ GoodItems(removed', madeItems')
      /\ GoodItems(listFile'.items, madeItems')
  BY <1>3
<1>5. GoodRecent(recent') /\ (Alike(items') => sameName')
  OBVIOUS
<1>6. madeItems' \in Nat
  OBVIOUS
<1> QED
  BY <1>3, <1>4, <1>5, <1>6 DEF ListInv

LEMMA RemoveItems ==
  ASSUME NEW m, NEW s, GoodItems(s, m), NEW i \in DOMAIN s
  PROVE  /\ GoodItems(RemoveAt(s, i), m) /\ From(RemoveAt(s, i), s)
         /\ \A k \in DOMAIN RemoveAt(s, i) : RemoveAt(s, i)[k].id # s[i].id
<1> DEFINE t == RemoveAt(s, i)
           h == [k \in 1 .. (Len(s) - 1) |-> IF k < i THEN k ELSE k + 1]
<1>1. /\ s \in Seq(Owned(m)) /\ OnceEach(s) /\ Len(s) \in Nat /\ DOMAIN s = 1 .. Len(s)
      /\ i \in 1 .. Len(s)
  BY LenProperties DEF GoodItems
<1>2. /\ t \in Seq(Owned(m)) /\ Len(t) = Len(s) - 1
      /\ \A k \in 1 .. (Len(s) - 1) : t[k] = IF k < i THEN s[k] ELSE s[k + 1]
  BY <1>1, RemoveIs
<1> HIDE DEF t
<1>3. DOMAIN t = 1 .. (Len(s) - 1)
  BY <1>2, LenProperties
<1>4. \A k \in DOMAIN t : h[k] \in DOMAIN s /\ t[k] = s[h[k]] /\ h[k] # i
  BY <1>1, <1>2, <1>3
<1>5. \A k, l \in DOMAIN t : h[k] = h[l] => k = l
  BY <1>1, <1>3
<1> HIDE DEF h
<1>6. From(t, s)
  BY <1>4 DEF From
<1>7. OnceEach(t) /\ \A k \in DOMAIN t : t[k].id # s[i].id
  BY <1>1, <1>4, <1>5 DEF OnceEach
<1> QED
  BY <1>2, <1>6, <1>7 DEF GoodItems, t

LEMMA SingleItem ==
  ASSUME NEW m, NEW x \in Owned(m)
  PROVE  GoodItems(<<x>>, m) /\ DOMAIN <<x>> = {1} /\ <<x>>[1] = x
<1>1. <<x>> \in Seq(Owned(m)) /\ DOMAIN <<x>> = {1} /\ <<x>>[1] = x
  OBVIOUS
<1> QED
  BY <1>1 DEF GoodItems, OnceEach

\* An item is put in the place of one with its id.
LEMMA ReplaceItem ==
  ASSUME NEW m, NEW s, GoodItems(s, m), NEW i \in DOMAIN s, NEW y \in Owned(m), y.id = s[i].id
  PROVE  GoodItems([s EXCEPT ![i] = y], m)
<1> DEFINE t == [s EXCEPT ![i] = y]
<1>1. s \in Seq(Owned(m)) /\ OnceEach(s) /\ DOMAIN s = 1 .. Len(s)
  BY LenProperties DEF GoodItems
<1>2. /\ t \in Seq(Owned(m))
      /\ \A j \in 1 .. Len(s) : t[j] = IF j = i THEN y ELSE s[j]
  BY <1>1, ExceptSeq
<1>3. DOMAIN t = DOMAIN s
  OBVIOUS
<1> HIDE DEF t
<1>4. \A j \in DOMAIN s : t[j].id = s[j].id
  BY <1>1, <1>2
<1>5. OnceEach(t)
  BY <1>1, <1>3, <1>4 DEF OnceEach
<1> QED
  BY <1>2, <1>5 DEF GoodItems, t

LEMMA OfferedItems ==
  ASSUME NEW m, NEW s, GoodItems(s, m), removed' = Offered(s)
  PROVE  GoodItems(removed', m)
BY NothingListed DEF Offered

LEMMA AddKeeps ==
  ASSUME ListInv, NEW name \in Names, AddItem(name)
  PROVE  ListInv'
<1> DEFINE at == Find(items, name)
           m == madeItems
<1>1. /\ m \in Nat /\ offers \in 0 .. Screens /\ GoodItems(items, m) /\ GoodItems(removed, m)
      /\ GoodRecent(recent) /\ (Alike(items) => sameName)
      /\ items \in Seq(Owned(m)) /\ DOMAIN items = 1 .. Len(items) /\ Len(items) \in Nat
  BY LenProperties DEF ListInv, GoodItems
<1>2. UNCHANGED <<removed, offers, sameName>> /\ PersistList
  BY DEF AddItem
<1>3. /\ at = 0 => \A i \in DOMAIN items : Key[items[i].name] # Key[name]
      /\ at # 0 => at \in 1 .. Len(items)
  BY <1>1, FindIs
<1>4. CASE UNCHANGED <<items, recent, madeItems>>
  BY <1>1, <1>2, <1>4, ListAfter
<1>5. CASE /\ at # 0
           /\ items' = <<[items[at] EXCEPT !.checked = FALSE]>> \o RemoveAt(items, at)
           /\ recent' = Remember(recent, name) /\ UNCHANGED madeItems
  <2> DEFINE x == [items[at] EXCEPT !.checked = FALSE]
             t == RemoveAt(items, at)
             s == <<x>> \o t
  <2>1. items[at] \in Owned(m)
    BY <1>1, <1>3, <1>5, ElementOfSeq
  <2>2. x \in Owned(m) /\ x.id = items[at].id /\ x.name = items[at].name
    BY <2>1 DEF Owned
  <2>3. GoodItems(t, m) /\ From(t, items) /\ \A k \in DOMAIN t : t[k].id # items[at].id
    BY <1>1, <1>3, <1>5, RemoveItems
  <2> HIDE DEF x, t, at
  <2>4. GoodItems(<<x>>, m) /\ DOMAIN <<x>> = {1} /\ <<x>>[1] = x
    BY <2>2, SingleItem
  <2>5. /\ GoodItems(s, m)
        /\ \A k \in DOMAIN s : \/ \E i \in DOMAIN <<x>> : s[k] = <<x>>[i]
                               \/ \E j \in DOMAIN t : s[k] = t[j]
    <3>1. \A i \in DOMAIN <<x>>, j \in DOMAIN t : <<x>>[i].id # t[j].id
      BY <2>2, <2>3, <2>4
    <3> QED
      BY <2>3, <2>4, <3>1, ConcatItems
  <2> HIDE DEF s
  <2>6. From(s, items)
    <3>1. at \in DOMAIN items
      BY <1>1, <1>3, <1>5
    <3> QED
      BY <2>2, <2>3, <2>4, <2>5, <3>1 DEF From
  <2>7. Alike(s) => sameName
    BY <1>1, <2>5, <2>6, AlikeFrom DEF GoodItems
  <2>8. GoodRecent(recent')
    BY <1>1, <1>5, RememberIs
  <2>9. items' = s
    BY <1>5 DEF s, x, t, at
  <2>10. madeItems' = m /\ m <= m
    BY <1>1, <1>5
  <2> QED
    BY <1>1, <1>2, <2>5, <2>7, <2>8, <2>9, <2>10, ListAfter
<1>6. CASE /\ at = 0 /\ items' = <<Item(madeItems + 1, name)>> \o items
           /\ madeItems' = madeItems + 1 /\ recent' = Remember(recent, name)
  <2> DEFINE x == Item(m + 1, name)
             s == <<x>> \o items
  <2>1. x \in Owned(m + 1) /\ x.id = m + 1 /\ x.name = name
    BY <1>1 DEF Owned, Item
  <2>2. GoodItems(items, m + 1) /\ GoodItems(removed, m + 1) /\ m + 1 \in Nat /\ m <= m + 1
    BY <1>1, OwnedGrows
  <2>3. \A j \in DOMAIN items : items[j].id # m + 1
    <3>1. \A j \in DOMAIN items : items[j] \in Owned(m)
      BY <1>1, ElementOfSeq
    <3>2. \A j \in DOMAIN items : items[j].id \in 1 .. m
      BY <3>1 DEF Owned
    <3> QED
      BY <1>1, <3>2
  <2> HIDE DEF x
  <2>4. GoodItems(<<x>>, m + 1) /\ DOMAIN <<x>> = {1} /\ <<x>>[1] = x
    BY <2>1, SingleItem
  <2>5. GoodItems(s, m + 1)
    <3>1. \A i \in DOMAIN <<x>>, j \in DOMAIN items : <<x>>[i].id # items[j].id
      BY <2>1, <2>3, <2>4
    <3> QED
      BY <2>2, <2>4, <3>1, ConcatItems
  <2>6. ASSUME Alike(s)
        PROVE  Alike(items)
    <3>1. /\ Len(s) = Len(items) + 1 /\ s[1] = x /\ s \in Seq(Owned(m + 1))
          /\ \A k \in 2 .. (Len(items) + 1) : s[k] = items[k - 1]
      <4>1. items \in Seq(Owned(m + 1))
        BY <2>2 DEF GoodItems
      <4> QED
        BY <2>1, <4>1, PrependIs
    <3> HIDE DEF s
    <3>2. DOMAIN s = 1 .. (Len(items) + 1)
      BY <3>1, LenProperties
    <3>3. PICK i \in DOMAIN s, j \in DOMAIN s : i # j /\ Key[s[i].name] = Key[s[j].name]
      BY <2>6 DEF Alike
    <3>4. \A k \in DOMAIN s : \/ k = 1 /\ s[k] = x
                              \/ k # 1 /\ k - 1 \in DOMAIN items /\ s[k] = items[k - 1]
      BY <1>1, <3>1, <3>2
    <3>5. i # 1 /\ j # 1
      BY <1>3, <1>6, <2>1, <3>3, <3>4
    <3>6. i - 1 # j - 1
      BY <1>1, <3>2, <3>3
    <3> QED
      BY <3>3, <3>4, <3>5, <3>6 DEF Alike
  <2>7. GoodRecent(recent')
    BY <1>1, <1>6, RememberIs
  <2>8. items' = s
    BY <1>6 DEF x
  <2> HIDE DEF s
  <2> QED
    BY <1>1, <1>2, <1>6, <2>2, <2>5, <2>6, <2>7, <2>8, ListAfter
<1> QED
  BY <1>4, <1>5, <1>6 DEF AddItem

LEMMA UpdateKeeps ==
  ASSUME ListInv, NEW id, UpdateItem(id)
  PROVE  ListInv'
<1> DEFINE m == madeItems
<1>1. /\ m \in Nat /\ offers \in 0 .. Screens /\ GoodItems(items, m) /\ GoodItems(removed, m)
      /\ GoodRecent(recent)
      /\ items \in Seq(Owned(m)) /\ DOMAIN items = 1 .. Len(items)
  BY LenProperties DEF ListInv, GoodItems
<1>2. UNCHANGED <<recent, removed, offers, madeItems>> /\ PersistList
  BY DEF UpdateItem
<1>3. sameName' = (sameName \/ Alike(items'))
  BY DEF UpdateItem
<1>4. (Alike(items') => sameName') /\ (sameName => sameName')
  BY <1>3
<1>5. PICK i \in DOMAIN items :
        \/ items' = [items EXCEPT ![i].checked = ~@]
        \/ \E name \in Renames : items' = [items EXCEPT ![i].name = name]
  BY DEF UpdateItem, Positions
<1>6. items[i] \in Owned(m)
  BY <1>1, ElementOfSeq
<1>7. PICK y \in Owned(m) : y.id = items[i].id /\ items' = [items EXCEPT ![i] = y]
  <2>1. CASE items' = [items EXCEPT ![i].checked = ~@]
    <3> DEFINE y == [items[i] EXCEPT !.checked = ~items[i].checked]
    <3>1. items[i].checked \in BOOLEAN
      BY <1>6 DEF Owned
    <3>2. (~items[i].checked) \in BOOLEAN
      OBVIOUS
    <3>3. y \in Owned(m) /\ y.id = items[i].id
      BY <1>6, <3>2 DEF Owned
    <3>4. items' = [items EXCEPT ![i] = y]
      BY <2>1
    <3> QED
      BY <3>3, <3>4
  <2>2. ASSUME NEW name \in Renames, items' = [items EXCEPT ![i].name = name]
        PROVE  \E y \in Owned(m) : y.id = items[i].id /\ items' = [items EXCEPT ![i] = y]
    <3> DEFINE y == [items[i] EXCEPT !.name = name]
    <3>1. name \in Names
      BY BoardsAssumption DEF Names
    <3>2. y \in Owned(m) /\ y.id = items[i].id
      BY <1>6, <3>1 DEF Owned
    <3>3. items' = [items EXCEPT ![i] = y]
      BY <2>2
    <3> QED
      BY <3>2, <3>3
  <2> QED
    BY <1>5, <2>1, <2>2
<1>8. GoodItems(items', m)
  BY <1>1, <1>7, ReplaceItem
<1> QED
  BY <1>1, <1>2, <1>4, <1>8, ListAfter

LEMMA RemoveKeeps ==
  ASSUME ListInv, NEW id, RemoveItem(id)
  PROVE  ListInv'
<1>1. /\ madeItems \in Nat /\ offers \in 0 .. Screens /\ GoodItems(items, madeItems)
      /\ GoodItems(removed, madeItems) /\ GoodRecent(recent) /\ (Alike(items) => sameName)
  BY DEF ListInv
<1>2. UNCHANGED <<recent, removed, offers, madeItems, sameName>> /\ PersistList
  BY DEF RemoveItem
<1>3. PICK i \in DOMAIN items : items' = RemoveAt(items, i)
  BY DEF RemoveItem, Positions
<1>4. GoodItems(items', madeItems) /\ From(items', items)
  BY <1>1, <1>3, RemoveItems
<1>5. Alike(items') => sameName
  BY <1>1, <1>4, AlikeFrom DEF GoodItems
<1> QED
  BY <1>1, <1>2, <1>4, <1>5, ListAfter

LEMMA ClearKeeps ==
  ASSUME ListInv, NEW scope, Clear(scope)
  PROVE  ListInv'
<1> DEFINE going == {i \in ToSet(items) : scope = "all" \/ i.checked}
           taken == Sift(items, going)
           kept == Sift(items, ToSet(items) \ going)
<1>1. /\ madeItems \in Nat /\ offers \in 0 .. Screens /\ GoodItems(items, madeItems)
      /\ GoodItems(removed, madeItems) /\ GoodRecent(recent) /\ (Alike(items) => sameName)
  BY DEF ListInv
<1>2. /\ items' = kept
      /\ UNCHANGED <<recent, madeItems, sameName>> /\ PersistList
      /\ \/ UNCHANGED <<removed, offers>>
         \/ offers' \in 0 .. Screens /\ removed' = Offered(taken)
  BY DEF Clear
<1> HIDE DEF going
<1>3. GoodItems(taken, madeItems) /\ GoodItems(kept, madeItems) /\ From(kept, items)
  BY <1>1, SiftItems
<1> HIDE DEF taken, kept
<1>4. offers' \in 0 .. Screens /\ GoodItems(removed', madeItems)
  BY <1>1, <1>2, <1>3, OfferedItems
<1>5. Alike(kept) => sameName
  BY <1>1, <1>3, AlikeFrom DEF GoodItems
<1> QED
  BY <1>1, <1>2, <1>3, <1>4, <1>5, ListAfter

LEMMA UndoKeeps ==
  ASSUME ListInv, Undo \/ OfferEnds
  PROVE  ListInv'
<1>1. /\ madeItems \in Nat /\ offers \in 0 .. Screens /\ GoodItems(items, madeItems)
      /\ GoodItems(removed, madeItems) /\ GoodRecent(recent) /\ (Alike(items) => sameName)
  BY DEF ListInv
<1>2. /\ offers > 0 /\ offers' = offers - 1 /\ removed' = Offered(removed)
      /\ UNCHANGED <<recent, madeItems>>
  BY DEF Undo, OfferEnds
<1>3. offers' \in 0 .. Screens
  BY <1>1, <1>2, BoardsAssumption
<1>4. GoodItems(removed', madeItems)
  BY <1>1, <1>2, OfferedItems
<1>5. CASE UNCHANGED <<items, listFile, sameName>>
  BY <1>1, <1>2, <1>3, <1>4, <1>5, ListAfter
<1>6. CASE /\ items' = Restore(removed, items)
           /\ sameName' = (sameName \/ Alike(items')) /\ PersistList
  <2> DEFINE t == Sift(removed, Lacking(removed, items))
  <2>1. GoodItems(t, madeItems) /\ \A k \in DOMAIN t : t[k] \in Lacking(removed, items)
    BY <1>1, SiftItems
  <2>2. items' = t \o items
    BY <1>6 DEF Restore
  <2> HIDE DEF t
  <2>3. \A i \in DOMAIN t, j \in DOMAIN items : t[i].id # items[j].id
    BY <2>1 DEF Lacking, Ids
  <2>4. GoodItems(items', madeItems)
    BY <1>1, <2>1, <2>2, <2>3, ConcatItems
  <2>5. (Alike(items') => sameName') /\ (sameName => sameName')
    BY <1>6
  <2> QED
    BY <1>1, <1>2, <1>3, <1>4, <1>6, <2>4, <2>5, ListAfter
<1> QED
  BY <1>5, <1>6 DEF Undo, OfferEnds

LEMMA ReorderKeeps ==
  ASSUME ListInv, NEW ids \in Drags, Reorder(ids)
  PROVE  ListInv'
<1> DEFINE m == madeItems
           present == Sift(ids, Ids(items))
           named == [n \in DOMAIN present |-> items[CHOOSE i \in Positions(items, present[n]) : TRUE]]
           rest == Sift(items, Lacking(items, named))
           s == named \o rest
<1>1. /\ m \in Nat /\ offers \in 0 .. Screens /\ GoodItems(items, m)
      /\ GoodItems(removed, m) /\ GoodRecent(recent) /\ (Alike(items) => sameName)
      /\ items \in Seq(Owned(m)) /\ DOMAIN items = 1 .. Len(items)
  BY LenProperties DEF ListInv, GoodItems
<1>2. /\ items' = s
      /\ UNCHANGED <<recent, removed, offers, madeItems, sameName>> /\ PersistList
  BY DEF Reorder
<1>3. ids \in Seq(1 .. MaxItems) /\ IsInjective(ids)
  <2>1. PICK n \in 1 .. MaxItems : ids \in [1 .. n -> 1 .. MaxItems] /\ IsInjective(ids)
    BY DEF Drags
  <2>2. n \in Nat
    BY <2>1, BoardsAssumption
  <2> QED
    BY <2>1, <2>2, SeqDef
<1>4. /\ present \in Seq(1 .. MaxItems) /\ Picks(present, ids)
      /\ \A k \in DOMAIN present : present[k] \in Ids(items)
  BY <1>3, SiftPicks
<1> HIDE DEF present
<1>5. DOMAIN present = 1 .. Len(present) /\ Len(present) \in Nat
  BY <1>4, LenProperties
<1>6. \A i, j \in DOMAIN present : present[i] = present[j] => i = j
  BY <1>3, <1>4 DEF Picks, IsInjective
<1>7. ASSUME NEW n \in DOMAIN present
      PROVE  \E i \in DOMAIN items : named[n] = items[i] /\ items[i].id = present[n]
  <2>1. Positions(items, present[n]) # {}
    BY <1>4 DEF Ids, Positions
  <2>2. (CHOOSE i \in Positions(items, present[n]) : TRUE) \in Positions(items, present[n])
    BY <2>1
  <2> QED
    BY <2>2 DEF Positions
<1>8. DOMAIN named = DOMAIN present
  OBVIOUS
<1> HIDE DEF named
<1>9. named \in Seq(Owned(m))
  <2>1. named = [n \in 1 .. Len(present) |-> named[n]]
    BY <1>5, <1>8 DEF named
  <2>2. \A n \in 1 .. Len(present) : named[n] \in Owned(m)
    BY <1>1, <1>5, <1>7, ElementOfSeq
  <2>3. named \in [1 .. Len(present) -> Owned(m)]
    BY <2>1, <2>2
  <2> QED
    BY <1>5, <2>3, SeqDef
<1>10. OnceEach(named)
  BY <1>6, <1>7, <1>8 DEF OnceEach
<1>11. From(named, items)
  BY <1>7, <1>8 DEF From
<1>12. /\ GoodItems(rest, m) /\ From(rest, items)
       /\ \A k \in DOMAIN rest : rest[k] \in Lacking(items, named)
  BY <1>1, SiftItems
<1> HIDE DEF rest
<1>13. \A i \in DOMAIN named, j \in DOMAIN rest : named[i].id # rest[j].id
  BY <1>12 DEF Lacking, Ids
<1>14. /\ GoodItems(s, m)
       /\ \A k \in DOMAIN s : \/ \E i \in DOMAIN named : s[k] = named[i]
                              \/ \E j \in DOMAIN rest : s[k] = rest[j]
  BY <1>9, <1>10, <1>12, <1>13, ConcatItems DEF GoodItems
<1> HIDE DEF s
<1>15. From(s, items)
  BY <1>11, <1>12, <1>14 DEF From
<1>16. Alike(s) => sameName
  BY <1>1, <1>14, <1>15, AlikeFrom DEF GoodItems
<1> QED
  BY <1>1, <1>2, <1>14, <1>16, ListAfter

LEMMA RestartKeeps ==
  ASSUME ListInv, RestartList
  PROVE  ListInv'
<1>1. /\ items' = listFile.items /\ recent' = listFile.recent
      /\ UNCHANGED <<listFile, removed, offers, madeItems, sameName>>
  BY DEF RestartList
<1>2. /\ madeItems \in Nat /\ offers \in 0 .. Screens /\ GoodItems(listFile.items, madeItems)
      /\ GoodItems(removed, madeItems) /\ GoodRecent(listFile.recent)
      /\ (Alike(listFile.items) => sameName)
  BY DEF ListInv
<1> QED
  BY <1>1, <1>2, ListAfter

LEMMA ListStep == ListInv /\ ListNext => ListInv'
<1> SUFFICES ASSUME ListInv, ListNext PROVE ListInv'
  OBVIOUS
<1> QED
  BY AddKeeps, UpdateKeeps, RemoveKeeps, ClearKeeps, UndoKeeps, ReorderKeeps, RestartKeeps
     DEF ListNext

-----------------------------------------------------------------------------
(***************************************************************************)
(* The notes.  The levels in memory and in the file are each in the order  *)
(* of the touches; no level is higher than the number of touches, however  *)
(* often a restart counted the levels anew, so there is a highest one.     *)
(***************************************************************************)
GoodNotes(board, t) ==
  /\ DOMAIN board \subseteq NoteIds
  /\ IsFiniteSet(DOMAIN board) /\ Cardinality(DOMAIN board) <= NotesMax
  /\ \A n \in DOMAIN board :
       /\ board[n].z \in Nat /\ board[n].touched \in Nat
       /\ board[n].z <= board[n].touched /\ board[n].touched <= t
  /\ \A m, n \in DOMAIN board : board[m].z < board[n].z <=> board[m].touched < board[n].touched

NotesInv ==
  /\ touches \in Nat /\ nextZ \in Nat /\ nextZ <= touches + 1
  /\ GoodNotes(notes, touches) /\ GoodNotes(notesFile, touches)
  /\ \A n \in DOMAIN notes : notes[n].z < nextZ

LEMMA NotesBegin == BoardsInit => NotesInv
<1> SUFFICES ASSUME BoardsInit PROVE NotesInv
  OBVIOUS
<1>1. notes = <<>> /\ nextZ = 1 /\ notesFile = <<>> /\ touches = 0
  BY DEF BoardsInit
<1>2. DOMAIN <<>> = {} /\ IsFiniteSet({}) /\ Cardinality({}) <= NotesMax
  BY FS_EmptySet, BoardsAssumption
<1>3. GoodNotes(<<>>, 0)
  BY <1>2 DEF GoodNotes
<1> QED
  BY <1>1, <1>2, <1>3 DEF NotesInv

LEMMA MaxIs ==
  ASSUME NEW S \in SUBSET Nat, S # {}, NEW b \in Nat, \A y \in S : y <= b
  PROVE  Max(S) \in S /\ \A y \in S : y <= Max(S)
<1> DEFINE U == {u \in Nat : \A y \in S : y <= u}
           m == Min(U)
<1>1. m \in U /\ \A u \in U : m <= u
  <2>1. U \in SUBSET Nat /\ U # {}
    OBVIOUS
  <2> HIDE DEF U
  <2> QED
    BY <2>1, MinIs
<1>2. m \in Nat /\ \A y \in S : y <= m
  BY <1>1
<1>3. \A u \in Nat : (\A y \in S : y <= u) => m <= u
  BY <1>1
<1> HIDE DEF m
<1>4. m \in S
  <2>1. SUFFICES ASSUME m \notin S PROVE FALSE
    OBVIOUS
  <2>2. \A y \in S : y < m
    BY <1>2, <2>1
  <2>3. PICK x \in S : TRUE
    OBVIOUS
  <2>4. x \in Nat /\ x < m
    BY <2>2, <2>3
  <2>5. m - 1 \in Nat /\ \A y \in S : y <= m - 1
    BY <1>2, <2>2, <2>4
  <2>6. m <= m - 1
    BY <1>3, <2>5
  <2> QED
    BY <1>2, <2>6
<1>5. \E x \in S : \A y \in S : x >= y
  BY <1>2, <1>4
<1>6. Max(S) \in S /\ \A y \in S : Max(S) >= y
  BY <1>5 DEF Max
<1> QED
  BY <1>6

\* The level _load starts with is above every note of the file.
LEMMA FreeLevelIs ==
  ASSUME NEW board, NEW t \in Nat, GoodNotes(board, t)
  PROVE  /\ FreeLevel(board) \in Nat /\ FreeLevel(board) <= t + 1
         /\ \A n \in DOMAIN board : board[n].z < FreeLevel(board)
<1> DEFINE S == {0} \cup {board[n].z : n \in DOMAIN board}
<1>1. \A n \in DOMAIN board : board[n].z \in Nat /\ board[n].z <= t
  BY DEF GoodNotes
<1>2. S \in SUBSET Nat /\ S # {} /\ \A y \in S : y <= t
  BY <1>1
<1>3. \A n \in DOMAIN board : board[n].z \in S
  OBVIOUS
<1>4. FreeLevel(board) = 1 + Max(S)
  BY DEF FreeLevel
<1> HIDE DEF S
<1>5. Max(S) \in S /\ \A y \in S : y <= Max(S)
  BY <1>2, MaxIs
<1>6. Max(S) \in Nat /\ Max(S) <= t
  BY <1>2, <1>5
<1> QED
  BY <1>1, <1>3, <1>4, <1>5, <1>6

LEMMA NotesAfter ==
  ASSUME NotesInv, touches' \in Nat, touches <= touches', nextZ' \in Nat, nextZ' <= touches' + 1,
         GoodNotes(notes', touches'), \A n \in DOMAIN notes' : notes'[n].z < nextZ',
         PersistNotes \/ UNCHANGED notesFile
  PROVE  NotesInv'
<1>1. GoodNotes(notesFile, touches')
  <2>1. \A n \in DOMAIN notesFile :
          notesFile[n].touched \in Nat /\ notesFile[n].touched <= touches
    BY DEF NotesInv, GoodNotes
  <2>2. \A n \in DOMAIN notesFile : notesFile[n].touched <= touches'
    BY <2>1 DEF NotesInv
  <2> QED
    BY <2>2 DEF NotesInv, GoodNotes
<1>2. notesFile' = notes' \/ notesFile' = notesFile
  BY DEF PersistNotes
<1>3. GoodNotes(notesFile', touches')
  BY <1>1, <1>2
<1> QED
  BY <1>3 DEF NotesInv

\* A note is put on top of the others.
LEMMA OnTopKeeps ==
  ASSUME NotesInv, NEW id \in NoteIds,
         notes' = [n \in DOMAIN notes \cup {id} |-> IF n = id THEN OnTop ELSE notes[n]],
         IsFiniteSet(DOMAIN notes \cup {id}), Cardinality(DOMAIN notes \cup {id}) <= NotesMax,
         nextZ' = nextZ + 1, touches' = touches + 1, PersistNotes
  PROVE  NotesInv'
<1>1. touches \in Nat /\ nextZ \in Nat /\ nextZ <= touches + 1 /\ DOMAIN notes \subseteq NoteIds
  BY DEF NotesInv, GoodNotes
<1>2. \A n \in DOMAIN notes :
        /\ notes[n].z \in Nat /\ notes[n].touched \in Nat /\ notes[n].z < nextZ
        /\ notes[n].z <= notes[n].touched /\ notes[n].touched <= touches
  BY DEF NotesInv, GoodNotes
<1>3. \A m, n \in DOMAIN notes : notes[m].z < notes[n].z <=> notes[m].touched < notes[n].touched
  BY DEF NotesInv, GoodNotes
<1>4. OnTop.z = nextZ /\ OnTop.touched = touches + 1
  BY DEF OnTop
<1>5. DOMAIN notes' = DOMAIN notes \cup {id}
  OBVIOUS
<1>6. /\ notes'[id].z = nextZ /\ notes'[id].touched = touches + 1
      /\ \A n \in DOMAIN notes' : n # id => n \in DOMAIN notes /\ notes'[n] = notes[n]
  BY <1>4
<1>7. ASSUME NEW n \in DOMAIN notes'
      PROVE  /\ notes'[n].z \in Nat /\ notes'[n].touched \in Nat
             /\ notes'[n].z <= notes'[n].touched /\ notes'[n].touched <= touches'
             /\ notes'[n].z < nextZ'
  <2>1. CASE n = id
    BY <1>1, <1>6, <2>1
  <2>2. CASE n # id
    <3>1. n \in DOMAIN notes /\ notes'[n] = notes[n]
      BY <1>6, <2>2
    <3> QED
      BY <1>1, <1>2, <3>1
  <2> QED
    BY <2>1, <2>2
<1>8. ASSUME NEW m \in DOMAIN notes', NEW n \in DOMAIN notes'
      PROVE  notes'[m].z < notes'[n].z <=> notes'[m].touched < notes'[n].touched
  <2>1. CASE m = id /\ n = id
    BY <1>1, <1>6, <2>1
  <2>2. CASE m = id /\ n # id
    <3>1. n \in DOMAIN notes /\ notes'[n] = notes[n]
      BY <1>6, <2>2
    <3>2. ~(nextZ < notes[n].z) /\ ~(touches + 1 < notes[n].touched)
      BY <1>1, <1>2, <3>1
    <3> QED
      BY <1>6, <2>2, <3>1, <3>2
  <2>3. CASE m # id /\ n = id
    <3>1. m \in DOMAIN notes /\ notes'[m] = notes[m]
      BY <1>6, <2>3
    <3>2. notes[m].z < nextZ /\ notes[m].touched < touches + 1
      BY <1>1, <1>2, <3>1
    <3> QED
      BY <1>6, <2>3, <3>1, <3>2
  <2>4. CASE m # id /\ n # id
    <3>1. m \in DOMAIN notes /\ notes'[m] = notes[m] /\ n \in DOMAIN notes /\ notes'[n] = notes[n]
      BY <1>6, <2>4
    <3> QED
      BY <1>3, <3>1
  <2> QED
    BY <2>1, <2>2, <2>3, <2>4
<1>9. DOMAIN notes' \subseteq NoteIds /\ IsFiniteSet(DOMAIN notes')
      /\ Cardinality(DOMAIN notes') <= NotesMax
  BY <1>1, <1>5
<1>10. GoodNotes(notes', touches')
  BY <1>7, <1>8, <1>9 DEF GoodNotes
<1>11. touches' \in Nat /\ touches <= touches' /\ nextZ' \in Nat /\ nextZ' <= touches' + 1
  BY <1>1
<1> QED
  BY <1>7, <1>10, <1>11, NotesAfter

LEMMA NotesStep == NotesInv /\ NotesNext => NotesInv'
<1> SUFFICES ASSUME NotesInv, NotesNext PROVE NotesInv'
  OBVIOUS
<1>1. /\ touches \in Nat /\ nextZ \in Nat /\ nextZ <= touches + 1
      /\ IsFiniteSet(DOMAIN notes) /\ Cardinality(DOMAIN notes) <= NotesMax
      /\ Cardinality(DOMAIN notes) \in Nat
      /\ GoodNotes(notes, touches) /\ GoodNotes(notesFile, touches)
  BY FS_CardinalityType DEF NotesInv, GoodNotes
<1>2. ASSUME NEW id \in NoteIds, CreateNote(id)
      PROVE  NotesInv'
  <2>1. /\ Cardinality(DOMAIN notes) < NotesMax /\ id \notin DOMAIN notes
        /\ notes' = [n \in DOMAIN notes \cup {id} |-> IF n = id THEN OnTop ELSE notes[n]]
        /\ nextZ' = nextZ + 1 /\ touches' = touches + 1 /\ PersistNotes
    BY <1>2 DEF CreateNote
  <2>2. /\ IsFiniteSet(DOMAIN notes \cup {id})
        /\ Cardinality(DOMAIN notes \cup {id}) = Cardinality(DOMAIN notes) + 1
    BY <1>1, <2>1, FS_AddElement
  <2>3. Cardinality(DOMAIN notes \cup {id}) <= NotesMax
    BY <1>1, <2>1, <2>2, BoardsAssumption
  <2> QED
    BY <2>1, <2>2, <2>3, OnTopKeeps
<1>3. ASSUME NEW id \in NoteIds, UpdateNote(id)
      PROVE  NotesInv'
  <2>1. /\ id \in DOMAIN notes /\ notes' = [notes EXCEPT ![id] = OnTop]
        /\ nextZ' = nextZ + 1 /\ touches' = touches + 1 /\ PersistNotes
    BY <1>3 DEF UpdateNote
  <2>2. DOMAIN notes \cup {id} = DOMAIN notes
    BY <2>1
  <2>3. notes' = [n \in DOMAIN notes \cup {id} |-> IF n = id THEN OnTop ELSE notes[n]]
    BY <2>1, <2>2
  <2>4. IsFiniteSet(DOMAIN notes \cup {id}) /\ Cardinality(DOMAIN notes \cup {id}) <= NotesMax
    BY <1>1, <2>2
  <2> QED
    BY <2>1, <2>3, <2>4, OnTopKeeps
<1>4. ASSUME NEW id \in NoteIds, DeleteNote(id)
      PROVE  NotesInv'
  <2>1. /\ notes' = [n \in DOMAIN notes \ {id} |-> notes[n]]
        /\ PersistNotes /\ UNCHANGED <<nextZ, touches>>
    BY <1>4 DEF DeleteNote, Restrict
  <2>2. IsFiniteSet(DOMAIN notes \ {id})
        /\ Cardinality(DOMAIN notes \ {id}) <= Cardinality(DOMAIN notes)
    <3>1. DOMAIN notes \ {id} \in SUBSET DOMAIN notes
      OBVIOUS
    <3> QED
      BY <1>1, <3>1, FS_Subset
  <2>3. Cardinality(DOMAIN notes \ {id}) <= NotesMax
    <3>1. Cardinality(DOMAIN notes \ {id}) \in Nat
      BY <2>2, FS_CardinalityType
    <3> QED
      BY <1>1, <2>2, <3>1, BoardsAssumption
  <2>4. /\ DOMAIN notes' = DOMAIN notes \ {id}
        /\ \A n \in DOMAIN notes' : n \in DOMAIN notes /\ notes'[n] = notes[n]
    BY <2>1
  <2>5. GoodNotes(notes', touches)
    BY <1>1, <2>2, <2>3, <2>4 DEF GoodNotes
  <2>6. \A n \in DOMAIN notes' : notes'[n].z < nextZ
    BY <2>4 DEF NotesInv
  <2> QED
    BY <1>1, <2>1, <2>5, <2>6, NotesAfter
<1>5. CASE RestartNotes
  <2>1. notes' = notesFile /\ nextZ' = FreeLevel(notesFile) /\ UNCHANGED <<notesFile, touches>>
    BY <1>5 DEF RestartNotes
  <2>2. /\ FreeLevel(notesFile) \in Nat /\ FreeLevel(notesFile) <= touches + 1
        /\ \A n \in DOMAIN notesFile : notesFile[n].z < FreeLevel(notesFile)
    BY <1>1, FreeLevelIs
  <2> QED
    BY <1>1, <2>1, <2>2, NotesAfter
<1> QED
  BY <1>2, <1>3, <1>4, <1>5 DEF NotesNext

-----------------------------------------------------------------------------
(***************************************************************************)
(* Both boards, in a behaviour of the household.                           *)
(***************************************************************************)
LEMMA ListBegin == BoardsInit => ListInv
<1> SUFFICES ASSUME BoardsInit PROVE ListInv
  OBVIOUS
<1>1. /\ items = <<>> /\ recent = <<>> /\ removed = <<>> /\ offers = 0 /\ madeItems = 0
      /\ listFile = [items |-> <<>>, recent |-> <<>>]
  BY DEF BoardsInit
<1>2. listFile.items = <<>> /\ listFile.recent = <<>>
  BY <1>1
<1>3. 0 \in Nat /\ 0 \in 0 .. Screens
  BY BoardsAssumption
<1> QED
  BY <1>1, <1>2, <1>3, NothingListed DEF ListInv

LEMMA BoardsPartSteps ==
  [HouseholdNext]_householdVars => [ListNext]_listVars /\ [NotesNext]_noteVars
BY DEF HouseholdNext, householdVars, boardVars, Privacy, List, Notes, Aggregator, OfCamera,
       SigningIn, Calendar

LEMMA BoardsInvMeans == ListInv /\ NotesInv => BoardsTypeOK /\ BoardsInOrder
<1> SUFFICES ASSUME ListInv, NotesInv PROVE BoardsTypeOK /\ BoardsInOrder
  OBVIOUS
<1>1. /\ items \in Seq(Owned(madeItems)) /\ OnceEach(items) /\ removed \in Seq(Owned(madeItems))
      /\ recent \in Seq(Names) /\ Len(recent) <= RecentMax /\ KeysOnce(recent)
      /\ offers \in 0 .. Screens /\ (Alike(items) => sameName)
  BY DEF ListInv, GoodItems, GoodRecent
<1>2. Ids(removed) \subseteq 1 .. madeItems
  <2>1. \A i \in DOMAIN removed : removed[i] \in Owned(madeItems)
    BY <1>1, ElementOfSeq, LenProperties
  <2> QED
    BY <2>1 DEF Ids, Owned
<1>3. /\ DOMAIN notes \subseteq NoteIds /\ Cardinality(DOMAIN notes) <= NotesMax
      /\ \A n \in DOMAIN notes : notes[n].z < nextZ
      /\ \A m, n \in DOMAIN notes : notes[m].z < notes[n].z <=> notes[m].touched < notes[n].touched
  BY DEF NotesInv, GoodNotes
<1> QED
  BY <1>1, <1>2, <1>3 DEF BoardsTypeOK, BoardsInOrder, Owned, OnceEach, KeysOnce

LEMMA BoardsInvAlways == HouseholdSpec => [](ListInv /\ NotesInv)
<1>1. HouseholdInit => ListInv /\ NotesInv
  BY ListBegin, NotesBegin DEF HouseholdInit
<1>2. ListInv /\ UNCHANGED listVars => ListInv'
  BY DEF ListInv, listVars
<1>3. NotesInv /\ UNCHANGED noteVars => NotesInv'
  BY DEF NotesInv, noteVars
<1>4. ListInv /\ NotesInv /\ [HouseholdNext]_householdVars => (ListInv /\ NotesInv)'
  BY <1>2, <1>3, ListStep, NotesStep, BoardsPartSteps
<1> QED
  BY <1>1, <1>4, PTL DEF HouseholdSpec

\* However requests of several kiosks, undos of old clears, drags and restarts
\* from a file that could not always be written interleave: an item is on the
\* list once, and so is its name unless a rename or an undo made it so; no
\* name is remembered twice; notes lie in the order of their last touch
\* (lists.py, notes.py), for any number of kiosks, names, items and notes.
THEOREM BoardsAlwaysInOrder == HouseholdSpec => []BoardsInOrder
BY BoardsInvAlways, BoardsInvMeans, PTL

-----------------------------------------------------------------------------
(***************************************************************************)
(* Presence.  An absence is counted from a stamp, so that an exit needs    *)
(* that the stamp is not earlier than the last sign of somebody: which is  *)
(* so unless a signal was applied after one with a later stamp, because    *)
(* the last signal is then the latest (LastIsLatest).                      *)
(***************************************************************************)
AggregatorTypes ==
  /\ now \in 1 .. MaxNow /\ late \in BOOLEAN
  /\ state \in [present : BOOLEAN, lastSignal : 0 .. now, lastActivity : 0 .. now]
  /\ absentSince \in 0 .. now /\ lastSeen \in 0 .. now
  /\ observer \in [Observers -> [kind : Kinds \cup {"none"}, at : 0 .. now]]

LastIsLatest ==
  /\ lastSeen <= state.lastSignal
  /\ absentSince # 0 => lastSeen <= absentSince

AggregatorInv == AggregatorTypes /\ (~late => LastIsLatest)

LEMMA AggregatorBegins == AggregatorInit => AggregatorInv
<1> SUFFICES ASSUME AggregatorInit PROVE AggregatorInv
  OBVIOUS
<1>1. now \in 1 .. MaxNow /\ 0 \in 0 .. now /\ late = FALSE
  <2>1. now = 1 /\ late = FALSE
    BY DEF AggregatorInit
  <2> QED
    BY <2>1, PresenceAssumption
<1>2. state \in [present : BOOLEAN, lastSignal : 0 .. now, lastActivity : 0 .. now]
  <2>1. state = [present |-> FALSE, lastSignal |-> 0, lastActivity |-> 0]
    BY DEF AggregatorInit
  <2> QED
    BY <1>1, <2>1
<1>3. observer \in [Observers -> [kind : Kinds \cup {"none"}, at : 0 .. now]]
  BY <1>1 DEF AggregatorInit, NoSignal
<1>4. absentSince = 0 /\ lastSeen = 0 /\ state.lastSignal = 0
  BY DEF AggregatorInit
<1>5. late \in BOOLEAN
  BY <1>1, Zenon
<1>6. AggregatorTypes
  BY <1>1, <1>2, <1>3, <1>4, <1>5 DEF AggregatorTypes
<1>7. LastIsLatest
  BY <1>4 DEF LastIsLatest
<1> QED
  BY <1>6, <1>7 DEF AggregatorInv

LEMMA ObserveStep ==
  ASSUME AggregatorInv, NEW o \in Observers, Observe(o)
  PROVE  AggregatorInv' /\ (state.present /\ ~state'.present /\ ~late' => GoneWhenUnseen)
<1> DEFINE kind == observer[o].kind
           at == observer[o].at
           since == Absence(kind, at)
           gone == kind = "zone_exit" \/ (kind = "absent" /\ at - since >= Timeout)
           there == Here(kind) \/ (state.present /\ ~gone)
           active == IF kind = "activity" THEN at ELSE state.lastActivity
<1>1. /\ AggregatorTypes /\ (~late => LastIsLatest)
      /\ now \in Nat /\ 1 <= now /\ now <= MaxNow /\ MaxNow \in Nat
      /\ Timeout \in Nat /\ Timeout > 0
  BY PresenceAssumption DEF AggregatorInv, AggregatorTypes
<1>2. kind \in Kinds \cup {"none"} /\ at \in 0 .. now
  BY <1>1 DEF AggregatorTypes
<1>3. /\ observer' = [observer EXCEPT ![o] = NoSignal] /\ now' = now
      /\ absentSince' = since
      /\ state' = [present |-> there, lastSignal |-> at, lastActivity |-> active]
      /\ lastSeen' = IF Here(kind) THEN at ELSE lastSeen
      /\ late' = (late \/ at < state.lastSignal)
  BY DEF Observe
<1>4. since = IF Here(kind) THEN 0 ELSE IF kind = "absent" /\ absentSince = 0 THEN at ELSE absentSince
  BY DEF Absence
<1> HIDE DEF kind, at, since
<1>5. Here(kind) \in BOOLEAN
  BY DEF Here
<1>6. AggregatorTypes'
  <2>1. observer' \in [Observers -> [kind : Kinds \cup {"none"}, at : 0 .. now]]
    BY <1>1, <1>3 DEF AggregatorTypes, NoSignal
  <2>2. absentSince' \in 0 .. now /\ lastSeen' \in 0 .. now
    BY <1>1, <1>2, <1>3, <1>4 DEF AggregatorTypes
  <2>3. there \in BOOLEAN
    OBVIOUS
  <2>4. (late \/ at < state.lastSignal) \in BOOLEAN
    OBVIOUS
  <2>5. late' \in BOOLEAN
    BY <1>3, <2>4, Zenon
  <2>6. active \in 0 .. now
    BY <1>1, <1>2 DEF AggregatorTypes
  <2> HIDE DEF there, active
  <2>7. state' \in [present : BOOLEAN, lastSignal : 0 .. now, lastActivity : 0 .. now]
    BY <1>2, <1>3, <2>3, <2>6
  <2> QED
    BY <1>1, <1>3, <2>1, <2>2, <2>5, <2>7 DEF AggregatorTypes
<1>7. ASSUME ~late'
      PROVE  LastIsLatest' /\ state.lastSignal <= at /\ LastIsLatest
  <2>1. ~late /\ ~(at < state.lastSignal)
    BY <1>3, <1>7
  <2>2. LastIsLatest /\ state.lastSignal \in 0 .. now /\ absentSince \in 0 .. now /\ lastSeen \in 0 .. now
    BY <1>1, <2>1 DEF AggregatorTypes
  <2>3. state.lastSignal <= at
    BY <1>1, <1>2, <2>1, <2>2
  <2>4. lastSeen' <= at
    BY <1>1, <1>2, <1>3, <2>2, <2>3 DEF LastIsLatest
  <2>5. absentSince' # 0 => lastSeen' <= absentSince'
    BY <1>1, <1>2, <1>3, <1>4, <2>2, <2>3 DEF LastIsLatest
  <2> QED
    BY <1>3, <2>2, <2>3, <2>4, <2>5 DEF LastIsLatest
<1>8. ASSUME state.present, ~state'.present, ~late'
      PROVE  GoneWhenUnseen
  <2>1. ~Here(kind) /\ gone
    BY <1>3, <1>8
  <2>2. CASE kind = "zone_exit"
    BY <2>2 DEF GoneWhenUnseen, kind
  <2>3. CASE kind = "absent" /\ at - since >= Timeout
    <3>1. LastIsLatest /\ absentSince \in 0 .. now /\ lastSeen \in 0 .. now
      BY <1>1, <1>7, <1>8 DEF AggregatorTypes
    <3>2. since = absentSince /\ absentSince # 0
      BY <1>1, <1>2, <1>4, <2>1, <2>3, <3>1
    <3>3. at - lastSeen >= Timeout
      BY <1>1, <1>2, <2>3, <3>1, <3>2 DEF LastIsLatest
    <3> QED
      BY <3>3 DEF GoneWhenUnseen, at
  <2> QED
    BY <2>1, <2>2, <2>3
<1> QED
  BY <1>6, <1>7, <1>8 DEF AggregatorInv

LEMMA AggregatorStep ==
  ASSUME AggregatorInv, [AggregatorNext]_aggregatorVars
  PROVE  AggregatorInv' /\ (state.present /\ ~state'.present /\ ~late' => GoneWhenUnseen)
<1>1. /\ AggregatorTypes /\ (~late => LastIsLatest) /\ now \in Nat /\ MaxNow \in Nat
  BY PresenceAssumption DEF AggregatorInv, AggregatorTypes
<1>2. ASSUME NEW o \in Observers, NEW kind \in Kinds, Stamp(o, kind)
      PROVE  AggregatorInv' /\ state' = state
  <2>1. /\ observer' = [observer EXCEPT ![o] = [kind |-> kind, at |-> now]]
        /\ UNCHANGED <<now, state, absentSince, lastSeen, late>>
    BY <1>2 DEF Stamp
  <2>2. observer' \in [Observers -> [kind : Kinds \cup {"none"}, at : 0 .. now]]
    BY <1>1, <2>1 DEF AggregatorTypes
  <2> QED
    BY <1>1, <2>1, <2>2 DEF AggregatorInv, AggregatorTypes, LastIsLatest
<1>3. CASE Later
  <2>1. now < MaxNow /\ now' = now + 1 /\ UNCHANGED <<state, absentSince, observer, lastSeen, late>>
    BY <1>3 DEF Later
  <2>2. 0 .. now \subseteq 0 .. now' /\ now' \in 1 .. MaxNow
    BY <1>1, <2>1 DEF AggregatorTypes
  <2>3. /\ state' \in [present : BOOLEAN, lastSignal : 0 .. now', lastActivity : 0 .. now']
        /\ absentSince' \in 0 .. now' /\ lastSeen' \in 0 .. now'
    BY <1>1, <2>1, <2>2 DEF AggregatorTypes
  <2>4. observer' \in [Observers -> [kind : Kinds \cup {"none"}, at : 0 .. now']]
    BY <1>1, <2>1, <2>2 DEF AggregatorTypes
  <2>5. AggregatorTypes'
    BY <1>1, <2>1, <2>2, <2>3, <2>4 DEF AggregatorTypes
  <2> QED
    BY <1>1, <2>1, <2>5 DEF AggregatorInv, LastIsLatest
<1>4. CASE UNCHANGED aggregatorVars
  BY <1>1, <1>4 DEF aggregatorVars, AggregatorInv, AggregatorTypes, LastIsLatest
<1> QED
  BY <1>2, <1>3, <1>4, ObserveStep DEF AggregatorNext

\* As far as presence goes, a behaviour of the household is one of its.
LEMMA AggregatorPartSteps == [HouseholdNext]_householdVars => [AggregatorNext]_aggregatorVars
BY DEF HouseholdNext, householdVars, presenceVars, Privacy, List, Notes, Aggregator, OfCamera, SigningIn, Calendar

LEMMA AggregatorInvAlways == HouseholdSpec => []AggregatorInv
<1>1. HouseholdInit => AggregatorInv
  BY AggregatorBegins DEF HouseholdInit
<1>2. AggregatorInv /\ [HouseholdNext]_householdVars => AggregatorInv'
  BY AggregatorStep, AggregatorPartSteps
<1> QED
  BY <1>1, <1>2, PTL DEF HouseholdSpec

\* Somebody who is there is not taken to have gone before a zone reports the
\* exit or nobody has been seen for the time-out (aggregator.py, observe), for
\* any number of observing threads, unless a signal is applied after a later
\* one.
THEOREM NobodyEverTakenForGone == HouseholdSpec => NobodyTakenForGone
<1>1. AggregatorInv /\ [HouseholdNext]_householdVars =>
        [state.present /\ ~state'.present /\ ~late' => GoneWhenUnseen]_presenceVars
  BY AggregatorStep, AggregatorPartSteps
<1> QED
  BY <1>1, AggregatorInvAlways, PTL DEF HouseholdSpec, NobodyTakenForGone

-----------------------------------------------------------------------------
(***************************************************************************)
(* The camera.  A capture that says it works is in the watchdog's reach:   *)
(* it is mirrored, or the one the watchdog is about to release, or         *)
(* released.  A watchdog that is not releasing therefore holds none, and   *)
(* a camera that has not been started has neither thread.                  *)
(***************************************************************************)
CameraTypes ==
  /\ status \in {"ok", "absent", "disconnected", "error", "disabled"}
  /\ reader \in {"open", "read", "backoff", "ended"}
  /\ opened \in Nat /\ capture \in 0 .. opened /\ mirror \in 0 .. opened /\ grabbed \in 0 .. opened
  /\ released \subseteq 1 .. opened

InReach ==
  /\ reader = "read" <=> capture # NoCapture
  /\ status = "disabled" /\ ~stopping => reader = "ended" /\ watchdog = "off"
  /\ watchdog = "releasing" <=> grabbed # NoCapture
  /\ status = "ok" /\ capture \notin released => capture \in {mirror, grabbed}

CameraInv == CameraTypes /\ InReach

LEMMA CameraBegins == CameraInit => CameraInv
BY DEF CameraInit, CameraInv, CameraTypes, InReach, NoCapture

LEMMA CameraStep == CameraInv /\ [CameraNext]_cameraVars => CameraInv'
<1> SUFFICES ASSUME CameraInv, [CameraNext]_cameraVars PROVE CameraInv'
  OBVIOUS
<1> USE DEF CameraInv, CameraTypes, InReach, NoCapture
<1>1. CASE Start \/ Stop \/ Stopped
  <2>1. CASE Start
    BY <2>1 DEF Start
  <2>2. CASE Stop
    BY <2>2 DEF Stop
  <2>3. CASE Stopped
    BY <2>3 DEF Stopped
  <2> QED
    BY <1>1, <2>1, <2>2, <2>3
<1>2. CASE Opens
  BY <1>2 DEF Opens
<1>3. CASE OpenFails \/ BackoffEnds \/ ReadFrame
  BY <1>3 DEF OpenFails, BackoffEnds, ReadFrame
<1>4. CASE ReadFails
  BY <1>4 DEF ReadFails
<1>5. CASE ReaderEnds
  BY <1>5 DEF ReaderEnds
<1>6. CASE WatchdogDecides \/ WatchdogEnds
  BY <1>6 DEF WatchdogDecides, WatchdogEnds
<1>7. CASE WatchdogTakes
  BY <1>7 DEF WatchdogTakes
<1>8. CASE WatchdogReleases
  BY <1>8 DEF WatchdogReleases
<1>9. CASE Tick \/ DeviceChanges \/ UNCHANGED cameraVars
  BY <1>9 DEF Tick, DeviceChanges, cameraVars
<1> QED
  BY <1>1, <1>2, <1>3, <1>4, <1>5, <1>6, <1>7, <1>8, <1>9 DEF CameraNext, Reader, Watchdog

LEMMA CameraPartSteps == [HouseholdNext]_householdVars => [CameraNext]_cameraVars
BY DEF HouseholdNext, householdVars, presenceVars, Privacy, List, Notes, Aggregator, OfCamera, SigningIn, Calendar

LEMMA CameraInvAlways == HouseholdSpec => []CameraInv
<1>1. HouseholdInit => CameraInv
  BY CameraBegins DEF HouseholdInit
<1>2. CameraInv /\ [HouseholdNext]_householdVars => CameraInv'
  BY CameraStep, CameraPartSteps
<1> QED
  BY <1>1, <1>2, PTL DEF HouseholdSpec

-----------------------------------------------------------------------------
(***************************************************************************)
(* One token per account, in memory and wherever memory has been copied    *)
(* to; one code on the screen.                                             *)
(***************************************************************************)
OnePerAccount(some) == \A s, t \in some : s[1] = t[1] => s = t

TokensKept ==
  /\ OnePerAccount(memory) /\ OnePerAccount(file) /\ OnePerAccount(tmp)
  /\ \A t \in Threads : OnePerAccount(thread[t].data)
  /\ seen \in {"this", "old", "none"} /\ (file = Absent => seen # "this")
  /\ \A f, g \in pending : f = g

LEMMA NoneOrOne == OnePerAccount({}) /\ OnePerAccount(Absent) /\ OnePerAccount(Torn)
BY DEF OnePerAccount, Absent, Torn

\* What a step does to the caches, if it does not obtain a token.
LEMMA Copying ==
  ASSUME SignInInv, TokensKept, OnePerAccount(memory'),
         file' \in {file, tmp, Absent},
         tmp' \in {tmp, Absent, Torn, {}} \/ \E t \in Threads : tmp' = thread[t].data,
         \A t \in Threads : thread'[t].data \in {thread[t].data, memory, {}},
         seen' \in {"this", "old", "none"}, file' = Absent => seen' # "this",
         \A f, g \in pending' : f = g
  PROVE  TokensKept'
<1>1. OnePerAccount(file') /\ OnePerAccount(tmp')
  BY NoneOrOne DEF TokensKept
<1>2. ASSUME NEW t \in Threads
      PROVE  OnePerAccount(thread'[t].data)
  BY NoneOrOne DEF TokensKept
<1> QED
  BY <1>1, <1>2 DEF TokensKept, OnePerAccount

\* Whoever looks takes over a good cache.
LEMMA LookingKeeps ==
  ASSUME TokensKept, Look
  PROVE  /\ OnePerAccount(memory') /\ seen' \in {"this", "old", "none"}
         /\ file = Absent => seen' # "this"
<1>1. memory' \in {memory, file, {}}
  BY DEF Look, OnDisk
<1>2. OnePerAccount(memory')
  BY <1>1, NoneOrOne DEF TokensKept
<1> QED
  BY <1>2 DEF Look, Present, Differs, TokensKept

\* A token replaces those of its account.
LEMMA Obtaining ==
  ASSUME NEW old, NEW fresh, OnePerAccount(old), \A s \in old : s[1] # fresh[1]
  PROVE  OnePerAccount(old \cup {fresh})
BY DEF OnePerAccount

LEMMA KeptStep == ASSUME SignInInv, TokensKept, [SignInNext]_signInVars PROVE TokensKept'
<1>1. /\ thread \in [Threads -> [at : Stages, data : SUBSET Obtained]] /\ Flows \subseteq Threads
      /\ Pollers \subseteq Threads /\ OnePerAccount(memory)
      /\ seen \in {"this", "old", "none"} /\ (file = Absent => seen # "this")
      /\ \A f, g \in pending : f = g
  BY DEF SignInInv, SignInTypes, Threads, TokensKept
<1>2. CASE Status \/ BeginChecks \/ Cancel
  <2>1. /\ UNCHANGED <<file, tmp, thread>> /\ pending' \subseteq pending /\ Look
    BY <1>2 DEF Status, BeginChecks, Cancel, cacheVars
  <2> QED
    BY <1>1, <2>1, LookingKeeps, Copying
<1>3. CASE BeginInstalls
  <2> DEFINE g == CHOOSE f \in Unused : TRUE
  <2>1. /\ UNCHANGED <<file, tmp>> /\ Look
        /\ \/ pending' = {g} /\ thread' = [thread EXCEPT ![g].at = "polling"]
           \/ pending' = {} /\ thread' = thread
    BY <1>3 DEF BeginInstalls, cacheVars
  <2> HIDE DEF g
  <2>2. \A t \in Threads : thread'[t].data = thread[t].data
    BY <1>1, <2>1
  <2> QED
    BY <1>1, <2>1, <2>2, LookingKeeps, Copying
<1>4. CASE Expires
  BY <1>1, <1>4, Copying DEF Expires, cacheVars
<1>5. ASSUME NEW f \in Flows, FlowFails(f) \/ FlowEnds(f)
      PROVE  TokensKept'
  <2>1. /\ UNCHANGED <<memory, seen, file, tmp>> /\ pending' \subseteq pending
        /\ \A t \in Threads : thread'[t].data = thread[t].data
    BY <1>1, <1>5 DEF FlowFails, FlowEnds, CodeCleared, cacheVars
  <2> QED
    BY <1>1, <2>1, Copying
<1>6. ASSUME NEW f \in Flows, NEW a \in Accounts, FlowSucceeds(f, a)
      PROVE  TokensKept'
  <2>1. /\ UNCHANGED <<seen, file, tmp, pending>>
        /\ memory' = {t \in memory : t[1] # a} \cup {<<a, tokens + 1>>}
        /\ \A t \in Threads : thread'[t].data = thread[t].data
    BY <1>1, <1>6 DEF FlowSucceeds, cacheVars
  <2>2. OnePerAccount({t \in memory : t[1] # a})
    BY <1>1 DEF OnePerAccount
  <2>3. OnePerAccount(memory')
    BY <2>1, <2>2, Obtaining
  <2> QED
    BY <1>1, <2>1, <2>3, Copying
<1>7. ASSUME NEW p \in Pollers, Refresh(p)
      PROVE  TokensKept'
  <2>1. /\ UNCHANGED <<file, tmp, pending>> /\ Look
        /\ \A t \in Threads : thread'[t].data = thread[t].data
    BY <1>1, <1>7 DEF Refresh, cacheVars
  <2> QED
    BY <1>1, <2>1, LookingKeeps, Copying
<1>8. ASSUME NEW p \in Pollers, Refreshed(p)
      PROVE  TokensKept'
  <2>1. /\ UNCHANGED <<seen, file, tmp, pending>>
        /\ \/ \E t \in memory : memory' = (memory \ {t}) \cup {<<t[1], tokens + 1>>}
           \/ memory' = memory
        /\ \A t \in Threads : thread'[t].data = thread[t].data
    BY <1>1, <1>8 DEF Refreshed, cacheVars
  <2>2. ASSUME NEW t \in memory, memory' = (memory \ {t}) \cup {<<t[1], tokens + 1>>}
        PROVE  OnePerAccount(memory')
    <3>1. OnePerAccount(memory \ {t}) /\ \A s \in memory \ {t} : s[1] # t[1]
      BY <1>1 DEF OnePerAccount
    <3> QED
      BY <2>2, <3>1, Obtaining
  <2> QED
    BY <1>1, <2>1, <2>2, Copying
<1>9. ASSUME NEW t \in Threads, Serialize(t) \/ WriteTmp(t) \/ Replace(t) \/ Touch(t)
      PROVE  TokensKept'
  <2>1. /\ UNCHANGED <<memory, pending>> /\ file' \in {file, tmp, Absent}
        /\ tmp' \in {tmp, Absent, Torn, {}} \/ tmp' = thread[t].data
    BY <1>9 DEF Serialize, WriteTmp, Replace, Touch, cacheVars
  <2>2. \A u \in Threads : thread'[u].data \in {thread[u].data, memory, {}}
    <3>1. CASE Serialize(t)
      BY <1>1, <3>1 DEF Serialize, Done
    <3>2. CASE WriteTmp(t) \/ Replace(t)
      BY <1>1, <3>2 DEF WriteTmp, Replace, SaveFails, Done
    <3>3. CASE Touch(t)
      BY <1>1, <3>3 DEF Touch, Done
    <3> QED
      BY <1>9, <3>1, <3>2, <3>3
  <2>3. seen' \in {"this", "old", "none"} /\ (file' = Absent => seen' # "this")
    <3>1. CASE UNCHANGED <<file, seen>>
      BY <1>1, <3>1
    <3>2. CASE Replace(t)
      BY <1>1, <3>2 DEF Replace, Aged
    <3>3. CASE Touch(t)
      BY <1>1, <3>3 DEF Touch
    <3> QED
      BY <1>9, <3>1, <3>2, <3>3 DEF Serialize, WriteTmp, cacheVars
  <2> QED
    BY <1>1, <2>1, <2>2, <2>3, Copying
<1>10. CASE SignOut \/ SignedOut
  <2>1. /\ memory' \in {memory, {}} /\ UNCHANGED <<tmp, thread>> /\ pending' \subseteq pending
        /\ file' \in {file, Absent} /\ seen' \in {"this", "old", "none"} /\ (file' = Absent => seen' # "this")
    BY <1>1, <1>10 DEF SignOut, SignedOut, FileRemoved, Present, cacheVars
  <2>2. OnePerAccount(memory')
    BY <1>1, <2>1, NoneOrOne
  <2> QED
    BY <1>1, <2>1, <2>2, Copying
<1>11. CASE RestartSignIn
  <2>1. /\ memory' \in {file, {}} /\ UNCHANGED <<file, tmp>> /\ pending' = {}
        /\ seen' \in {"this", "none"} /\ (file' = Absent => seen' # "this")
    BY <1>11 DEF RestartSignIn, OnDisk, Present, Absent, Torn
  <2>2. OnePerAccount(memory')
    BY <2>1, NoneOrOne DEF TokensKept
  <2>3. \A t \in Threads : thread'[t].data = {}
    BY <1>11 DEF RestartSignIn, Ended, Free
  <2> QED
    BY <1>1, <2>1, <2>2, <2>3, Copying
<1>12. CASE UNCHANGED signInVars
  BY <1>12 DEF signInVars, cacheVars, historyVars, TokensKept, OnePerAccount
<1> QED
  BY <1>2, <1>3, <1>4, <1>5, <1>6, <1>7, <1>8, <1>9, <1>10, <1>11, <1>12 DEF SignInNext

LEMMA TokensKeptAlways == HouseholdSpec => []TokensKept
<1>1. HouseholdInit => TokensKept
  BY SignInPart DEF SignInInit, TokensKept, OnePerAccount, Absent, Free
<1>2. SignInInv /\ TokensKept /\ [HouseholdNext]_householdVars => TokensKept'
  BY KeptStep, SignInPartSteps
<1> QED
  BY <1>1, <1>2, SignInInvAlways, PTL DEF HouseholdSpec

LEMMA SignInTypesMean == SignInInv /\ TokensKept => SignInTypeOK
<1> SUFFICES ASSUME SignInInv, TokensKept PROVE SignInTypeOK
  OBVIOUS
<1>1. pending \subseteq Flows
  BY DEF SignInInv, Codes
<1>2. Cardinality(pending) <= 1
  <2>1. CASE pending = {}
    BY <2>1, FS_EmptySet
  <2>2. CASE pending # {}
    <3>1. PICK f : f \in pending
      BY <2>2
    <3>2. \A g \in pending : g = f
      BY <3>1 DEF TokensKept
    <3>3. pending = {f}
      BY <3>1, <3>2
    <3>4. Cardinality({f}) = 1
      BY FS_Singleton
    <3> QED
      BY <3>3, <3>4
  <2> QED
    BY <2>1, <2>2
<1> QED
  BY <1>1, <1>2 DEF TokensKept, OnePerAccount, SignInTypeOK

-----------------------------------------------------------------------------
\* Whatever is stored, shown and signed in stays within its type, for any
\* household; in particular there is one token per account and one code on
\* the screen (outlook_personal.py, personal_auth.py), and a capture that says
\* it works is in the watchdog's reach (local_camera.py).
THEOREM HouseholdWellTyped == HouseholdSpec => []HouseholdTypesOK
<1>1. AggregatorInv /\ CameraInv => PresenceTypeOK
  <2> SUFFICES ASSUME AggregatorInv, CameraInv PROVE PresenceTypeOK
    OBVIOUS
  <2>1. 0 .. now \subseteq 0 .. MaxNow
    BY PresenceAssumption DEF AggregatorInv, AggregatorTypes
  <2>2. state \in [present : BOOLEAN, lastSignal : 0 .. MaxNow, lastActivity : 0 .. MaxNow]
    BY <2>1 DEF AggregatorInv, AggregatorTypes
  <2> QED
    BY <2>2 DEF AggregatorInv, AggregatorTypes, CameraInv, CameraTypes, InReach, PresenceTypeOK
<1>2. CalendarsInv => CalendarsTypeOK
  BY DEF CalendarsInv, CalendarsTypes, Sourced, CalendarsTypeOK
<1>3. ListInv /\ NotesInv /\ AggregatorInv /\ CameraInv /\ SignInInv /\ TokensKept /\ CalendarsInv
        => HouseholdTypesOK
  BY <1>1, <1>2, BoardsInvMeans, SignInTypesMean DEF HouseholdTypesOK
<1> QED
  BY <1>3, BoardsInvAlways, AggregatorInvAlways, CameraInvAlways, SignInInvAlways,
     TokensKeptAlways, CalendarsInvAlways, PTL
=============================================================================
