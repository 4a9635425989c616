# Mission Control, specified

TLA+ models of Mission Control, a household dashboard: a wall-mounted kiosk (React) in front of a
FastAPI backend, with a Node sidecar for Eufy cameras. The models are translated from the source;
every definition that stands for code is listed with its lines in `PROJECT.json` under `map`.
TLC checks small instances; the TLA+ proof system proves what is listed under *Proofs* for every
instance.

    tlc -config Timers.cfg MCTimers      # a run: one of the .cfg files with its MC module
    tlapm TimersProofs.tla               # the proofs of a module

## 1. Inventory

Paths are under `src/`; `app/` is `src/backend/app/`.

| Part | State it keeps | Operations | Talks to |
|---|---|---|---|
| Kitchen timer `app/timers.py` | one timer per id (in effect: one), an asyncio task per running timer | create, extend, pause, resume, restart, cancel, fire | privacy gate, feed, voice tools |
| Panel `app/display.py`, `app/presence/display_policy.py` | believed and reference brightness, night mode; dimmed flag, countdown task | PUT brightness/night mode, idle dim, restore on a signal, shutdown | worker threads, the panel, presence |
| Privacy `app/privacy.py` | locked, since, failure counters, cooldown; a JSON file | lock, unlock, undo, load, persist | gates in `app/api.py`, feed |
| Voice relay `app/voice/relay.py` | turn state shared by two pumps | kiosk frames up, provider events down, tool rounds, loop breaking | kiosk session, Azure realtime |
| Clip gallery `app/eufy/` | ring, pinned list, id set, LRU, pending requests, connection; directory with manifest and media | discover, inject, remove, thumbnail, video, reconnect, load | Node bridge, feed, HTTP |
| Live feed `app/realtime.py`, `app/api.py` (`/api/ws`), `frontend/src/realtime/` | registry of sockets; per kiosk a socket, its status, what hooks render | connect and greet, broadcast, heartbeat, reconnect, GET/POST answers | every store and hook |
| Lists `app/lists.py`, notes `app/notes.py` | items in order; notes with a stacking order; JSON files | add, check, clear, undo, reorder; create, move, delete | feed (lists), voice tools |
| Note dictation `app/notes_stt*.py`, `frontend/src/notes/useNoteDictation.ts` | a recording with its microphone, watchdog and socket | record, cancel, transcribe | microphone, Azure Speech |
| Presence `app/presence/` | present / last seen per scope, absence since | observe, callbacks; webcam reader thread | display policy |
| Calendar `app/calendar/` | token cache, visibility choices, pending device flow | read events, begin / cancel / complete sign-in, sign out | Microsoft Graph, MSAL threads |
| Voice grants `app/voice/cache.py`, `app/auth.py` | cached token and prompt snapshot, one-use tickets | mint, reuse while fresh, reset | calendar, providers |
| Local voice `app/voice/local/` | a turn with pending tools; a shared recogniser | recognise, interpret, dispatch, answer | kiosk |
| Wake word `app/voice/wake*.py`, `frontend/src/voice/wake/` | a detector with start, suspend, retry; a command queue for the device | arm, suspend, detect, reconnect | microphone, device |
| Speaker bridge `app/voice/speaker.py` | bounded audio buffer, link | pump, drain, shed, reconnect | kiosk, device |
| Kiosk voice session `frontend/src/voice/useVoiceSession.ts` | status, watchdog, transcripts, provider session | start, end turn, tool calls, events | relay, tools, audio |
| Eufy bridge `src/eufy-bridge/` | seen clips, polls under way, downloads | poll, push, download, mux | Eufy cloud, backend |
| API, configuration, models | settings | routing, validation | everything |

**What is hard here.** The backend is one asyncio loop, so code between two awaits is atomic and the
trouble is at the awaits: state read before and used after (relay, gallery, sign-in), coroutines
cancelled while a worker thread goes on (panel), tasks that have been woken but not run (timers),
broadcasts that overtake each other (feed). Naive wall-clock stamps are compared with monotonic sleeps
(timers, privacy). Three stores are persisted by best-effort writes and reloaded. Connections break
silently. `PROJECT.json` lists each of these under `hazards`, at its line, with the properties that
cover it.

**What makes each part correct.** One armed alarm that rings when due; a panel that is never stranded
dim; a lock only the PIN (or a prompt undo) ends; a voice turn that asks once for an answer, after
every tool output, and ends; a gallery whose five copies of "which clips" agree and survive a restart;
screens that end up showing the present state; a list on which an item stands once, and notes that lie
in the order they were touched; a person who is there and is not taken to have left; a camera that is
given up when it hangs; a sign-in that is neither lost nor half done; a calendar that shows every event
once; a voice grant that no switch of provider and no midnight outlives; a day and a clock time that
mean what a person means by them; an action only on what was clearly named; a transcript of one's own
speech; a local turn that ends; a command to the wake-word gate that is not lost with a connection
unnoticed; a screen that is not mute while the speaker is. For the parts not modelled: a microphone
that is released once, a suspended detector that is deaf, a kiosk session that belongs to one turn, no
clip lost between the Eufy bridge and the backend.

## 2. Modules

| Module | Models | Composes / refines |
|---|---|---|
| `Timers` | `TimerStore`, its tasks, the endpoint gates | implements `KitchenTimer` |
| `KitchenTimer` | nothing in the code: what a household expects of a kitchen timer | |
| `Display` | `DisplayStore` + `PresenceDisplayPolicy` + `PUT /api/display` + the lifespan's end | store, policy, worker threads |
| `Privacy` | `PrivacyStore` and its endpoints | |
| `VoiceRelay` | `run_relay`'s pumps and `_RelayTurn` | relay, kiosk session, provider |
| `EufyGallery` | `EufyEventService` + `EufyClipCache` | service, cache, bridge |
| `LiveFeed` | registry, endpoint, kiosk socket, a hook | backend, network, browser |
| `Gates` | `_require_unlocked`, whose lock moves at any time | |
| `Sifting` | a list comprehension with a condition | used by `EufyGallery`, `Boards` |
| `Boards` | `ListStore` and `NoteStore` with their endpoints; the kiosks' Undo | uses `Gates`, `Sifting` |
| `Presence` | `PresenceAggregator`; the webcam's reader and watchdog threads | |
| `SignIn` | the personal Outlook sign-in and the token cache everybody saves | uses `Gates` |
| `Calendars` | the snapshot of Graph calendars, its two caches, the chosen calendars | uses `Gates` |
| `Household` | the four above, one part per behaviour, under one lock | composes `Boards`, `Presence`, `SignIn`, `Calendars` |
| `Dates` | days, durations and clock times as operators; what a person means by them | |
| `Intents` | the catalogue of intents, their scoring, people and events by name | extends `Dates` |
| `Interpreter` | `interpret()` with its plans | extends `Intents` |
| `LocalVoice` | the local pipeline: connections, loop, worker threads, recogniser | calls `Interpreter` |
| `Grants` | the voice token cache, tickets, the switch of provider | |
| `WakeBridge` | the backend's bridge to the wake-word gate on the speaker device | |
| `SpeakerBridge` | the backend's bridge to a network speaker; the kiosk's decision to mute | |
| `Voice` | the five above, one scene per behaviour | composes `LocalVoice`, `Interpreter`, `Grants`, `WakeBridge`, `SpeakerBridge` |
| `TimersProofs`, `PrivacyProofs`, `DisplayProofs`, `LiveFeedProofs`, `VoiceRelayProofs`, `EufyGalleryProofs`, `VoiceProofs`, `HouseholdProofs` | theorems about the module of the name | |
| `MC*` | model values, bounds | |

`Household` and `Voice` gather parts that meet only in what they share: the privacy lock in the first,
the interpreter in the second. A behaviour belongs to one part, chosen in the initial state, so that
their state spaces add up instead of multiplying; each part's module is a specification by itself.

The convention in all of them: an action is the code from one await to the next; what a handler does
without awaiting is one action, trailing save included. A guard comes from a condition or an early
return of the code. Variables marked *history* exist only for properties; no guard reads them, except
for bounds, which are named in the module's heading.

### Timers and KitchenTimer
`timers` and `tasks` are `_timers` and `_tasks`; `sleepers` are the `_sleep_then_fire` coroutines,
which exist until the loop unwinds them. `Create … Delete` are the endpoints with their gates
(`_require_unlocked`, and for DELETE the exception for a ringing alarm). `Wake` is a coroutine whose
sleep is over being run, arbitrarily late; `Unwind` is its cancellation arriving. `now` is the loop's
clock, `skew` what the wall clock differs by. Rounding (`round`, ties to even) and truncation are
modelled on half-second ticks.

`KitchenTimer` has a phase, the time left and the dial. The refinement mapping takes the time left
from the *task* of the timer, not from its `fires_at`, so that a stray or wrongly armed task breaks it.
The abstract `Extend` and `Hold` are exact while the wall clock is steady and within the cap after it
was stepped, because the store computes the remainder from the wall clock.

### Display
`calls` are coroutines suspended in `_apply` or in the broadcast after it; `orphans` the worker threads
of calls that were cancelled, which still move the panel. `doubt` becomes true when two calls overlap,
a dim is cancelled in flight, or an effector reports failure after acting. The invariants exclude
exactly those histories: in each of them the store is in fact wrong about the panel, which is the
finding about `SignalRestores` for the one case a document rules out. A cancelled call's thread may fail
like any other, of which nobody hears.

### Privacy
The store's fields, the file's contents, and the two clocks as in `Timers`. `Persist` is the write
through a temporary file: it succeeds or leaves the old contents. `Restart` reloads the file and takes a
configuration with or without a PIN. A file somebody edited into valid JSON that is no object is left out:
the backend does not start from it.

### VoiceRelay
`up` and `down` say where each pump is: reading, suspended in `upstream.send()` (a FIFO mutex, from the
websockets library), sending the answer request, or delivering to the kiosk. `turn` is `_RelayTurn`.
The provider is external: it answers a `response.create` while active with an error, and a late
`response.cancel` with a benign one. `overlapped` is true once both pumps asked for the same answer;
that is the finding, and the other properties are stated up to it.

### EufyGallery
`ring`, `pinned`, `ids`, `lru` are the service's; `cached`, `manifest`, `thumbs`, `videos` the durable
cache's. A request is *waiting* (its future is pending) or *answered* (the future has its result but
the coroutine has not run). `client = "dead"` is a socket that broke without the read loop having
noticed. A save of media for a clip that left the gallery is refused by the code and by the model.
Writing a file may fail, and so may every single unlink, when a clip leaves and in the sweep of a start
(`DeleteMedia`); the code swallows both. The history variable `left` has the files that an unlink failed to
remove since their clip left, and `MediaOfGalleryOnly` says that nothing else stays. Temporary files of
failed writes are left out; the next sweep takes them.

### LiveFeed
One store, seen as a version. `casts` are the broadcasts under way with the sockets each has still to
send to; `endpoint` where a connection's `websocket_endpoint` is; `path` what the network does with it,
`"half"` being a connection that is dead without either end being told. `told` is the last version a
connection delivered, `shown` what a hook renders; they differ because the hook also renders HTTP
answers. The kiosk's heartbeat is the action that closes a socket with no traffic. `refresh()` is
unconditional; in the model a GET above the bound counts as one that was lost. The type invariant has the
bookkeeping with it: a kiosk that is live has a socket, and what is registered is being greeted or served.

### Boards and Gates
A request changes memory and writes the whole store before its handler first awaits, so it is one
action with its save, which may fail (`PersistList`, `PersistNotes`). `Sift` keeps the elements of a sequence
that are in a set: it is `SelectSeq` without an operator for its parameter and without `RECURSIVE`, so
that proofs can be about it. What interleaves is people:
`offers` counts the kiosks that still show the Undo of a clear while other kiosks and voices go on,
and the privacy lock may be engaged between any two steps (`Gates`). Names are compared through `Key`,
which is what `_normalize` makes of them. `sameName` records that a rename or an undo put a name on the
list twice, which the code does not prevent. A drag names each item once, as kiosks do.

### Presence
An observer stamps its signal and only then takes the aggregator's lock (`Stamp`, `Observe`), so that
signals are applied out of order; `late` records it. The camera has a reader thread
(`Opens` … `Reopens`), a watchdog that decides by status and age and then releases whatever capture it
finds (`watchdog`, `grabbed`), and a device that goes away, freezes or blocks.

### SignIn
`memory` is the MSAL cache all requests share, `file` and `tmp` what is on disk, `seen` the file time in
the cached entry, by which a request notices that another has written. A device flow polls on its own
thread, which nothing stops. `save_cache` takes no lock: `Serialize`, `WriteTmp`, `Replace` and `Touch`
are separate actions. `overlapped` records that two saves, or a save and a sign-out, ran into each
other; accounts are lost then, and the property excludes it. From there on only what is under way is
followed (a bound). Every write, replacement and removal of the file may raise: a save ends there, with the
token in memory only, and a sign-out ends with the accounts gone from memory only. `unsaved` (history) is
true from then until the file is next replaced or removed; the property asks nothing of the file meanwhile,
except that it is not taken for saved. A write that stopped half-way leaves a torn temporary file (`Torn`),
which only an overlap can move to the cache file, where every request raises.

### Calendars
`GetCalendar` is a whole snapshot, mailbox by mailbox, with any of its requests failing: a failed token,
event or extra-calendar request fails it, a failed list, colour or name does not; a good answer with
nothing in it replaces what was cached. An event without a start or an end makes the snapshot raise, which
is one of the failed ones. The threadpool's
`set_calendar_visibility` is one step. A mailbox is a set of calendars with owners; one that is shared
into a second mailbox brings the same events.

### Dates, Intents, Interpreter
Regular expressions are outside: an utterance says which of them matched, with the numbers the word
tables give. What the code computes from that, in the code's order of rules, is translated:
`Resolve(phrase, today)` for days, `ClockTime` and `DurationSeconds`, `TopIntent` with margins and
vetoes, `ResolvePerson` and `ResolveEvent` with thresholds and margins, and one operator per plan.
`Decide(u, stt, ctx, scope)` is `interpret()` from the point where the date is known; `DateOf` is the step
before. The reference definitions, `MeansTheDay` and `MeansTheTime`, say what a person means, without
arithmetic on rules: "the nearest Friday that is not past", "the next such clock time".

### LocalVoice and Grants
`conn[k]` is a kiosk's connection with where its receive loop is; `Built`, `Accept`, `Finalize` and
`Think` are worker threads coming back. One recogniser serves everybody (`shared`, `built`, because two
first turns may each build one); `buffer` says whose audio it holds. The loop waits for a tool result
that only itself could read, so that `Timeout` is how that wait ends. In `Grants` a request is where it
is between the lock, the calendar and the mint; `SetProvider` and `ResetCaches` are two steps of a
worker thread.

### WakeBridge and SpeakerBridge
Commands are numbered and followed from the kiosk to the device; `dropped` and `owed` are history: what
was written to a connection that was going, and whether the kiosk has been told of an end since. The
speaker's audio is known by the connection it was received for. Status frames come from the forwarder,
the ticker and the shed reporter; the kiosk compares each with the one before to decide whether the
screen may be mute.

## 3. Runs

| Run | Instance | Shows |
|---|---|---|
| `timers` | 2 ids, 2 task slots, caps 1..3 s, half-second ticks, 5 ticks, one step of the wall clock by ±2 s | armed iff running, validator accepts, rings at zero; refines `KitchenTimer` with its liveness |
| `display` | 2 concurrent calls, 1 effector error, levels 0..100 with four interesting ones | countdown never lost; store, panel and shutdown agree outside doubt |
| `display_signal` | the same, no errors | **violation**: a signal during the dim leaves the panel dim |
| `privacy` | 2 attempts, cooldowns 1, 2, 3 s (cap), undo 1 s, 10 half-seconds, one clock step | file holds the state, guessing is slow, left only by PIN or prompt undo |
| `privacy_pin` | shorter clock | **violation**: locked with no PIN to leave |
| `relay` | 3 calls, limit 2 per response | outputs before answer, complete means answered, cancel hits the loop only, the turn ends |
| `relay_dup` | the same, no fairness | **violation**: two `response.create` for a round |
| `eufy` | 3 clips, ring of 2, a test clip, 1 request, LRU of 1, 1 fault at a time (manifest unwritten, or a file not removed) | the copies agree; only failed unlinks leave media; nobody waits in vain |
| `feed` | 1 kiosk, 2 connections, 2 changes, 1 break or restart, 1 GET and 1 answer at a time | nothing falls between greeting and broadcast; told in the end; dead sockets forgotten |
| `feed_stale` | the same, no fairness | **violation**: a late GET answer is rendered over a newer push |
| `voice` | gate: 3 commands, 2 breaks; grants: 2 requests over 2 days, one kiosk with one timezone, one with two; turns: 2 kiosks with 2 + 1 turns of a frame; words: see below; speaker: buffer of 2, 1 failure, 2 sheds | commands arrive once and in order; a grant is current; a transcript is of its own turn; a turn ends; days as said; never a guess; hearing better never hurts; the screen is not mute when the speaker is known to be |
| `household` | 2 kiosks, 3 names of which 2 alike, 2 items; 3 notes; 2 observers, 3 captures; 2 accounts, 2 device flows, 1 refreshing request; 2 mailboxes | boards in order; nobody taken for gone, and the camera recovers; sign-in holds; every event once |

Why these bounds are enough. *Timers*: a second id is what a replacement needs and a second task slot
lets the old task be unwinding while the new one sleeps; the clock runs past the shortest timer and
extensions reach the cap. *Display*: every hazard is between two calls and a thread; a third call adds
no new pair. *Privacy*: the clock is long enough for three lock-outs, so doubling and the cap both
occur. *Relay*: with three calls and a limit of two there are rounds of one and two, a second round,
and a looping response. *Eufy*: with three clips and two places every discovery evicts and an evicted
clip returns; one request is overtaken by all of it; thumbnails to be fetched ahead are kept to one by a
constraint, since several differ only in which is fetched first. *Feed*: two connections let the kiosk
be back before the backend notices that it was gone; two changes are what overtaking needs.

*Voice*: the words are asked about on every day from Christmas to Epiphany, the end of February in a
leap year, and the ends of a long and a short month, with every marker word alone, every two that name a
period, every weekday and number, a number of days past the last of the calendar, and a sample of month
names; clock times at five moments of a day, each with and without am/pm; every pair of intents; names
and events with scores on both sides of every threshold and margin. Two days and a stamp in each are
what a midnight between mint and use needs; a third turn is what an earlier turn's audio needs to be
heard again. The buffer overflows a second time while the reporter rests. *Household*: two items and two
alike names give every case of add, undo and rename; one failed write and a restart let file and memory
differ; three captures let the watchdog release a newer one than it decided about; two accounts let a
refresh of one meet the sign-in of the other. The lock moves in the parts where people come back to
something (list, notes); elsewhere it is fixed at either value, or off.

Deadlock is checked except where the system really stops: after the shutdown (`display`), after the end
of a turn (`relay`), and when the bounded changes, turns or breaks are used up (`feed`, `voice`,
`household`).

### Fairness
* `timers`: weak fairness of `Wake` and `Unwind`: the loop runs every ready task. Ticks are not fair:
  time may stop, and the promise is only that a *due* timer rings.
* `relay`: weak fairness of each pump's own continuations, of the provider reading and finishing, and
  of tools settling (`useVoiceSession.ts` answers a failed tool as well). Strong fairness of receiving
  each frame, because the pump's other frames may come first; audio is unbounded but frames are read in
  order.
* `feed`: weak fairness of what the loop and the browser's own timers do. Nothing is assumed of HTTP,
  of changes or of breaks, which the bounds end.
* `voice`: weak fairness of each kiosk's `Pipeline`: the receive loop and its worker threads go on. No
  kiosk has to send, answer or close anything.
* `household`: weak fairness of the camera's clock, reader and watchdog. The device owes nothing.
* The other runs check safety only.

## 4. Proofs

Every theorem is about a specification as the runs check it, for all values of its constants that
satisfy the assumption named in its module. No invariant below is inductive by itself; the paragraphs
say what had to be added, and why.

`TimersProofs` (any ids, task slots, caps, tick length, clock steps).
* `TypeCorrect`, `OneTimer` (at most one timer; no run checks it by itself), `EveryTimerArmed`: from
  `StoreInv`. That a create leaves no task of another timer behind needs that there is at most one
  timer; that a woken task finds its own timer needs that every sleeping task is the registered one.
  Lemmas `Arming`, `Disarming` and `Rearming` say once what those helpers do to tasks and sleepers.
* `NoHandlerFailsHalfway`: every timer a handler builds passes the model's validator. `RoundClose`
  bounds the rounding error by half a second; the rest is an inequality for each operation.
* `AlwaysRingsAtZero` adds that the two clocks agree until one is stepped (`RingsInv`).
* `KeepsThePromise`: `Timers` implements `KitchenTimer`, as far as safety goes. The initial states map
  to initial ones (`PromiseBegins`); each step is a step of the kitchen timer or a stutter
  (`PromiseActions`), where the mapping is computed for a store with one timer, with none, and with one
  that rings (`FacesShown` and its siblings).

`PrivacyProofs` (any grace period, cooldowns, cap, attempts and clock steps).
* `TypeCorrect`, `PowerCycleKeepsLock`, and the action property `NoOtherWayOut`, from
  `PrivacyInvAlways`. A restart takes the state from the file: the invariant adds that the file is well
  formed and that neither stamp, in memory or in the file, is later than the entry, without which the
  undo window of the wall clock would say nothing about elapsed time.
* `GuessingAlwaysSlow`: the sum of the first cooldowns is a recursive function; that it exists is proved
  by induction over sets of numbers (from well-foundedness). The invariant counts wrong PINs as full
  rounds and a rest, and says that the present cooldown is the one of the last full round.

`DisplayProofs` (any number of concurrent calls, any levels, any errors).
* `DisplayTypeCorrect`, `CountdownHolds`, `StoreIsHonest`: from `DisplayBase`. Outside doubt at most one
  thread is on its way to the panel, so that there is one level the panel is *heading for*.
* `AlwaysHandedBack`: a panel in front of somebody is not left at the idle level, on the condition
  `IdleIsApart`: the idle level is no level people choose, not the restore level, and not the night level
  of another. `DefaultsKeepApart` shows that the default configuration (idle at 0) satisfies it, and
  without it the property is not even meaningful: the idle level would be somebody's choice.

`LiveFeedProofs` (any kiosks, connections, changes, breaks): `FeedTypeCorrect`, `NoChangeMissed`. A
broadcast works on a copy of the registry, so what must be kept is that a served connection was in it
when the store changed (`Registered`), and that the present version is delivered, on the wire, or still
to be sent by the latest broadcast (`NothingMissed`).

`VoiceRelayProofs` (any calls, any limit): `RelayTypeCorrect`, `AnswerHasItsOutputs`, `CompleteIsTheEnd`,
`OnlyLoopsAreBroken`. A turn is in exactly one place (`OneTurn`), and an output is on the wire before the
request that needs it (`Covered`, `CreatesLast`, `NothingBehind`); what holds regardless of the finding
`relay_dup` is kept apart (`Always`) from what holds up to it (`Orderly`).

`EufyGalleryProofs` (any clips, ring, cache and requests): `GalleryTypeCorrect`, `NoClipTwice`,
`RestartShowsTheSame`, `DirectoryBounded`, `NobodyIsForgotten`. Pinned clips and ring, cut to their
capacities, have each clip once: lemmas about sifting, cutting and joining sequences, by induction on
their length. The service evicts by its ring and the cache by its own list; that they drop the same clip
needs that they are equal before, as sequences. `DirectoryBounded` counts what failing unlinks leave: a
file is of a clip in the cache's list, or of one that left it with a failed unlink and has not come back.

`VoiceProofs` (any commands, breaks, kiosks, turns, requests, days).
* `CommandsAlwaysArrive`: what is in an earlier queue is newer than all that is in a later one.
* `SpeakerIsAlwaysHeard`: what the kiosk was told last is on its way or equals the counters.
* `AlwaysHeardItself`: a kiosk whose turn shared its recogniser with nobody is alone in it.
* `GrantIsAlwaysCurrent`: a token ends at its horizon, so that what is served from the cache is as good
  as what is minted.
* `VoiceTyped`: the types of all parts. Each part's invariant is about order and ownership; bounds of
  queues, counters and states stand beside it (`WakeBounds`, `SpeakerLinks`, `LocalBounds`), and need that
  no plan has more than two calls. `interpret()` ends in one of its five ways (`DecideEnds`).

Three theorems are about what `interpret()` computes. All that changes over time is which transcript is
being answered, so that their only inductive fact is `WordsInv`: the last answer is `Decide` of what was
asked. The rest is about operators, for any words, scores, people, events and days.
* `HearingBetterIsSafe`: a plan's confidence grows with the recogniser's factor, list by list and timer by
  timer (`PenaltyGrows`, `PlanSurer`), and the thresholds are compared with nothing else.
* `NothingIsGuessed`: the leading candidate is one that no other comes within the margin of
  (`MatchIsClear`, `PersonIsClear`, `EventIsClear`), and every plan that names one takes that (`PlanIsSure`).
* `DatesAreAsSaid`: first that years and months follow each other without a gap, so that a day has exactly
  one year, month and place in it (`YearIs`, `MonthIs`, `Parts`), and leap years fall into place; then, rule
  by rule, that what is found is what was named: the first such day of the month to come (`FirstToCome`), a
  named month's no further back than half a year (`OfTheMonth`), the nearest weekday, the weekend's two
  days, all of a week or a month (`OneDayMeant`, `WeekMeant`, `MonthMeant`); then the clock (`ClockMeant`);
  then that the view is of all of the days (`QuerySees`, `ShowSees`).

`HouseholdProofs` (any household).
* `BoardsAlwaysInOrder`: restoring, clearing and reordering pick from a list without repeating
  (`Picks`), which keeps what is true of every two items; levels of notes are counted anew in their
  order. The file satisfies what memory does, since a restart loads it.
* `SignInAlwaysHolds`: until two saves overlap, the tokens are in memory and in the file, or on their
  way through the one thread that saves (`Settled`, `Carried`), or the file was not to be written
  (`Resting`). A save that is skipped is right because every token is new and because what was last written
  is what the file holds, or there is no file (`Marked`): a failed save marks nothing as written.
* `EventsAlwaysOnce`: every event of a snapshot comes from a default or an extra calendar of a member
  (`Sourced`), and an event has one such source where owners are reported.
* `NobodyEverTakenForGone`: unless a signal was late, the last one is the latest, and an absence does
  not begin before the last sign of somebody (`LastIsLatest`).
* `HouseholdWellTyped`: the type invariant, with what is not obvious in it: one token per account, one
  code on the screen, a working capture in the watchdog's reach (`InReach`), a free level for a note.

The assumptions are types, `0 < MinSeconds <= MaxSeconds`, capacities of at least one, distinct "none"
values, finite sets of flows, kiosks and calls; `GalleryAssumption`, that injected clips are not
discovered ones; `SignInAssumption`, that a device flow is not a request that refreshes; and
`CalendarsAssumption`, what Microsoft Graph reports: an event that two calendars bring has one owner.

`VoiceAssumption` is about what is said: regular expressions and matchers return what they can return
(`WellFormed`: triggers an intent has, scores in thousandths, table numbers, minutes of the hour), and it is
said at least two years from either end of the calendar of `datetime` (the years 1 and 9999), where
`date()` itself fails.
`InterpreterAssumption` says that events are numbered.

**Only model-checked:** liveness and fairness (the alarm rings, the turn ends, the screens are told, the
camera recovers, the liveness of `KitchenTimer`), which are out of the prover's reach. Every invariant and
every step property of a passing run is the statement of a theorem.

## 5. What the runs found

1. *A signal during the idle dim is lost* (`display_signal`). The signal cancels the countdown task while
   its worker thread is on its way to the panel, and restores. In the trace the restore takes the panel
   from 100 to 80, and then the dim's thread takes it to 20. The store says 80, `_dimmed` is false and
   nothing is under way, so that a later signal does not restore the panel either. (Had the panel been
   at its reference, the restore would have been skipped, with the same end.)
2. *Locked without a PIN* (`privacy_pin`). The lock is restored from disk whether or not a PIN is still
   configured; then no PIN is accepted.
3. *Two answer requests for one round* (`relay_dup`). `follow_up_ready()` is read before the await that
   sends and the round is cleared after it.
4. *A kiosk keeps a stale state* (`feed_stale`). An HTTP answer computed before a change is rendered
   after the push of the change, and nothing corrects it until the next change or reconnect.

Noticed while reading and modelling, without a run of its own. Where a property would fail on one of
these, it names the case as an exception.

*Timers, gallery.* Pausing a timer with less than five seconds left gains time (`Hold` allows it). A
graceful close by the Eufy bridge leaves the gallery "connected". A request on a socket that just broke
fails with another exception than the API handles. Media that could not be removed, and temporary files of
failed writes, stay until the sweep of the next start, which may fail to remove them again.

*Privacy.* `_load` does not catch the `AttributeError` of a file that is valid JSON but no object, and the
backend does not start.

*Boards.* A reorder request that names an id twice doubles its item; no kiosk sends one. An undo that the
privacy lock refuses loses the offer. An undo, or a rename (which no client does today), may put a name on
the list twice.

*Presence.* With today's sources `present` never becomes false again. `stop()` of a camera with a blocked
`read()` leaves a thread that later sets the status. The watchdog may release a newer, healthy capture
than the one it decided about.

*Calendars.* `is_foreign_calendar` hides every calendar owned outside the household, although
`secondary.py:5-9` and `models.py:50` speak of shared (team) calendars that are listed. One expired
account, or one failed extra calendar, fails the whole snapshot. A failed colour request is cached for
ten minutes. A profile whose names are empty replaces the name that was known. An event without a start or
end raises before `_map_event`'s `try` (`graph.py:289-295`) and takes down the whole snapshot, which "one
malformed event" must never do (`graph.py:287-288`). Overlapping saves of the token cache lose accounts; the
second finds no temporary file and the flow shows an error for a sign-in that succeeded. After a save that
failed, an account that was signed in is gone at the next restart, unless a later refresh saves it; after
an unlink that failed, the accounts that were signed out are back at the next restart. A cache file that
cannot be parsed makes every request of the calendar and the sign-in raise.

*Interpreter.* "February 29" a year on and a minute of 60 to 99 raise `ValueError` uncaught, which drops
the connection of the turn. "Noon" may be in the past; "3 o'clock" is always am; "the 31st" in a shorter
month becomes this evening; "the third of June" is the whole of June. People nobody could resolve drop out
of a filter silently; a timer before an ambiguous event, and opening an event of an ambiguous person, act
without asking. An alarm more than six hours away is not refused like a timer of that length.

*Local voice.* The receive loop waits for tool results only it could read, so that the wait always lasts
its four seconds. The kiosk never sends the `timer-state` the pipeline handles. Two kiosks speaking at
once mix their audio in one recogniser; two first turns may each build one.

*Speaker device.* The kiosk answers "gate link down" with a new socket, which discards the queue that
`wake_invoke.py` keeps for a brief reconnect; `gate_enabled off` can be lost with a link and leave the
device gated. The gate's connection has no keepalive: a device that lost power is noticed when the next
command is written. A speaker that closes while no audio plays is noticed after the next audio, which is
lost. `wait_closed()` after a stalled send has no time-out, and the link counts as up meanwhile.

*Kiosk.* A provider's `close()` leaves its handlers attached and `handleEvent` is tied to no session: an
old socket's close event may end a new turn. A turn torn down while its microphone was starting goes on
without a session. A gated detector whose base fails to start leaks its socket. The suspend effect skips
a detector that is still starting. A double tap while a dictation begins starts two recordings, and a
streaming dictation whose socket fails first leaks the microphone.

## 6. Not modelled, and why

* *Voice providers, prompt, tool schemas, tracing*: requests and texts without state.
* *Configuration and models*: parsing and validation; the validators that matter are in the modules of
  their stores.
* *Audio and images*: recognition, keyword detection, encoders, drift slip, mixing and frame comparison
  are numeric; the models say what they decide.
* *Regular expressions and fuzzy matching* of the interpreter: their verdicts and scores are inputs, and
  marker words are written with underscores (`"next_week"`).
* *What a view draws*: `Shown` is the days a view is of. That the kiosk cuts a month at some rows, or lets a
  week begin on a Sunday, is its own affair. `DatesAsSaid` asks of a view that it is of all days that were
  said; it asks nothing where two periods are said in one breath ("the week next month", `TwoPeriods`), of
  which the view takes one and the day the other, or a view is named outright.
* *Kiosk screens*: rendering.
* *Kiosk voice session, kiosk audio, wake-word hook, note dictation, Eufy bridge (both sides)*: stateful and
  worth a model; left for the plan.
* *Recorded mailboxes and the mock provider* of the calendar: fixed data.

`PROJECT.json` lists each under `components`, and the hazards that no property covers with the reason.

## 7. Plan

1. `VoiceSession`: the kiosk's session with watchdog, late tools and providers whose events outlive their
   session; then `WakeDetector`, the detector's life cycle with its gate socket, composed with
   `WakeBridge` over "the assistant's speech never wakes it".
2. `Dictation`: a microphone released exactly once.
3. `EufyBridge`: discovery, coalesced polls and downloads on the sidecar, composed with the connection
   half of `EufyGallery`; no clip lost.
4. Liveness of the device bridges: a broken link is told in the end. Model-checked once by itself, it is
   too slow beside the other scenes of `voice`.
5. Proofs: whatever the modules above promise.
