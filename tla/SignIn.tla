------------------------------- MODULE SignIn -------------------------------
(***************************************************************************)
(* Signing in to the personal Outlook calendars (personal_auth.py), and    *)
(* the MSAL token cache shared by every request, the device-flow threads   *)
(* and the calendar provider (outlook_personal.py): the tokens in memory,  *)
(* the file they are saved to, and the time of the file, by which a        *)
(* request notices that somebody else has written it.                      *)
(*                                                                         *)
(* Handlers run on threads of a pool; a device flow polls on a thread of   *)
(* its own, which nothing stops.  A token is a pair of an account and the  *)
(* number of the sign-in or refresh that obtained it.  Writing, replacing  *)
(* and removing the file may fail, at any time.  What the status reports   *)
(* of that is left out.                                                    *)
(***************************************************************************)
EXTENDS Gates, Integers, FiniteSets

CONSTANTS Accounts,  \* the household's Microsoft accounts
          Flows,     \* device flows, one thread each, that ever begin
          Pollers,   \* threads that load the calendar, which refreshes tokens
          MaxTokens  \* bound on the tokens obtained

ASSUME SignInAssumption == IsFiniteSet(Flows) /\ Flows \cap Pollers = {}

Threads == Flows \cup Pollers
Absent == {<<>>}      \* no file, or nothing written: no cache is that
Torn == {<<"torn">>}  \* a file that was written in part and cannot be read

VARIABLES
  memory,    \* the shared cache: a set of tokens, one per account
  file,      \* what the cache file holds, or Absent, or Torn
  seen,      \* the time in the _shared entry: of "this" file, of an "old" one, or "none"
  written,   \* _written: what this process last saved, or Absent
  tmp,       \* the temporary file all saves go through, or Absent, or Torn
  pending,   \* _pending: the flow whose code is shown, if any, and not expired
  thread,    \* each flow and poller: what it is doing and what it has read
  begins,    \* begin_sign_in requests past the check for a pending flow
  leaving,   \* a sign_out between the accounts and the file
  tokens,    \* the tokens obtained so far
  wanted,    \* the accounts people have signed in and not out (history)
  overlapped,\* saves or sign-outs have overlapped since the start, or left a
             \* torn file to it (history); bound: from then on only what is
             \* under way goes on
  unsaved    \* the file could not be replaced or removed when it was last to
             \* be (history)

signInVars == <<memory, file, seen, written, tmp, pending,
                thread, begins, leaving, tokens, wanted, overlapped, unsaved>>
cacheVars == <<file, written, tmp>>
historyVars == <<tokens, wanted, overlapped, unsaved>>

Free == [at |-> "free", data |-> {}]
Ended == [at |-> "ended", data |-> {}]
AccountsOf(some) == {t[1] : t \in some}
OnDisk == IF file \in {Absent, Torn} THEN {} ELSE file

SignInInit ==
  /\ memory = {} /\ file = Absent /\ seen = "none"
  /\ written = Absent /\ tmp = Absent
  /\ pending = {}
  /\ thread = [t \in Threads |-> Free]
  /\ begins = 0 /\ leaving = FALSE
  /\ tokens = 0 /\ wanted = {} /\ overlapped = FALSE /\ unsaved = FALSE

-----------------------------------------------------------------------------
\* shared_msal_app: the cache as the caller finds it.  Every handler starts
\* and ends (with _status) by looking; a torn file makes it raise.
Differs == IF file = Absent THEN seen # "none" ELSE seen # "this"
Synced == IF Differs THEN OnDisk ELSE memory
Present == IF file = Absent THEN "none" ELSE "this"
Look == IF Differs /\ file # Torn THEN memory' = OnDisk /\ seen' = Present
        ELSE UNCHANGED <<memory, seen>>
Aged == seen' = IF seen = "this" THEN "old" ELSE seen

Saving(t) == thread[t].at \in {"serialize", "write", "replace", "touch"}
Overlaps(t) == leaving \/ \E u \in Threads \ {t} : Saving(u)

\* GET /calendar/auth.
Status ==
  /\ Differs /\ Look
  /\ UNCHANGED <<cacheVars, pending, thread, begins, leaving, historyVars>>

Unused == {f \in Flows : thread[f].at = "free"}

\* begin_sign_in: the check, then, with no lock held, the request for a code.
BeginChecks ==
  /\ RequireUnlocked /\ ~overlapped /\ pending = {} /\ begins < Cardinality(Unused)
  /\ begins' = begins + 1
  /\ Look
  /\ UNCHANGED <<cacheVars, pending, thread, leaving, historyVars>>

BeginInstalls ==
  /\ begins > 0 /\ begins' = begins - 1
  /\ \/ LET f == CHOOSE f \in Unused : TRUE
        IN pending' = {f} /\ thread' = [thread EXCEPT ![f].at = "polling"]
     \/ pending' = {} /\ UNCHANGED thread
  /\ Look
  /\ UNCHANGED <<cacheVars, leaving, historyVars>>

\* The code that is shown is too old; its flow ends by itself later.
Expires ==
  /\ pending # {} /\ pending' = {}
  /\ UNCHANGED <<memory, seen, cacheVars, thread, begins, leaving,
                 historyVars>>

Cancel ==
  /\ RequireUnlocked /\ pending # {}
  /\ pending' = {} /\ Look
  /\ UNCHANGED <<cacheVars, thread, begins, leaving, historyVars>>

\* _complete: the flow ends without a token, or with one, which MSAL puts in
\* the shared cache; then save_cache runs.
FlowFails(f) ==
  /\ thread[f].at = "polling"
  /\ thread' = [thread EXCEPT ![f].at = "clear"]
  /\ UNCHANGED <<memory, seen, cacheVars, pending, begins, leaving, historyVars>>

FlowSucceeds(f, account) ==
  /\ thread[f].at = "polling" /\ tokens < MaxTokens
  /\ tokens' = tokens + 1
  /\ memory' = {t \in memory : t[1] # account} \cup {<<account, tokens + 1>>}
  /\ thread' = [thread EXCEPT ![f].at = "serialize"]
  /\ overlapped' = (overlapped \/ Overlaps(f))
  /\ wanted' = wanted \cup {account}
  /\ UNCHANGED <<seen, cacheVars, pending, begins, leaving, unsaved>>

\* The finally clause clears whatever code is shown, not only its own.
\* Mutant: the code stays.
CodeStays == UNCHANGED pending

CodeCleared == pending' = {}

FlowEnds(f) ==
  /\ thread[f].at = "clear"
  /\ CodeCleared
  /\ thread' = [thread EXCEPT ![f].at = "ended"]
  /\ UNCHANGED <<memory, seen, cacheVars, begins, leaving, historyVars>>

\* _acquire_token_silent, for an account that is present: Microsoft refreshes
\* the token, finds it good, or has revoked it.  A refresh adds no account.
Refresh(p) ==
  /\ thread[p].at = "free" /\ ~overlapped
  /\ Look
  /\ Synced # {} /\ thread' = [thread EXCEPT ![p].at = "asking"]
  /\ UNCHANGED <<cacheVars, pending, begins, leaving, historyVars>>

Refreshed(p) ==
  /\ thread[p].at = "asking"
  /\ \/ /\ tokens < MaxTokens /\ tokens' = tokens + 1
        /\ \E t \in memory : memory' = (memory \ {t}) \cup {<<t[1], tokens + 1>>}
     \/ UNCHANGED <<memory, tokens>>
  /\ thread' = [thread EXCEPT ![p].at = "serialize"]
  /\ overlapped' = (overlapped \/ Overlaps(p))
  /\ UNCHANGED <<seen, cacheVars, pending, begins, leaving, wanted, unsaved>>

-----------------------------------------------------------------------------
\* save_cache, which holds no lock: serialize; unless that is what was last
\* written, write the temporary file, replace the cache file with it, and
\* remember both.  Of two at once the second finds no temporary file.  An
\* error ends the save: of a flow in _complete, of a refresh as its own.
After(t) == IF t \in Flows THEN "clear" ELSE "free"
Done(t) == thread' = [thread EXCEPT ![t] = [at |-> After(t), data |-> {}]]
SaveFails(t) == Done(t) /\ unsaved' = TRUE

\* Mutant: remembered as written before it is.
SerializeMarks(t) ==
  /\ thread[t].at = "serialize"
  /\ \/ written = memory /\ Done(t)
     \/ /\ written # memory
        /\ thread' = [thread EXCEPT ![t] = [at |-> "write", data |-> memory]]
  /\ written' = memory
  /\ UNCHANGED <<memory, seen, file, tmp, pending, begins, leaving, historyVars>>

Serialize(t) ==
  /\ thread[t].at = "serialize"
  /\ \/ written = memory /\ Done(t)
     \/ /\ written # memory
        /\ thread' = [thread EXCEPT ![t] = [at |-> "write", data |-> memory]]
  /\ UNCHANGED <<memory, seen, cacheVars, pending, begins, leaving, historyVars>>

\* An error leaves the temporary file as it was, empty or torn.
WriteTmp(t) ==
  /\ thread[t].at = "write"
  /\ \/ /\ tmp' = thread[t].data
        /\ thread' = [thread EXCEPT ![t].at = "replace"]
        /\ UNCHANGED unsaved
     \/ tmp' \in {tmp, {}, Torn} /\ SaveFails(t)
  /\ UNCHANGED <<memory, seen, file, written, pending, begins, leaving,
                 tokens, wanted, overlapped>>

Replace(t) ==
  /\ thread[t].at = "replace"
  /\ \/ /\ tmp # Absent
        /\ file' = tmp /\ tmp' = Absent /\ Aged
        /\ thread' = [thread EXCEPT ![t].at = "touch"]
        /\ unsaved' = FALSE
     \/ SaveFails(t) /\ UNCHANGED <<file, tmp, seen>>
  /\ UNCHANGED <<memory, written, pending, begins, leaving, tokens, wanted, overlapped>>

Touch(t) ==
  /\ thread[t].at = "touch"
  /\ written' = thread[t].data
  /\ seen' = IF file = Absent THEN seen ELSE "this"
  /\ Done(t)
  /\ UNCHANGED <<memory, file, tmp, pending, begins, leaving, historyVars>>

-----------------------------------------------------------------------------
\* sign_out: the accounts are removed from memory, then the file is removed;
\* _written is left as it is.  An unlink that raises ends it there.
SignOut ==
  /\ RequireUnlocked /\ ~leaving /\ ~overlapped
  /\ leaving' = TRUE
  /\ memory' = {} /\ seen' = Present
  /\ wanted' = {}
  /\ overlapped' = (overlapped \/ \E t \in Threads : Saving(t))
  /\ UNCHANGED <<cacheVars, pending, thread, begins, tokens, unsaved>>

FileRemoved == file' = Absent

SignedOut ==
  /\ leaving /\ leaving' = FALSE
  /\ \/ /\ FileRemoved /\ unsaved' = FALSE
        /\ memory' = (IF seen = "none" THEN memory ELSE {}) /\ seen' = "none"
        /\ pending' = {}
     \/ unsaved' = TRUE /\ UNCHANGED <<memory, file, seen, pending>>
  /\ UNCHANGED <<written, tmp, thread, begins, tokens, wanted, overlapped>>

\* The backend stops between any two steps and starts from the file; while it
\* is torn, every request raises.
RestartSignIn ==
  /\ memory' = OnDisk /\ seen' = IF file = Torn THEN "none" ELSE Present
  /\ written' = Absent
  /\ pending' = {}
  /\ thread' = [t \in Threads |-> IF t \in Flows /\ thread[t].at # "free" THEN Ended ELSE Free]
  /\ begins' = 0 /\ leaving' = FALSE
  /\ wanted' = AccountsOf(OnDisk) /\ overlapped' = (file = Torn) /\ unsaved' = FALSE
  /\ UNCHANGED <<file, tmp, tokens>>

SignInNext ==
  \/ Status \/ BeginChecks \/ BeginInstalls \/ Expires \/ Cancel \/ SignOut \/ SignedOut \/ RestartSignIn
  \/ \E f \in Flows : FlowFails(f) \/ FlowEnds(f) \/ \E a \in Accounts : FlowSucceeds(f, a)
  \/ \E p \in Pollers : Refresh(p) \/ Refreshed(p)
  \/ \E t \in Threads : Serialize(t) \/ WriteTmp(t) \/ Replace(t) \/ Touch(t)

-----------------------------------------------------------------------------
SignInTypeOK ==
  /\ \A s, t \in memory : s[1] = t[1] => s = t
  /\ seen \in {"this", "old", "none"} /\ (file = Absent => seen # "this")
  /\ pending \subseteq Flows /\ Cardinality(pending) <= 1

\* A code that is shown is one that somebody still waits for: its flow has
\* not ended.  When nothing is under way, and unless two saves, or a save and a
\* sign-out, overlapped: those who have signed in and not out are in memory;
\* they are in the file too, so that a restart changes nothing, unless it could
\* not be replaced or removed when it was last to be; and what is not in the
\* file is not taken for written, so that the next refresh saves it.
SignInHolds ==
  /\ \A f \in pending : thread[f].at \notin {"free", "ended"}
  /\ ~overlapped /\ ~leaving /\ (\A t \in Threads : ~Saving(t)) =>
       /\ AccountsOf(Synced) = wanted
       /\ ~unsaved => AccountsOf(OnDisk) = wanted
       /\ written = Synced => OnDisk = Synced
=============================================================================
