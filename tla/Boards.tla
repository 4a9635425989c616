------------------------------- MODULE Boards -------------------------------
(***************************************************************************)
(* The shopping list (lists.py, with the Undo of the kiosks' App.tsx) and  *)
(* the notes board (notes.py).  Both stores change memory, then write the  *)
(* whole of it to a file, best effort, before their handler first awaits,  *)
(* so a request is one step.  What is slow is the people: a kiosk offers   *)
(* to undo a clear long after other kiosks, and voices, have gone on.      *)
(*                                                                         *)
(* Names are compared by Key (lists._normalize: case, spaces and a plural  *)
(* s do not count).  Ids are never used twice (uuid4).                     *)
(***************************************************************************)
EXTENDS Gates, Sifting, Integers, Sequences, FiniteSets, SequencesExt, Functions

CONSTANTS Screens,    \* how many kiosks there are
          Key,        \* what _normalize makes of each name that is used
          Renames,    \* the names a PATCH may give an item
          RecentMax,  \* lists_recent_items_max
          NotesMax,   \* NOTES_MAX
          MaxFailures,\* bound on the writes of lists_file that fail
          MaxItems,   \* bound on the items ever made
          NoteIds,    \* the ids a note may get; an id is free once nothing holds it
          MaxTouches  \* bound on the changes to notes

ASSUME BoardsAssumption ==
  /\ RecentMax \in Nat \ {0} /\ NotesMax \in Nat \ {0} /\ Screens \in Nat
  /\ MaxItems \in Nat /\ Renames \subseteq DOMAIN Key

VARIABLES
  items,     \* GroceryList.items
  recent,    \* GroceryList.recent_names
  listFile,  \* what lists_file holds of the two
  failures,  \* the writes of it that failed
  removed,   \* what the last clear that took something took
  offers,    \* how many kiosks still show its Undo
  madeItems, \* the items made so far; their ids are 1 .. madeItems
  sameName,  \* a rename or an undo has put a name on the list twice
  notes,     \* _notes, by id; touched says when each was last changed
  nextZ,     \* _next_z
  notesFile, \* what notes_file holds
  touches    \* the changes to notes so far

listVars == <<items, recent, listFile, failures, removed, offers, madeItems, sameName>>
noteVars == <<notes, nextZ, notesFile, touches>>

Names == DOMAIN Key
Item(id, name) == [id |-> id, name |-> name, checked |-> FALSE]
Ids(seq) == {seq[i].id : i \in DOMAIN seq}
Alike(seq) == \E i, j \in DOMAIN seq : i # j /\ Key[seq[i].name] = Key[seq[j].name]
Positions(seq, id) == {i \in DOMAIN seq : seq[i].id = id}

BoardsInit ==
  /\ items = <<>> /\ recent = <<>>
  /\ listFile = [items |-> <<>>, recent |-> <<>>]
  /\ failures = 0 /\ removed = <<>> /\ offers = 0
  /\ madeItems = 0 /\ sameName = FALSE
  /\ notes = <<>> /\ nextZ = 1 /\ notesFile = <<>> /\ touches = 0

-----------------------------------------------------------------------------
\* ListStore._persist: best effort, the file keeps what it held when it fails.
PersistList ==
  \/ listFile' = [items |-> items', recent |-> recent'] /\ UNCHANGED failures
  \/ /\ failures < MaxFailures /\ failures' = failures + 1
     /\ UNCHANGED listFile

Remember(names, name) ==
  LET kept == Sift(names, {n \in Names : Key[n] # Key[name]})
      all == <<name>> \o kept
  IN SubSeq(all, 1, IF Len(all) < RecentMax THEN Len(all) ELSE RecentMax)

\* ListStore._find: the first item of that name.
Find(seq, name) == SelectInSeq(seq, LAMBDA i : Key[i.name] = Key[name])

\* add_items, one name: already there, put back on when it was checked off,
\* or a new item; each of the latter two at the front.
AddItem(name) ==
  LET at == Find(items, name)
  IN /\ RequireUnlocked
     /\ \/ /\ at # 0 /\ ~items[at].checked
           /\ UNCHANGED <<items, recent, madeItems>>
        \/ /\ at # 0 /\ items[at].checked
           /\ items' = <<[items[at] EXCEPT !.checked = FALSE]>> \o RemoveAt(items, at)
           /\ recent' = Remember(recent, name)
           /\ UNCHANGED madeItems
        \/ /\ at = 0 /\ madeItems < MaxItems
           /\ items' = <<Item(madeItems + 1, name)>> \o items
           /\ madeItems' = madeItems + 1
           /\ recent' = Remember(recent, name)
     /\ UNCHANGED <<removed, offers, sameName>>
     /\ PersistList

\* update_item: a toggle or a rename; nothing looks for the name elsewhere.
UpdateItem(id) ==
  /\ RequireUnlocked
  /\ \E i \in Positions(items, id) :
       \/ items' = [items EXCEPT ![i].checked = ~@]
       \/ \E name \in Renames : items' = [items EXCEPT ![i].name = name]
  /\ sameName' = (sameName \/ Alike(items'))
  /\ UNCHANGED <<recent, removed, offers, madeItems>>
  /\ PersistList

RemoveItem(id) ==
  /\ RequireUnlocked
  /\ \E i \in Positions(items, id) : items' = RemoveAt(items, i)
  /\ UNCHANGED <<recent, removed, offers, madeItems, sameName>>
  /\ PersistList

Offered(taken) == IF offers' = 0 THEN <<>> ELSE taken

\* clear(scope): the broadcast offers the undo on the kiosks it reaches; on
\* the others the Undo of an earlier clear is taken to have gone.
Clear(scope) ==
  LET going == {i \in ToSet(items) : scope = "all" \/ i.checked}
      taken == Sift(items, going)
  IN /\ RequireUnlocked
     /\ items' = Sift(items, ToSet(items) \ going)
     /\ \/ taken = <<>> /\ UNCHANGED <<removed, offers>>
        \/ taken # <<>> /\ offers' \in 0 .. Screens /\ removed' = Offered(taken)
     /\ UNCHANGED <<recent, madeItems, sameName>>
     /\ PersistList

\* Undo on a kiosk: restore prepends what is not on the list by its id.
\* Mutant: whatever was removed is put back.
RestoreAll(taken, seq) == taken \o seq

Lacking(taken, seq) == {i \in ToSet(taken) : i.id \notin Ids(seq)}
Restore(taken, seq) == Sift(taken, Lacking(taken, seq)) \o seq

\* The offer goes although a locked backend has refused it.
Undo ==
  /\ offers > 0
  /\ offers' = offers - 1 /\ removed' = Offered(removed)
  /\ UNCHANGED <<recent, madeItems>>
  /\ \/ /\ RequireUnlocked
        /\ items' = Restore(removed, items)
        /\ sameName' = (sameName \/ Alike(items'))
        /\ PersistList
     \/ ~RequireUnlocked /\ UNCHANGED <<items, listFile, failures, sameName>>

\* The Undo goes by itself after eight seconds, or is dismissed.
OfferEnds ==
  /\ offers > 0
  /\ offers' = offers - 1 /\ removed' = Offered(removed)
  /\ UNCHANGED <<items, recent, listFile, failures, madeItems, sameName>>

\* reorder: the ids a kiosk saw when its drag began, of one section; items
\* that are gone are skipped, items that are not named follow.  An id that is
\* named twice, which no kiosk sends, would double its item: left out.
Reorder(ids) ==
  LET present == Sift(ids, Ids(items))
      named == [n \in DOMAIN present |-> items[CHOOSE i \in Positions(items, present[n]) : TRUE]]
      reordered == named \o Sift(items, Lacking(items, named))
  IN /\ RequireUnlocked
     /\ reordered # items
     /\ items' = reordered
     /\ UNCHANGED <<recent, removed, offers, madeItems, sameName>>
     /\ PersistList

\* _load at the next start; kiosks keep their screens.
RestartList ==
  /\ items' = listFile.items /\ recent' = listFile.recent
  /\ UNCHANGED <<listFile, failures, removed, offers, madeItems, sameName>>

Drags == UNION {{ids \in [1 .. n -> 1 .. MaxItems] : IsInjective(ids)} : n \in 1 .. MaxItems}

ListNext ==
  \/ \E name \in Names : AddItem(name)
  \/ \E id \in 1 .. madeItems : UpdateItem(id) \/ RemoveItem(id)
  \/ \E scope \in {"checked", "all"} : Clear(scope)
  \/ Undo \/ OfferEnds
  \/ \E ids \in Drags : Reorder(ids)
  \/ RestartList

-----------------------------------------------------------------------------
PersistNotes == notesFile' = notes' \/ notesFile' = notesFile

\* A note changed now lies on top of the others.
OnTop == [z |-> nextZ, touched |-> touches + 1]

CreateNote(id) ==
  /\ RequireUnlocked
  /\ touches < MaxTouches
  /\ Cardinality(DOMAIN notes) < NotesMax
  /\ id \notin DOMAIN notes \cup DOMAIN notesFile
  /\ notes' = [n \in DOMAIN notes \cup {id} |-> IF n = id THEN OnTop ELSE notes[n]]
  /\ nextZ' = nextZ + 1
  /\ touches' = touches + 1
  /\ PersistNotes

UpdateNote(id) ==
  /\ RequireUnlocked
  /\ touches < MaxTouches
  /\ id \in DOMAIN notes
  /\ notes' = [notes EXCEPT ![id] = OnTop]
  /\ nextZ' = nextZ + 1
  /\ touches' = touches + 1
  /\ PersistNotes

DeleteNote(id) ==
  /\ RequireUnlocked
  /\ id \in DOMAIN notes
  /\ notes' = Restrict(notes, DOMAIN notes \ {id})
  /\ PersistNotes
  /\ UNCHANGED <<nextZ, touches>>

\* NoteStore._load.  Mutant: the next level is counted, not looked up.
FreeLevelCounted(saved) == Cardinality(DOMAIN saved) + 1

FreeLevel(saved) == 1 + Max({0} \cup {saved[n].z : n \in DOMAIN saved})

RestartNotes ==
  /\ notes' = notesFile
  /\ nextZ' = FreeLevel(notesFile)
  /\ UNCHANGED <<notesFile, touches>>

NotesNext ==
  \/ \E id \in NoteIds : CreateNote(id) \/ UpdateNote(id) \/ DeleteNote(id)
  \/ RestartNotes

-----------------------------------------------------------------------------
BoardsTypeOK ==
  /\ items \in Seq([id : 1 .. madeItems, name : Names, checked : BOOLEAN])
  /\ recent \in Seq(Names) /\ Len(recent) <= RecentMax
  /\ Ids(removed) \subseteq 1 .. madeItems /\ offers \in 0 .. Screens
  /\ DOMAIN notes \subseteq NoteIds /\ Cardinality(DOMAIN notes) <= NotesMax
  /\ \A n \in DOMAIN notes : notes[n].z < nextZ

\* lists.py and notes.py, in any order of requests of several kiosks and
\* through restarts: an item is on the list once, and so is its name, unless
\* somebody renamed an item or undid a clear after the name was added anew;
\* no name is remembered twice; notes lie on each other in the order in which
\* they were last touched, also after the levels were counted anew.
BoardsInOrder ==
  /\ \A i, j \in DOMAIN items : items[i].id = items[j].id => i = j
  /\ Alike(items) => sameName
  /\ \A i, j \in DOMAIN recent : Key[recent[i]] = Key[recent[j]] => i = j
  /\ \A m, n \in DOMAIN notes : notes[m].z < notes[n].z <=> notes[m].touched < notes[n].touched
=============================================================================
