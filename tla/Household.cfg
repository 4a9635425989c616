SPECIFICATION HouseholdSpec
CONSTANTS
  milk = milk  milks = milks  eggs = eggs
  Screens = 2
  Key <- MCKey
  Renames = {milks}
  RecentMax = 1
  NotesMax = 2
  MaxFailures = 1
  MaxItems = 2
  MaxTouches = 4
  NoteIds = {1, 2, 3}
  Observers = {1, 2}
  Stale = 2
  Timeout = 2
  MaxNow = 3
  MaxCaptures = 3
  Accounts = {1, 2}
  Flows = {11, 12}
  Pollers = {21}
  MaxTokens = 2
  Users <- MCUsers
  Mailbox <- MCMailbox
  Malformed = {"camp"}
  Tagged = {"lunch"}
INVARIANTS HouseholdTypesOK BoardsInOrder SignInHolds EveryEventOnce
PROPERTY PresenceHolds
CHECK_DEADLOCK FALSE
