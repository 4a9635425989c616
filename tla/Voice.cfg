SPECIFICATION VoiceSpec
CONSTANTS
  k1 = k1  k2 = k2  r1 = r1  r2 = r2  z1 = z1  z2 = z2
  Kiosks = {k1, k2}
  Turns <- MCTurns
  Chunks = 1
  Transcripts <- MCTranscripts
  Now <- MCNow
  Events <- MCEvents
  Askings <- MCAskings
  Requests = {r1, r2}
  Zones <- MCZones
  Times = {0, 1, 2}
  Agendas <- MCAgendas
  DayLength = 2
  MaxStale = 2
  MaxTickets = 1
  MaxCommands = 3
  MaxBreaks = 2
  BufferMax = 2
  MaxTrouble = 1
  MaxSheds = 2
  MaxFrames = 2
INVARIANTS VoiceTypesOK DatesAsSaid NeverAGuess HearingBetterNeverHurts HeardItself GrantIsCurrent
           CommandsArrive SpeakerIsHeard
PROPERTY TurnEnds
CHECK_DEADLOCK FALSE
