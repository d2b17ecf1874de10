SPECIFICATION Spec
CONSTANTS
  Required <- Asks
  Piece = 5
  MaxEntries = 2
  Kilo = 4
  Word = 1024
  Levels <- LevelRows
  Lengths = {60, 127, 255, 256, 383}
  Number <- Numbers
  FishRows = {0, 2}
  Files <- ConfFiles
  Delimiters <- TrialDelimiters
  Trials <- TrialTexts
  Fields = 3
  Documents <- Pushes
  MaxArticles = 1
  TaskTables <- Tables
  Moments = {1, 2, 3}
  Deeds <- Kills
  Users <- Shows
  Handshakes <- Clients
  DefaultRooms = 4
INVARIANTS
  LevelsRead
  ArrivesWhole
  ConfRead
  ExplodeExact
  JsonExact
  
  HandshakeAnswers
CHECK_DEADLOCK FALSE
