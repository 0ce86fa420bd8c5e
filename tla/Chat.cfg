SPECIFICATION FairSpec
CONSTANTS
  Transcripts <- Conversations
  Batches <- Calls
  ResultSizes = {1, 4}
  Persona = 2
  Budget = 9
  Tight = 6
  Wrap = 2
  MaxSteps = 2
  MaxCallsPerStep = 2
  UniqueIds = TRUE
  MaxNotes = 2
INVARIANTS TypeOK CallsAnswered
PROPERTIES ProtectedKept NotesForward TurnAnswered
