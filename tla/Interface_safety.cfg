SPECIFICATION Spec
CONSTANTS
  Task <- Tasks
  Note = {n1}
  Traces <- Traced
  Slots = 1
  Loads <- OneReaderEach
  NoTask = NoTask
  MaxLines = 4
INVARIANTS WatchersMissNothing EndIsToldLast AnswersFollowRequests TimelineTellsTheTask
PROPERTY SelectionKeepsItsTask
CHECK_DEADLOCK FALSE
