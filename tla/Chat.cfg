SPECIFICATION Spec
CONSTANTS
  NumFiles = 2
  Ids = {s1, s2}
  MaxEdits = 2
INVARIANTS
  TypeOK
  LoadedIsTheDirectory
  ListedStaysKnown
  AnswersTheInput
PROPERTIES
  TurnsEnd
  ChatsSurvive
