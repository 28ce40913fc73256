\* Three questions of one conversation.  Of a turn of three ticks, loading the model and the answer may
\* take one each, and each call of a verification as long as the two it has in all, as in the source.
SPECIFICATION AnsSpec
CONSTANTS
  DayHours = 3
  LastMoment = 8
  Zones <- MCZones
  Contents <- MCContents
  MaxQuestions = 3
  TurnTime = 3
  PrepareTime = 1
  AnswerTime = 1
  VerifyTime = 2
  CorrectTime = 2
  VerificationTime = 2
INVARIANTS
  HistoryIsWhole
  AnswersAreQualified
  CallsFitTheTurn
  ConversionsAreTheUsers
CHECK_DEADLOCK FALSE
