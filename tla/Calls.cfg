CONSTANTS
  A = A
  B = B
  C = C
  voice = voice
  share = share
  file = file
  Devices = {A, B, C}
  Calls = {voice, share, file}
  From <- MCFrom
  To <- MCTo
  Mode <- MCMode
  NoCall = NoCall
  MaxCalls = 2
  MaxCandidates = 1
  MaxFaults = 1
SPECIFICATION Spec
INVARIANTS NoCandidateStranded AnsweredOnlyIfAccepted AnswerCarriesMedia
PROPERTIES ViewerIsAnswered
CHECK_DEADLOCK FALSE
