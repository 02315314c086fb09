SPECIFICATION FairSpec
CONSTANTS
  rs = rs  rm = rm  rx = rx  rd = rd  rd2 = rd2  re = re  ru = ru  none = none
  Requests = {rm, rx, rs, rd, rd2, re, ru}
  ChannelOf <- MCChannelOf
  KindOf <- MCKindOf
  Unreadable = {rx}
  Unpermitted = {ru}
  LastVersion = 2
  MaxSubmissions = 2
  MaxAttempts = 2
  MaxTroubles = 2
  NoRequest = none
CHECK_DEADLOCK FALSE
INVARIANTS
    AppliedOnce
    AnswersAreTrue
PROPERTIES
    EverySubmissionIsAnswered
