SPECIFICATION FairSpec
CONSTANTS
  Threads = {1, 2}
  Coroutines = {0, 1}
  Names = {"short", "long"}
  NeedOf <- MCNeedOf
INVARIANTS
  TypeOK
  AnswerStays
PROPERTIES
  LookupEnds
