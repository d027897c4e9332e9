SPECIFICATION Spec
CONSTANTS
  None = None
  u1 = u1
  u2 = u2
  u3 = u3
  t1 = t1
  t2 = t2
  Uri <- Uris
  Source <- Texts
  Hash <- HashOf
  MaxVersion = 1
  MaxOpen = 2
SYMMETRY UriSymmetry
INVARIANTS
  AnswersAreCurrent
  LanguageStageIsEarned
  NothingKeptAfterClose
PROPERTIES
  DependentsSpoiled
  LateUpdatesLose
