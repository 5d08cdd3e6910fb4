SPECIFICATION Spec
CONSTANTS
  u1 = u1
  u2 = u2
  u3 = u3
  r1 = r1
  v1 = v1
  Unscored = Unscored
  NoOne = NoOne
  Update <- ThreeUpdates
  Reader <- OneReader
  Evaluation <- OneEvaluation
  Mixes <- Company
  Policies <- PolicySet
  Facts <- FactSet
  Previewed <- PreviewSet
  Models <- ModelSet
INVARIANTS
  TypeOK
  HistoryContiguous
  HistoryIsAudited
  FraudNotContacted
  SpendsAsProposed
  DisallowedOnlyByGuards
  PreviewForetells
CHECK_DEADLOCK FALSE
