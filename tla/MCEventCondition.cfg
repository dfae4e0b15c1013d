CONSTANTS
  EventTypeLists <- TypeLists
  Datas <- DeepDatas
  RawDocuments <- Documents
  Events <- SomeEvents
SPECIFICATION Spec
CHECK_DEADLOCK FALSE
INVARIANTS RuleMeansSpec RefusedIfMeaningless
