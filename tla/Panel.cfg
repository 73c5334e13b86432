SPECIFICATION PanelSpec
CONSTANTS
  Lines <- SampleLines
  Readings <- SampleReadings
INVARIANTS
  TypeOK
  LedAgrees
  AnswerTruthful
  RecordAgrees
  PictureCurrent
PROPERTIES
  AnswersByTable
