SPECIFICATION Spec
CONSTANT Tables <- MCTables
INVARIANTS
  TypeOK
  AcknowledgedIsDurable
  BadReadsEndInRestart
PROPERTIES
  UneditedIsKept
  RestartsAfterSubmit
