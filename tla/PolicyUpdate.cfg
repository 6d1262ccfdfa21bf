SPECIFICATION Spec
CONSTANTS
  PromptLen = 1
  Scale = 8648640
  Setups <- MCSetups
INVARIANTS
  TypeOK
  GradientsExact
  RatioToOld
  StepsAccounted
  TeacherMixesNewStudents
PROPERTIES
  UpdatesReturn
CHECK_DEADLOCK FALSE
