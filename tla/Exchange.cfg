\* Up to four lines and calls in all; ints of three bits, long ones of four.
SPECIFICATION Spec
CONSTANTS
  IntMax = 3
  LongMax = 7
  Size <- BodySizes
  Lines <- SomeLines
  Bodies = {"json"}
  Parameters <- SomeParameters
  FieldNames <- SomeNames
  MaxEvents = 4
INVARIANTS TypeOK HeaderRead AsCalled Framed
CHECK_DEADLOCK FALSE
