\* Violated: the JSON body of a request with the right Content-Type is not read.
SPECIFICATION Spec
CONSTANTS
  IntMax = 3
  LongMax = 7
  Size <- BodySizes
  Lines <- SomeLines
  Bodies = {"json"}
  Parameters <- SomeParameters
  FieldNames <- SomeNames
  MaxEvents = 2
INVARIANT JsonRead
CHECK_DEADLOCK FALSE
