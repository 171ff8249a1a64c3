\* Violated: parameters of a path without a query are not read.
SPECIFICATION Spec
CONSTANTS
  Templates <- PathTemplates
  MethodSets = {{"GET"}, {"GET", "OPTIONS"}}
  Filters = {"f"}
  MaxFilters = 1
  Methods = {"GET", "OPTIONS"}
  Urls <- SomeUrls
INVARIANT PathParametersRead
CHECK_DEADLOCK FALSE
