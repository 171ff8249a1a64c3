\* Six templates on four keys, two of which overlap; one filter; fourteen URLs.
SPECIFICATION Spec
CONSTANTS
  Templates <- SomeTemplates
  MethodSets = {{"GET"}, {"GET", "OPTIONS"}}
  Filters = {"f"}
  MaxFilters = 1
  Methods = {"GET", "OPTIONS"}
  Urls <- SomeUrls
INVARIANTS TypeOK RoutedAsAsked BoundAsWritten GuardsStay
PROPERTY FirstRegistrationStays
CHECK_DEADLOCK FALSE
