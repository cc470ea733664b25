SPECIFICATION Spec
CONSTANTS
  p1 = p1
  p2 = p2
  a = a
  b = b
  localized = localized
  published = published
  registry = registry
  Process = {p1, p2}
  Page = {a, b}
  Steps <- MCSteps
  Committed = {localized}
  Compared = {registry}
  Lists <- MCLists
  Validations = 1
  MaxEdits = 2
  MaxFailures = 1
  Missing = Missing
  Torn = Torn
SYMMETRY MCSymmetry
INVARIANTS TypeOK RuntimeFresh NothingMissing ReviewReady
