CONSTANTS
  Error = {e1, e2, e3}
  Value = {v1, v2}
  MaxDepth = 4
  EnvError = EnvError
  StdException = StdException
  NullError = NullError
  NULL = NULL
SPECIFICATION Spec
INVARIANTS
  CountsExact
  FailureHasError
PROPERTIES
  PropagatesErrors
