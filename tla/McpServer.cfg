SPECIFICATION Spec
CONSTANTS
  Workers = {w1, w2}
  Clients = {c1, c2}
  Ids = {i1, i2}
  None = None
  Methods = {"tools/call"}
  Routes = {"custom"}
  Attempts = 2
  RequestBound = 3
INVARIANT TypeOK
INVARIANT SessionsAreSeparate
INVARIANT ServedIsReady
PROPERTY AcknowledgedStays
SYMMETRY Symmetric
