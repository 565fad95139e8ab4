CONSTANTS
  c1 = c1
  c2 = c2
  NoCaller = NoCaller
  Callers = {c1, c2}
  Requests <- MCRequests
  Retries = 2
SPECIFICATION CallSpec
INVARIANTS MutationsAreSafe
PROPERTIES CallsEnd
