SPECIFICATION FairSpec
CONSTANTS
  c1 = c1  c2 = c2  c3 = c3
  k1 = k1  k2 = k2
  ok1 = ok1  err = err
  Callers = {c1, c2, c3}
  Keys = {k1, k2}
  Flights <- MCFlights
  FlightOf <- MCFlightOf
  Values = {ok1}
  Errors = {err}
  Panic = Panic
  None = None
  MaxPanics = 1
INVARIANTS
  TypeOK
  CollectOnce
  AnswerIsEntry
  WaiterHasLeader
PROPERTIES
  EntriesAppendOnly
  LoadTerminates
  ImplementsMemo
