SPECIFICATION Spec
CONSTANTS
  Works = {w}
  Forms = {"modal", "password", "delete", "verify"}
  Clicks = {c1}
  MaxPassword = 2
  MaxEra = 1
  MaxInFlight = 2
INVARIANTS HeldIsStored  DismissedClicksNeverRun
PROPERTY LoadingEnds
