CONSTANTS
  Session = {s1}
  Client = {c1, c2}
  None = None
  Reply = {a1, a2}
  MaxRequests = 2
  MaxSaving = 2
SPECIFICATION Spec
INVARIANTS TypeOK NoStrayClient HubAgrees RequestKept
PROPERTIES TerminalAnswers
