SPECIFICATION Spec
CONSTANTS
  None = None
  Opp = {o1}
  Key = {k1}
  Requester = {r1}
  Evaluator = {e1}
  Verdict = {"RESOLVED", "IMPROVED"}
  MaxOcc = 1
  MaxEdits = 4
  MaxCrashes = 0
PROPERTIES VerifiedFromImplemented
CHECK_DEADLOCK FALSE
