\* Two slots for five webhooks of one alert, three incidents, one failure; it all ends.
SPECIFICATION Spec
CONSTANTS
  Webhooks = {"fires", "again", "clears", "garbled", "forged"}
  Forged = {"forged"}
  source <- MCSource
  payload <- MCPayload
  Requests = {r1, r2}
  MaxIncidents = 3
  MaxFailures = 1
SYMMETRY Symmetry
CHECK_DEADLOCK FALSE
INVARIANTS
  AnswerTells
  StrandedLate
  CountTrails
