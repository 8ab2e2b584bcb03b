CONSTANTS
  MaxIncidents = 1
  Planned = {1}
  Senders = {s1}
  Deliveries = {d1}
  MaxFailures = 1
  Uuids <- MCUuids
  Absent = Absent
  number <- MCNumber
  Clicks = {c1, c2}
  uuid <- MCUuid
  fallbacks = {1}
  service = "checkout"
  max_rows = 1
  Strays <- MCStrays
  Texts <- MCTexts
  MaxPresses = 2
SYMMETRY Symmetry
SPECIFICATION FeedbackSpec
INVARIANTS
  ResolvedOnce
  CardNeverAhead
  AnswerHoldsTogether
