---------------------------- MODULE MCRetrieval ----------------------------
EXTENDS Retrieval
\* Version 2 rewrites a section of 1, 3 is 2 with other blanks, 4 is of another runbook and
\* 5 does not parse.
MCCanonical == <<1, 2, 2, 4, 5>>
Section(h, t) == [heading |-> h, text |-> t]
Old == {Section("Symptoms", "old"), Section("Fix", "same")}
New2 == {Section("Symptoms", "new"), Section("Fix", "same")}
MCSections == <<Old, New2, New2, {Section("Symptoms", "other")}, {}>>
MCServices == <<{"orders"}, {"orders"}, {"orders"}, {"payments"}, {}>>
MCDrafts == <<{1, 3}, {4, 5}>>
=============================================================================
