\* four parts, six units of data in pieces of at most two, files of two units in memory; two
\* fields of names and values of up to two units; five entries, two at once
CONSTANTS
  Limits <- MCLimits
  SpoolMax = 2
  MaxParts = 4
  MaxData = 6
  MaxPiece = 2
  Units = {"x"}
  MaxFields = 2
  MaxLength = 2
  Keys <- MCTexts
  Values <- MCTexts
  MaxEntries = 5
  MaxAtOnce = 2
SPECIFICATION SpecForms
INVARIANTS FormTrue ResourcesBounded DictAgrees
PROPERTY DiskInThread
CHECK_DEADLOCK FALSE
