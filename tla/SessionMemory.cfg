SPECIFICATION Spec
CONSTANTS
  Slots = 2
  Keys <- MCKeys
  LongKeys <- MCLongKeys
  Texts <- MCTexts
  Urls <- MCUrls
  ValueMax = 3
  HistoryMax = 10
  RecentLimit = 5
  SummaryMax = 3
  DetailMax = 3
  Trigger = 3
  SourceTrigger = 2
  WorkingLimit = 4
  Overhead = 1
  TurnMod = 3
  NoGoal = NoGoal
  NoKey = NoKey
  MaxNotes = 4
INVARIANTS TypeOK ReadsLast KeysKept CurrentTask TurnsInOrder RawIsWhole HistoryWhole
