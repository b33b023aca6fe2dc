SPECIFICATION DatesSpec
CONSTANTS
  Hour = 3
  Day = 6
  Week = 12
  Month = 24
  Year = 48
  TwoDigits = 9
  Opening = 50
  Closing = 57
INVARIANTS
  AgesAreNeverOlder
  ClockTimesFollowTheDay
  UndatedOnlyBy
