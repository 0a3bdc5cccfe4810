SPECIFICATION MentionSpec
CONSTANTS
  p = p
  x = x
  cron = cron
  hand = hand
  Posts = {p}
  Tickers = {x}
  Jobs = {cron, hand}
  CronJobs = {cron}
  Named <- NamesX
  Bare <- BareNone
  Horizons = {1, 2}
  CronHorizon = 1
  FirstWeekday = 4
  Holidays = {}
  Limit = 1
  LastDay = 4
  Awake = {0, 1, 2, 13, 17}
  ByHand = {"track", "extract"}
  LastPublish = 2
  MaxFaults = 1
INVARIANTS MentionTypeOK StampedComplete BetsFollowMentions SettledOnOwnHorizon
PROPERTIES BetsAreALedger DueBetsSettle
CHECK_DEADLOCK FALSE
