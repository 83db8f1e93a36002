CONSTANTS
  home = home
  category = category
  first = first
  second = second
  None = None
  Urls <- MCUrls
  WarmUps <- MCWarmUps
  Starts <- MCStarts
  SwitchEnacted = TRUE
SPECIFICATION FairCrawlSpec
INVARIANTS WarmPathFirst FitForConfig EveryPageReadOnce
PROPERTY CrawlEnds
CHECK_DEADLOCK FALSE
