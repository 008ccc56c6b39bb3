SPECIFICATION FairSpec
CONSTANTS
  Codes = {fr}
  Urls = {base, mirror}
  BaseUrl = base
  BadUrls = {}
  NoUrl = NoUrl
  Tasks = {t1, t2}
  Main = main
  Attempts = 2
  Faults = {"fail", "cut", "crash"}
INVARIANTS OneLoadPerMiss PairsMatchUntorn DownloadsAreLoaded SourcesFollowTable RegisteredIsLoaded ListingFollowsEngines
PROPERTY EveryLoadEnds
CHECK_DEADLOCK FALSE
