SPECIFICATION Spec
CONSTANTS
  PeriodLength <- MCPeriodLength
  BreakLength <- MCBreakLength
  Ads <- MCAds
  AdLength <- MCAdLength
  Reservation <- MCReservation
  Growth <- MCGrowth
  Early = 1
  Window = 9
  MaxLag = 6
  Align = 2
  InitialEdge = 2
  MaxSeeks = 1
  SeekOffsets <- MCSeekOffsets
  MaxFailures = 1
INVARIANTS PlayingBreakIsKept AdsAreConsecutive EndsWithItsAds
PROPERTIES AdsPlayInOrder LandsInPlace CatchupEnds
