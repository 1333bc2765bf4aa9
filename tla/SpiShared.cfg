SPECIFICATION Spec
CONSTANTS
  t2 = t2
  t3 = t3
  spi2 = spi2
  spi3 = spi3
  p1 = p1
  p2 = p2
  p3 = p3
  p4 = p4
  p5 = p5
  p6 = p6
  p7 = p7
  p8 = p8
  p9 = p9
  NULL = NULL
  Task = {t2, t3}
  Unit = {spi2, spi3}
  Pin = {p1, p2, p3, p4, p5, p6, p7, p8, p9}
  Serves <- OneEach
  CSPins <- OwnCS
  Flags <- AlwaysFull
  Maps <- SharedMaps
  NDevices = 2
INVARIANTS
  InUseLocked
  NoLockLeft
