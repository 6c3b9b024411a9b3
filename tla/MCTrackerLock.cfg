CONSTANTS
  hero = hero
  sentry = sentry
  Names <- MCNames
  NoName = NoName
  SwitchAfter = 5
  ReinitAfter = 3
  MaxArmors = 2
SPECIFICATION Spec
INVARIANTS FilterOfTarget FilterNotStale
PROPERTIES NotGivenUpEarly NewcomerTakesOver
