SPECIFICATION Spec
CONSTANTS
  U64Max = 200
  U128Max = 2009999
  Prices = {1, 2, 7, 19, 150}
  FeeRates = {0, 1, 333, 2500, 10000}
  Decimals = {0, 1, 2}
  Scores = {0, 1, 4999, 5000, 9999, 10000}
  MinScore = 5000
INVARIANTS SettlementNeverReverts RoundingDirection FullScorePaysAll
PROPERTIES HigherScorePaysMore
