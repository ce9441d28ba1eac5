SPECIFICATION FairSpec
CONSTANTS
  English = en
  SeedCurrency = eur
  en = en
  es = es
  eur = eur
  usd = usd
  firebase = firebase
  NoProject = NoProject
  Projects = {firebase}
  Locales <- SomeLocales
  Currencies <- SomeCurrencies
  Batches <- PairBatches
  Writers = {w1, w2}
  PoolMax = 2
PROPERTY EveryRequestEnds
CHECK_DEADLOCK FALSE
