SPECIFICATION FairSpec
CONSTANTS
  English = en
  SeedCurrency = eur
  en = en
  es = es
  eur = eur
  usd = usd
  firebase = firebase
  NoProject = NoProject
  Projects = {firebase}
  Locales <- SomeLocales
  Currencies <- SomeCurrencies
  Batches <- AllBatches
  Writers = {w1, w2}
  PoolMax = 3
INVARIANT PushIsConfigured
PROPERTY CatalogIsCoherent
PROPERTY DefaultCurrencyStaysEnabled
PROPERTY EveryRequestEnds
