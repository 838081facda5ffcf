CONSTANTS
  Kinds <- AllKinds
  PlayerCount = 3
  HandSize = 4
  Decks <- SmallDecks
  Wins <- IsWinningHand
  Nothing = Nothing
  MaxMoves = 4
  Starters = {s1, s2, s3}
  MaxGames = 3
  NoGame = NoGame
  WinSize = 14
  TileKinds <- SixKinds
  Players <- ThreePlayers
SPECIFICATION GamesSpec
CHECK_DEADLOCK FALSE
INVARIANTS
  GamesTypeOK
  OneDealtGame
  BasicWinIsComplete
  WinPays
PROPERTIES
  TilesConserved
  OffersMatch
