------------------------------ MODULE MCGames ------------------------------
(* The games of a logic node: the table of games, the mahjong engine and its   *)
(* winning and scoring rules.  They share no state here, so a behaviour runs  *)
(* one of them and the others rest.                                           *)
EXTENDS Mahjong, GameTable, Winning

VARIABLE part

W == INSTANCE Winning WITH TileKinds <- Kinds, hand <- <<>>, Players <- Seats,
                           WinSize <- HandSize + 1

\* The winning hands of the engine's instance, worked out once.
Hands == {h \in [Kinds -> 0 .. HandSize + 1] : W!Size(h) = HandSize + 1}
WinningHands == {h \in Hands : W!CanWin(h)}
IsWinningHand(h) == h \in WinningHands

\* Players have hands of four instead of 13, so that five tiles win: a run and a
\* fourth kind, which is a wind in TaiHu; four tiles of each.
T(suit, value) == [suit |-> suit, value |-> value]
HTKinds == <<T(0, 1), T(0, 2), T(0, 3), T(1, 1)>>
THKinds == <<T(0, 1), T(0, 2), T(0, 3), T(3, 1)>>
AllKinds == {HTKinds[i] : i \in 1 .. 4} \cup {THKinds[i] : i \in 1 .. 4}

\* Shuffled so that every hand has all kinds, so that hands have triplets, and
\* so that the second player can rob the first's kong.
ByRound(kinds) == [i \in 1 .. 16 |-> kinds[((i - 1) % 4) + 1]]
ByKind(kinds) == [i \in 1 .. 16 |-> kinds[((i - 1) \div 4) + 1]]
Robbed(kinds) == [i \in 1 .. 16 |->
                    kinds[<<1, 1, 1, 4, 2, 2, 2, 3, 4, 3, 3, 4, 4, 1, 2, 3>>[i]]]
SmallDecks(r) ==
  LET kinds == IF r = "HT" THEN HTKinds ELSE THKinds
  IN {ByRound(kinds), ByKind(kinds), Robbed(kinds)}

\* The upper end of one suit, with two runs, one kind of another, a wind.
ThreePlayers == 0 .. 2
SixKinds == {[suit |-> Wan, value |-> v] : v \in 6 .. 9}
            \cup {[suit |-> Tiao, value |-> 9], [suit |-> Wind, value |-> 1]}

gamesVars == <<part, mahjongVars, gameVars, hand>>

GamesInit ==
  /\ part \in {"mahjong", "games", "winning"}
  /\ MahjongInit
  /\ part # "mahjong" => rules = "HT" /\ cells = Deal(ByRound(HTKinds))
  /\ GameInit /\ WinningInit

GamesNext ==
  /\ UNCHANGED part
  /\ \/ part = "mahjong" /\ MahjongNext /\ UNCHANGED <<gameVars, hand>>
     \/ part = "games" /\ GameNext /\ UNCHANGED <<mahjongVars, hand>>
     \/ part = "winning" /\ WinningNext /\ UNCHANGED <<mahjongVars, gameVars>>

GamesSpec == GamesInit /\ [][GamesNext]_gamesVars

\* The types of the engine and of the table of games.
GamesTypeOK == MahjongTypeOK /\ GameTypeOK
=============================================================================
