------------------------------- MODULE Winning -------------------------------
(***************************************************************************)
(* When a mahjong hand wins and what the win is worth:                     *)
(* logic-go/internal/game/mahjong, core/tile.go and the winning.go and     *)
(* settlement.go of the two rule sets, HuiTong (htmajong) and TaiHu        *)
(* (thmahjong).  The two are copies of each other that differ in a few     *)
(* patterns and in the settlement.                                         *)
(*                                                                         *)
(* The order of a hand means nothing to these functions (they sort it), so *)
(* a hand is the number of tiles of each kind.                             *)
(***************************************************************************)
EXTENDS Integers, FiniteSets

CONSTANTS
  WinSize,  \* 14, the tiles of a hand that wins
  TileKinds,   \* the kinds of tiles in play, records [suit, value]
  Players   \* the indices of the players at the table, 0 .. n - 1

Wan == 0
Tiao == 1
Tong == 2
Wind == 3

ASSUME WinSizeAssumption == WinSize \in Nat /\ WinSize % 3 = 2
ASSUME TileKindsAssumption == TileKinds \subseteq [suit : 0 .. 3, value : 1 .. 9]
ASSUME PlayersAssumption == IsFiniteSet(Players)

VARIABLE hand   \* the hand that is being looked at, drawn tile by tile

\* GenerateDeck makes four of each kind.
Copies == 4

Tallies == [TileKinds -> Nat]

Size(h) == Cardinality(UNION {{k} \X (1 .. h[k]) : k \in TileKinds})
Held(h) == {k \in TileKinds : h[k] > 0}
Has(h, suit, value) == [suit |-> suit, value |-> value] \in Held(h)

\* SortTiles: by suit, then by value.
KindBefore(a, b) == a.suit < b.suit \/ (a.suit = b.suit /\ a.value < b.value)
First(h) == CHOOSE k \in Held(h) : \A other \in Held(h) \ {k} : KindBefore(k, other)

\* RemoveTile, called n times.
Take(h, k, n) == [h EXCEPT ![k] = @ - n]
TakeRun(h, k) ==
  [t \in TileKinds |-> IF t.suit = k.suit /\ t.value \in k.value .. k.value + 2 THEN h[t] - 1 ELSE h[t]]

-----------------------------------------------------------------------------
(* Shapes of a hand *)

\* Mutant: the run 7 8 9 is left out.
Bug_Melds[h \in Tallies] ==
  \/ Size(h) = 0
  \/ /\ Size(h) % 3 = 0
     /\ \/ h[First(h)] >= 3 /\ Bug_Melds[Take(h, First(h), 3)]
        \/ /\ First(h).suit < Wind
           /\ First(h).value < 7
           /\ Has(h, First(h).suit, First(h).value + 1)
           /\ Has(h, First(h).suit, First(h).value + 2)
           /\ Bug_Melds[TakeRun(h, First(h))]
Bug_CheckMianZi(h) == Bug_Melds[h]

\* Only melds: the first tile of the sorted hand is in a triplet or starts a run.
Melds[h \in Tallies] ==
  \/ Size(h) = 0
  \/ /\ Size(h) % 3 = 0
     /\ \/ h[First(h)] >= 3 /\ Melds[Take(h, First(h), 3)]
        \/ /\ First(h).suit < Wind
           /\ First(h).value <= 7
           /\ Has(h, First(h).suit, First(h).value + 1)
           /\ Has(h, First(h).suit, First(h).value + 2)
           /\ Melds[TakeRun(h, First(h))]
CheckMianZi(h) == Melds[h]

CheckBasicWin(h) ==
  /\ Size(h) = WinSize
  /\ \E pair \in Held(h) : h[pair] >= 2 /\ CheckMianZi(Take(h, pair, 2))

CheckSevenPairs(h) ==
  /\ Size(h) = WinSize
  /\ \A k \in Held(h) : h[k] \in {2, 4}
  /\ \/ Cardinality({k \in Held(h) : h[k] = 2}) >= 7
     \/ Cardinality(Held(h)) = 7

CheckLongQiDui(h) == CheckSevenPairs(h) /\ \E k \in TileKinds : h[k] = 4

CheckAllTriplets(h) == Size(h) % 3 = 0 /\ \A k \in TileKinds : h[k] % 3 = 0

\* Triplets and a pair; checkPengPengHu of TaiHu is the same.
CheckJiangJiangHu(h) ==
  /\ Size(h) = WinSize
  /\ \E pair \in Held(h) : h[pair] >= 2 /\ CheckAllTriplets(Take(h, pair, 2))

OneSuit(h) == Cardinality({k.suit : k \in Held(h)}) = 1
CheckQingYiSe(h) == OneSuit(h)
CheckQueYiMen(h) == Cardinality({k.suit : k \in {t \in Held(h) : t.suit <= Tong}}) = 2

CanWin(h) == CheckBasicWin(h) \/ CheckSevenPairs(h)

\* The same functions in thmahjong/winning.go.
THCheckMianZi(h) == CheckMianZi(h)
THCheckBasicWin(h) ==
  Size(h) = WinSize /\ \E pair \in Held(h) : h[pair] >= 2 /\ THCheckMianZi(Take(h, pair, 2))
THCheckSevenPairs(h) ==
  /\ Size(h) = WinSize
  /\ \A k \in Held(h) : h[k] \in {2, 4}
  /\ Cardinality({k \in Held(h) : h[k] = 2}) >= 7 \/ Cardinality(Held(h)) = 7
THCheckLongQiDui(h) == THCheckSevenPairs(h) /\ \E k \in TileKinds : h[k] = 4
THCheckAllTriplets(h) == Size(h) % 3 = 0 /\ \A k \in TileKinds : h[k] % 3 = 0
CheckPengPengHu(h) ==
  /\ Size(h) = WinSize
  /\ \E pair \in Held(h) : h[pair] >= 2 /\ THCheckAllTriplets(Take(h, pair, 2))
THCheckQingYiSe(h) == OneSuit(h) /\ \A k \in Held(h) : k.suit < Wind
THCanWin(h) == THCheckBasicWin(h) \/ THCheckSevenPairs(h)

\* The hand without the tile that wins would have to be melds only.
CheckDaDiaoChe(h, tile) == /\ Size(h) - 1 = WinSize - 1
                           /\ THCheckMianZi(Take(h, tile, 1))
CheckWuHuaGuoZiMo(flowers, lastIsDiscard) == ~lastIsDiscard /\ flowers = 0

-----------------------------------------------------------------------------
(* Patterns *)

\* A pattern is worth its score when it is there, and the plain win is worth 1.
Worth(score, there) == IF there THEN score ELSE 0
AtLeastPlain(fan) == IF fan = 0 THEN 1 ELSE fan

\* GetWinPatterns and CalculateScore of HuiTong; "ting" is a declared ready hand.
HTFan(h, ting) ==
  AtLeastPlain(
    Worth(10, CheckQingYiSe(h))
    + (IF CheckLongQiDui(h) THEN 8 ELSE Worth(6, CheckSevenPairs(h)))
    + Worth(6, CheckJiangJiangHu(h))
    + Worth(2, CheckQueYiMen(h))
    + Worth(5, ting))

\* GetWinPatterns of TaiHu, for a hand won with the given tile.
THFan(h, tile, flowers, lastIsDiscard) ==
  AtLeastPlain(
    Worth(10, CheckWuHuaGuoZiMo(flowers, lastIsDiscard))
    + Worth(10, THCheckQingYiSe(h))
    + (IF THCheckLongQiDui(h) THEN 8 ELSE Worth(6, THCheckSevenPairs(h)))
    + Worth(6, CheckPengPengHu(h))
    + Worth(5, CheckDaDiaoChe(h, tile)))

-----------------------------------------------------------------------------
(* Settlement *)

WinTypes == {"draw", "discard", "qiangKong"}

\* handleWin: what the last action makes of the win, and whom it makes the loser.
WinType(lastType) == CASE lastType = "Discard" -> "discard"
                       [] lastType = "Kong" -> "qiangKong"
                       [] OTHER -> "draw"

Base(config) == IF config = 0 THEN 1 ELSE config
Twice(score, when) == IF when THEN 2 * score ELSE score

\* Who pays what to the winner.
Transfers(winner, loser, type, total) ==
  {[from |-> p, to |-> winner, amount |-> total] :
     p \in IF type = "draw" THEN Players \ {winner} ELSE {loser}}

\* Settler.Calculate of HuiTong; the dealer's win is doubled whoever pays.
HTCalculate(winner, loser, type, fan, ting, dealer, config) ==
  LET total == Twice(Twice(Twice(Twice(Base(config) * fan, type = "draw"), ting),
                           type = "qiangKong"), winner = dealer)
  IN [total |-> total, transfers |-> Transfers(winner, loser, type, total)]

\* Mutant: less than ten flowers are worth nothing.
Bug_THCalculate(winner, loser, type, fan, flowers, kongs, config) ==
  LET total == ((fan + flowers + Worth(2, type = "draw") + 2 * kongs) \div 10) * Base(config)
  IN [total |-> total, transfers |-> Transfers(winner, loser, type, total)]

\* Settler.Calculate of TaiHu: one base score for every ten flowers, at least one.
THCalculate(winner, loser, type, fan, flowers, kongs, config) ==
  LET tens == (fan + flowers + Worth(2, type = "draw") + 2 * kongs) \div 10
      total == AtLeastPlain(tens) * Base(config)
  IN [total |-> total, transfers |-> Transfers(winner, loser, type, total)]

-----------------------------------------------------------------------------
(* Every hand of at most 14 tiles is reached by adding tiles one by one. *)

WinningInit == hand = [k \in TileKinds |-> 0]

Add(k) == /\ Size(hand) < WinSize
          /\ hand[k] < Copies
          /\ hand' = [hand EXCEPT ![k] = @ + 1]

WinningNext == \E k \in TileKinds : Add(k)

WinningSpec == WinningInit /\ [][WinningNext]_hand

-----------------------------------------------------------------------------
(* Properties *)

\* The runs of three kinds, by their first.
ChowRuns == {k \in TileKinds : /\ k.suit < Wind
                       /\ [suit |-> k.suit, value |-> k.value + 1] \in TileKinds
                       /\ [suit |-> k.suit, value |-> k.value + 2] \in TileKinds}

\* How many of the chosen runs a kind is in, and what is left of it without them
\* and without the pair.
ChosenAt(chosen, suit, value) ==
  LET r == [suit |-> suit, value |-> value] IN IF r \in ChowRuns THEN chosen[r] ELSE 0
InRuns(chosen, k) == ChosenAt(chosen, k.suit, k.value) + ChosenAt(chosen, k.suit, k.value - 1)
                       + ChosenAt(chosen, k.suit, k.value - 2)
Rest(h, pair, chosen, k) == h[k] - (IF k = pair THEN 2 ELSE 0) - InRuns(chosen, k)

\* A pair, some runs and some triplets, chosen in any order at all.
IsWinningShape(h) ==
  /\ Size(h) = WinSize
  /\ \E pair \in TileKinds, chosen \in [ChowRuns -> 0 .. Copies] :
       \A k \in TileKinds : Rest(h, pair, chosen, k) \in {0, 3}

\* checkBasicWin tries the tiles in order and a triplet before a run; it must
\* still find every hand that can be split into four melds and a pair, and no
\* other.  The patterns that are paid for are patterns of hands that win: a hand
\* of triplets and a pair is one, in both rule sets, which agree.
BasicWinIsComplete ==
  /\ CheckBasicWin(hand) <=> IsWinningShape(hand)
  /\ CheckJiangJiangHu(hand) => CanWin(hand)
  /\ CheckJiangJiangHu(hand) <=> CheckPengPengHu(hand)
  /\ CanWin(hand) <=> THCanWin(hand)

\* A win is always worth at least the base score to its winner, and drawing the
\* winning tile oneself never brings the winner less than being given it, in
\* both rule sets.
Income(settlement) == settlement.total * Cardinality(settlement.transfers)
WinPays ==
  CanWin(hand) =>
    \A winner, loser, dealer \in Players, flowers, kongs \in 0 .. 4, ting \in BOOLEAN :
      winner # loser =>
        LET fan == HTFan(hand, ting)
            tile == CHOOSE k \in Held(hand) : TRUE
            HT(type) == HTCalculate(winner, loser, type, fan, ting, dealer, 10)
            TH(type) == THCalculate(winner, loser, type,
                                    THFan(hand, tile, flowers, type = "discard"),
                                    flowers, kongs, 10)
        IN /\ \A type \in WinTypes : Income(HT(type)) >= 10
           /\ \A last \in {"Discard", "Draw"} : Income(TH(WinType(last))) >= 10
           /\ Income(HT("draw")) >= Income(HT("discard"))
           /\ Income(TH("draw")) >= Income(TH("discard"))
=============================================================================
