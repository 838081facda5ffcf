------------------------------- MODULE Mahjong -------------------------------
(***************************************************************************)
(* A game of mahjong: logic-go/internal/game/mahjong, the engine and state *)
(* of core and the action handlers, task judges and decks of the HuiTong   *)
(* (htmajong) and TaiHu (thmahjong) rules.                                 *)
(*                                                                         *)
(* Deal cuts the hands and the deck out of ONE array, as slices without a  *)
(* capacity of their own, and append and RemoveTile write into that array: *)
(* a hand that grows past its cut writes into the hand behind it.  So the  *)
(* array is part of the state (cells), and a hand is where its slice       *)
(* starts and how long it is.                                              *)
(*                                                                         *)
(* SafeMahjongEngine and Game hold a lock around every call, so a call is  *)
(* one step.  A call that returns an error changes nothing and is not a    *)
(* step; Win and QiangKong always are such calls: ExecuteAction has no     *)
(* case for them.  TaiHu's deck has no flowers, so its Flower action never *)
(* passes validation either.                                               *)
(***************************************************************************)
EXTENDS Integers, Sequences, FiniteSets, FiniteSetsExt

CONSTANTS
  Kinds,         \* the kinds of tiles, records [suit, value]
  PlayerCount,   \* players are 0 .. PlayerCount - 1, as in the code
  HandSize,      \* 13
  Decks(_),      \* per rule set, the shuffled decks a game may start with
  Wins(_),       \* WinningAlgorithm.CanWin, of a hand as tiles per kind
  Nothing,          \* no tile, no player
  MaxMoves       \* bound on the calls of one game

ASSUME KindsAssumption == Kinds \subseteq [suit : 0 .. 3, value : 1 .. 9]
ASSUME PlayerAssumption == PlayerCount \in Nat \ {0, 1}
ASSUME HandAssumption == HandSize \in Nat \ {0}
ASSUME DeckAssumption ==
  \A r \in {"HT", "TH"} : \A d \in Decks(r) :
    d \in Seq(Kinds) /\ Len(d) > PlayerCount * HandSize
ASSUME MovesAssumption == MaxMoves \in Nat

WindSuit == 3
Seats == 0 .. PlayerCount - 1

VARIABLES
  rules,     \* "HT" or "TH"
  cells,     \* the array of all tiles
  hands,     \* per player, the slice [off, len] of cells that is Player.Hand
  deck,      \* where the slice GameState.Deck starts; it goes to the end
  discards,  \* per player, a sequence of tiles
  melds,     \* per player, the sequence of melds
  ting,      \* HuiTong: the players who have declared a ready hand
  current,   \* GameState.CurrentPlayer
  last,      \* GameState.LastAction
  tasks,     \* GameState.PendingTasks
  moves      \* calls so far

mahjongVars == <<rules, cells, hands, deck, discards, melds, ting, current, last, tasks, moves>>

\* GetPlayerIndex, NextPlayer
After(p) == (p + 1) % PlayerCount

-----------------------------------------------------------------------------
(* core/tile.go, on slices of the array *)

\* The cells of a slice, as positions.
Span(h) == h.off .. h.off + h.len - 1

CountTile(p, t) == Cardinality({i \in Span(hands[p]) : cells[i] = t})
Holds(p, t) == \E i \in Span(hands[p]) : cells[i] = t

\* A hand as a number of tiles per kind, with one more tile.
HandWith(p, t) == [k \in Kinds |-> CountTile(p, k) + (IF k = t THEN 1 ELSE 0)]

Before(a, b) == a.suit < b.suit \/ (a.suit = b.suit /\ a.value < b.value)

\* SortTiles of a slice: in the n-th place is the kind that has less than n of
\* the tiles before it, and has them with its own.
SortTiles(array, h) ==
  LET Less(k) == Cardinality({j \in Span(h) : Before(array[j], k)})
      UpTo(k) == Cardinality({j \in Span(h) : ~Before(k, array[j])})
      Nth(n) == CHOOSE k \in Kinds : Less(k) < n /\ n <= UpTo(k)
  IN [i \in DOMAIN array |-> IF i \in Span(h) THEN Nth(i - h.off + 1) ELSE array[i]]

\* Mutant: the slice gets shorter, but nothing moves down.
Bug_RemoveTile(s, t) ==
  IF \E i \in Span(s.hand) : s.array[i] = t
  THEN [s EXCEPT !.hand = [off |-> s.hand.off, len |-> s.hand.len - 1]]
  ELSE s

\* RemoveTile: the tiles behind the first one found move one cell down, and
\* the last cell of the slice keeps what it had; without the tile, nothing.
\* A slice and the array it is cut from: [array, hand].
RemoveTile(s, t) ==
  LET at == {i \in Span(s.hand) : s.array[i] = t}
  IN IF at = {} THEN s
     ELSE [array |-> [i \in DOMAIN s.array |->
                        IF i \in Min(at) .. s.hand.off + s.hand.len - 2
                        THEN s.array[i + 1] ELSE s.array[i]],
           hand |-> [off |-> s.hand.off, len |-> s.hand.len - 1]]

Remove2(s, t, u) == RemoveTile(RemoveTile(s, t), u)
Remove4(s, t) == Remove2(Remove2(s, t, t), t, t)

\* append of the first tile of the deck to a hand, which is sorted after that.
Append1(s, t) ==
  LET h == [off |-> s.hand.off, len |-> s.hand.len + 1]
  IN [array |-> SortTiles([s.array EXCEPT ![s.hand.off + s.hand.len] = t], h), hand |-> h]

Slice(p) == [array |-> cells, hand |-> hands[p]]

Becomes(p, s) == /\ cells' = s.array
                 /\ hands' = [hands EXCEPT ![p] = s.hand]

-----------------------------------------------------------------------------
(* Deal and Initialize: the first player is the dealer and has one tile more. *)

Cut(p) == [off |-> IF p = 0 THEN 1 ELSE p * HandSize + 2,
           len |-> IF p = 0 THEN HandSize + 1 ELSE HandSize]

\* What Initialize makes of a shuffled deck: every hand is sorted in its place.
Deal(d) ==
  [i \in DOMAIN d |->
     IF \E p \in Seats : i \in Span(Cut(p))
     THEN SortTiles(d, Cut(CHOOSE p \in Seats : i \in Span(Cut(p))))[i]
     ELSE d[i]]

MahjongInit ==
  /\ rules \in {"HT", "TH"}
  /\ \E d \in Decks(rules) : cells = Deal(d)
  /\ hands = [p \in Seats |-> Cut(p)]
  /\ deck = PlayerCount * HandSize + 2
  /\ discards = [p \in Seats |-> <<>>]
  /\ melds = [p \in Seats |-> <<>>]
  /\ ting = {}
  /\ current = 0
  /\ last = [type |-> "None", player |-> Nothing, tile |-> Nothing]
  /\ tasks = {}
  /\ moves = 0

-----------------------------------------------------------------------------
(* ValidateAction *)

LastIsDiscard == last.type = "Discard"

MayDraw(p) == current = p /\ deck <= Len(cells)
MayDiscard(p, t) == current = p /\ Holds(p, t)

\* Mutant: one tile in the hand is enough.
Bug_MayPong(p) == LastIsDiscard /\ CountTile(p, last.tile) >= 1

\* No turn, no task and no timeout is looked at, only the last action.
MayPong(p) == LastIsDiscard /\ CountTile(p, last.tile) >= 2

MayKong(p, t) == IF LastIsDiscard THEN CountTile(p, last.tile) >= 3 ELSE CountTile(p, t) >= 4

\* The three tiles of a run that starts with t.
RunFrom(t) == {[suit |-> t.suit, value |-> t.value + d] : d \in 0 .. 2}

\* TaiHu: the run named must contain the last tile, its others must be held.
MayChi(p, run) ==
  /\ LastIsDiscard
  /\ p = After(last.player)
  /\ last.tile.suit < WindSuit
  /\ last.tile \in run
  /\ \A t \in run \ {last.tile} : Holds(p, t)

MayTing(p) == p \notin ting

\* GetAvailableActions: what a player may do without looking at the last action.
THAvailableActions(p) ==
  {a \in {"Draw", "Discard"} :
     /\ current = p
     /\ a = "Draw" => deck <= Len(cells)
     /\ a = "Discard" => hands[p].len > 0}

HTAvailableActions(p) ==
  THAvailableActions(p) \cup (IF current = p /\ p \notin ting THEN {"Ting"} ELSE {})

-----------------------------------------------------------------------------
(* JudgeTasks, asked of the state after the action *)

Runs == {RunFrom(t) : t \in {k \in Kinds : k.suit < WindSuit /\ RunFrom(k) \subseteq Kinds}}

CanChi(p, t) == \E run \in Runs : t \in run /\ \A u \in run \ {t} : Holds(p, u)

\* htmajong/judge.go, for the tile of a Discard or a Kong.
HTOffers(q, type, t) ==
  (IF Wins(HandWith(q, t)) THEN {"Win"} ELSE {})
  \cup (IF type = "Discard" /\ CountTile(q, t) >= 3 THEN {"Kong"} ELSE {})
  \cup (IF type = "Discard" /\ CountTile(q, t) >= 2 THEN {"Pong"} ELSE {})
  \cup (IF type = "Kong" /\ Wins(HandWith(q, t)) THEN {"QiangKong"} ELSE {})

\* thmahjong/judge.go: runs for the next player, and a kong is never robbed.
THOffers(q, p, type, t) ==
  (IF Wins(HandWith(q, t)) THEN {"Win"} ELSE {})
  \cup (IF type = "Discard" /\ CountTile(q, t) >= 3 THEN {"Kong"} ELSE {})
  \cup (IF type = "Discard" /\ CountTile(q, t) >= 2 THEN {"Pong"} ELSE {})
  \cup (IF type = "Discard" /\ After(p) = q /\ CanChi(q, t) THEN {"Chi"} ELSE {})

HTPriority(types) ==
  Max({0} \cup {CASE a = "Win" -> 100 [] a = "QiangKong" -> 90 [] a = "Kong" -> 80
                  [] a = "Pong" -> 70 : a \in types})
THPriority(types) ==
  Max({0} \cup {CASE a = "Win" -> 100 [] a = "Kong" -> 80 [] a = "Pong" -> 70
                  [] a = "Chi" -> 60 : a \in types})

Offers(q, p, type, t) == IF rules = "HT" THEN HTOffers(q, type, t) ELSE THOffers(q, p, type, t)
Priority(types) == IF rules = "HT" THEN HTPriority(types) ELSE THPriority(types)

JudgeTasks(p, type, t) ==
  {[player |-> q, types |-> Offers(q, p, type, t), tile |-> t,
    priority |-> Priority(Offers(q, p, type, t))] :
     q \in {r \in Seats \ {p} : Offers(r, p, type, t) # {}}}

-----------------------------------------------------------------------------
(* HandleAction: validate, execute, judge, remember. *)

Remember(p, type, t) ==
  /\ moves < MaxMoves
  /\ moves' = moves + 1
  /\ last' = [type |-> type, player |-> p, tile |-> t]

\* No tasks of its own: those pending stay, whatever was done about them.
NoTasks == UNCHANGED <<current, tasks>>

\* Mutant: the tile drawn stays at the front of the deck.
Bug_Draw(p) ==
  /\ MayDraw(p)
  /\ Becomes(p, Append1(Slice(p), cells[deck]))
  /\ Remember(p, "Draw", Nothing)
  /\ NoTasks
  /\ UNCHANGED <<rules, deck, discards, melds, ting>>

Draw(p) ==
  /\ MayDraw(p)
  /\ Becomes(p, Append1(Slice(p), cells[deck]))
  /\ deck' = deck + 1
  /\ Remember(p, "Draw", Nothing)
  /\ NoTasks
  /\ UNCHANGED <<rules, discards, melds, ting>>

Discard(p, t) ==
  /\ MayDiscard(p, t)
  /\ Becomes(p, RemoveTile(Slice(p), t))
  /\ discards' = [discards EXCEPT ![p] = Append(@, t)]
  /\ Remember(p, "Discard", t)
  /\ UNCHANGED <<rules, deck, melds, ting>>
  /\ LET judged == JudgeTasks(p, "Discard", t)'
     IN /\ tasks' = IF judged # {} THEN judged ELSE tasks
        /\ current' = IF judged # {} THEN current ELSE After(current)

\* The discard that is claimed leaves the pile of the one who made it.
Claimed == [discards EXCEPT ![last.player] = SubSeq(@, 1, Len(@) - 1)]

\* HuiTong and TaiHu alike: the turn stays where it was.
Pong(p) ==
  /\ MayPong(p)
  /\ Becomes(p, Remove2(Slice(p), last.tile, last.tile))
  /\ melds' = [melds EXCEPT ![p] = Append(@, [type |-> "Pong", of |-> {last.tile}])]
  /\ discards' = Claimed
  /\ Remember(p, "Pong", Nothing)
  /\ NoTasks
  /\ UNCHANGED <<rules, deck, ting>>

Chi(p, run) ==
  /\ rules = "TH"
  /\ MayChi(p, run)
  /\ \E t, u \in run \ {last.tile} : t # u /\ Becomes(p, Remove2(Slice(p), t, u))
  /\ melds' = [melds EXCEPT ![p] = Append(@, [type |-> "Chi", of |-> run])]
  /\ discards' = Claimed
  /\ Remember(p, "Chi", Nothing)
  /\ NoTasks
  /\ UNCHANGED <<rules, deck, ting>>

\* The tile taken from the hand is the one the client names, not the last one,
\* and the tile drawn for the kong comes from the same end of the deck.
Kong(p, t) ==
  /\ MayKong(p, t)
  /\ LET left == IF LastIsDiscard THEN RemoveTile(Remove2(Slice(p), t, t), t)
                                  ELSE Remove4(Slice(p), t)
     IN Becomes(p, IF deck <= Len(cells) THEN Append1(left, cells[deck]) ELSE left)
  /\ deck' = IF deck <= Len(cells) THEN deck + 1 ELSE deck
  /\ discards' = IF LastIsDiscard THEN Claimed ELSE discards
  /\ melds' = [melds EXCEPT ![p] = Append(@, [type |-> "Kong", of |-> {t}])]
  /\ Remember(p, "Kong", t)
  /\ UNCHANGED <<rules, ting, current>>
  /\ LET judged == JudgeTasks(p, "Kong", t)'
     IN tasks' = IF judged # {} THEN judged ELSE tasks

\* Round never leaves 1, so a ready hand can be declared at any time.
Ting(p) ==
  /\ rules = "HT"
  /\ MayTing(p)
  /\ ting' = ting \cup {p}
  /\ Remember(p, "Ting", Nothing)
  /\ NoTasks
  /\ UNCHANGED <<rules, cells, hands, deck, discards, melds>>

\* Anybody may pass, and it is always the current player's turn that ends.
Pass(p) ==
  /\ current' = After(current)
  /\ Remember(p, "Pass", Nothing)
  /\ UNCHANGED <<rules, cells, hands, deck, discards, melds, ting, tasks>>

\* ProcessTaskTimeout, some time after the tasks have run out.
TaskTimeout ==
  /\ tasks # {}
  /\ tasks' = {}
  /\ current' = After(current)
  /\ UNCHANGED <<rules, cells, hands, deck, discards, melds, ting, last, moves>>

Move(p) ==
  \/ Draw(p) \/ Pong(p) \/ Ting(p) \/ Pass(p)
  \/ \E t \in Kinds : Discard(p, t) \/ Kong(p, t)
  \/ \E run \in Runs : Chi(p, run)

MahjongNext == TaskTimeout \/ \E p \in Seats : Move(p)

MahjongSpec == MahjongInit /\ [][MahjongNext]_mahjongVars

-----------------------------------------------------------------------------
(* Properties *)

\* Types, and however often players draw in whatever order, and whatever kongs
\* bring them, no hand grows into the tiles that are still to be drawn: the array
\* cells it may overwrite are only those of other hands.
MahjongTypeOK ==
  /\ rules \in {"HT", "TH"}
  /\ cells \in Seq(Kinds)
  /\ hands \in [Seats -> [off : Nat \ {0}, len : Nat]]
  /\ \A p \in Seats : hands[p].off + hands[p].len <= deck
  /\ deck \in 1 .. Len(cells) + 1
  /\ current \in Seats
  /\ ting \subseteq Seats
  /\ moves \in 0 .. MaxMoves

\* The tiles of a kind that a player has discarded or laid down.
MeldsOf(p, type, t) ==
  Cardinality({i \in DOMAIN melds[p] : melds[p][i].type = type /\ t \in melds[p][i].of})
Shown(p, t) ==
  Cardinality({i \in DOMAIN discards[p] : discards[p][i] = t})
    + 3 * MeldsOf(p, "Pong", t) + 4 * MeldsOf(p, "Kong", t) + MeldsOf(p, "Chi", t)

\* The tiles of a kind that p can see: those all players show and those in hand.
Numbered(f) == UNION {{p} \X (1 .. f[p]) : p \in Seats}
Known(p, t) ==
  Cardinality(Numbered([q \in Seats |-> Shown(q, t) + (IF q = p THEN CountTile(p, t) ELSE 0)]))

\* Hands are slices of one array that grow and are sorted in place.  The deck is
\* drawn as it was shuffled all the same, and a call writes to no cell that is
\* not in the hand of its player, before or after it.  And for this player no
\* tile turns into another: of every kind, the hand and all that lies open have
\* as many as before and those just drawn, as long as the kong of a discard
\* names that discard (the code takes whatever tile the client names).  Nothing
\* is said of the hands of the other players: the code does not keep their tiles
\* (a hand that grows past its cut writes over the first tiles of the next one).
TilesConserved ==
  [][/\ \A i \in deck' .. Len(cells) : cells'[i] = cells[i]
     /\ \A p \in Seats : moves' # moves /\ last'.player = p =>
          /\ \A i \in DOMAIN cells \ (Span(hands[p]) \cup Span(hands'[p])) : cells'[i] = cells[i]
          /\ (last'.type = "Kong" /\ LastIsDiscard => last'.tile = last.tile) =>
               \A t \in Kinds :
                 Known(p, t)' = Known(p, t) + Cardinality({i \in deck .. deck' - 1 : cells[i] = t})]_mahjongVars

\* Whether what a task offers would be admitted; a win is admitted always, and
\* offered when the tile completes the hand.
Legal(task) ==
  /\ "Pong" \in task.types => MayPong(task.player)
  /\ "Kong" \in task.types => \E t \in Kinds : MayKong(task.player, t)
  /\ "Chi" \in task.types => \E run \in Runs : MayChi(task.player, run)
  /\ "Win" \in task.types => Wins(HandWith(task.player, last.tile))

Offered(q, a) == \E task \in tasks : task.player = q /\ a \in task.types

\* Whether a player is offered all that would be admitted.
AllOffered(q) ==
  /\ MayPong(q) => Offered(q, "Pong")
  /\ LastIsDiscard /\ (\E t \in Kinds : MayKong(q, t)) => Offered(q, "Kong")
  /\ rules = "TH" /\ (\E run \in Runs : MayChi(q, run)) => Offered(q, "Chi")
  /\ last.type \in {"Discard", "Kong"} /\ Wins(HandWith(q, last.tile)) => Offered(q, "Win")

\* Whether a player would be let through with what is available to them.
Available(p) ==
  LET actions == IF rules = "HT" THEN HTAvailableActions(p) ELSE THAvailableActions(p)
  IN /\ "Draw" \in actions => MayDraw(p)
     /\ "Discard" \in actions => \E t \in Kinds : MayDiscard(p, t)
     /\ "Ting" \in actions => MayTing(p)

\* The judge that offers claims, the list of available actions and the validation
\* that admits them are written apart.  What is available is admitted, at any
\* time.  At the step that judges, what is newly offered is admitted, and all that
\* the other players are admitted to is offered.  Nothing is said of tasks that
\* are left over from an earlier step: HandleAction never clears them.
OffersMatch ==
  [][/\ \A p \in Seats : Available(p)'
     /\ tasks' # tasks => \A task \in tasks' : Legal(task)'
     /\ moves' # moves => \A q \in Seats \ {last'.player} : AllOffered(q)']_mahjongVars
=============================================================================
