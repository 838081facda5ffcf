----------------------------- MODULE GamesProofs -----------------------------
(***************************************************************************)
(* What holds of the games of a logic node, for any number of players,     *)
(* calls and Game objects and for any kinds of tiles: of the table of      *)
(* games, of the mahjong engine and of its winning and scoring rules.      *)
(***************************************************************************)
EXTENDS MCGames, FiniteSetTheorems, WellFoundedInduction, TLAPS

-----------------------------------------------------------------------------
(* Least and greatest numbers, of non-empty sets. *)

LEMMA LeastNumber ==
  ASSUME NEW S \in SUBSET Nat, S # {}
  PROVE  \E m \in S : \A n \in S : m <= n
<1> DEFINE R == OpToRel(<, Nat)
<1>1. IsWellFoundedOn(R, Nat)
  BY NatLessThanWellFounded
<1>2. PICK m \in S : \A n \in S : ~ (<<n, m>> \in R)
  <2> HIDE DEF R
  <2> QED
    BY <1>1, WFMin
<1>3. ASSUME NEW n \in S PROVE m <= n
  <2>1. m \in Nat /\ n \in Nat /\ (n < m \/ m <= n)
    OBVIOUS
  <2>2. n < m => <<n, m>> \in R
    BY <2>1 DEF OpToRel
  <2> QED
    BY <1>2, <2>1, <2>2
<1> QED
  BY <1>3

LEMMA GreatestNumber ==
  ASSUME NEW b \in Nat, NEW S \in SUBSET (0 .. b), S # {}
  PROVE  \E m \in S : \A n \in S : n <= m
<1> DEFINE gaps == {b - n : n \in S}
<1>1. gaps \in SUBSET Nat /\ gaps # {}
  <2>1. \A n \in S : n \in 0 .. b /\ b - n \in Nat
    OBVIOUS
  <2> QED
    BY <2>1
<1>2. PICK d \in gaps : \A e \in gaps : d <= e
  <2> HIDE DEF gaps
  <2> QED
    BY <1>1, LeastNumber
<1>3. PICK m \in S : d = b - m
  BY <1>2
<1>4. \A n \in S : n <= m
  BY <1>2, <1>3
<1> QED
  BY <1>4


-----------------------------------------------------------------------------
(* Tiles that are numbered. *)

Pile(S, f) == UNION {{p} \X (1 .. f[p]) : p \in S}

LEMMA PileFinite ==
  ASSUME NEW S, IsFiniteSet(S), NEW f \in [S -> Nat]
  PROVE  IsFiniteSet(Pile(S, f)) /\ Cardinality(Pile(S, f)) \in Nat
<1> DEFINE stack == [p \in S |-> {p} \X (1 .. f[p])]
<1>1. \A p \in S : IsFiniteSet({p} \X (1 .. f[p]))
  <2>1. SUFFICES ASSUME NEW p \in S PROVE IsFiniteSet({p} \X (1 .. f[p]))
    OBVIOUS
  <2>2. f[p] \in Int /\ 1 \in Int
    BY <2>1
  <2>3. IsFiniteSet(1 .. f[p])
    BY <2>2, FS_Interval
  <2>4. IsFiniteSet({p})
    BY FS_Singleton
  <2> QED
    BY <2>3, <2>4, FS_Product
<1>2. IsFiniteSet({stack[p] : p \in S})
  <2>1. stack \in Surjection(S, {stack[p] : p \in S})
    BY DEF Surjection
  <2> QED
    BY <2>1, FS_Surjection
<1>3. \A P \in {stack[p] : p \in S} : IsFiniteSet(P)
  BY <1>1
<1>4. Pile(S, f) = UNION {stack[p] : p \in S}
  BY DEF Pile
<1>5. IsFiniteSet(Pile(S, f))
  BY <1>2, <1>3, <1>4, FS_UNION
<1> QED
  BY <1>5, FS_CardinalityType

LEMMA PileGrows ==
  ASSUME NEW S, IsFiniteSet(S), NEW f \in [S -> Nat], NEW p \in S
  PROVE  Cardinality(Pile(S, [f EXCEPT ![p] = f[p] + 1])) = Cardinality(Pile(S, f)) + 1
<1>1. PICK g : g = [f EXCEPT ![p] = f[p] + 1]
  OBVIOUS
<1>2. g \in [S -> Nat] /\ g[p] = f[p] + 1 /\ \A q \in S \ {p} : g[q] = f[q]
  BY <1>1
<1>3. \A x : x \in Pile(S, f) <=> \E q \in S : x \in {q} \X (1 .. f[q])
  BY DEF Pile
<1>4. \A x : x \in Pile(S, g) <=> \E q \in S : x \in {q} \X (1 .. g[q])
  BY DEF Pile
<1>5. 1 .. g[p] = (1 .. f[p]) \cup {g[p]} /\ g[p] \notin 1 .. f[p]
  BY <1>2
<1>6. <<p, g[p]>> \notin Pile(S, f)
  BY <1>3, <1>5
<1>7. Pile(S, g) = Pile(S, f) \cup {<<p, g[p]>>}
  <2>1. ASSUME NEW x \in Pile(S, g) PROVE x \in Pile(S, f) \cup {<<p, g[p]>>}
    <3>1. PICK q \in S : x \in {q} \X (1 .. g[q])
      BY <1>4, <2>1
    <3>2. CASE q = p
      BY <1>3, <1>5, <3>1, <3>2
    <3>3. CASE q # p
      BY <1>2, <1>3, <3>1, <3>3
    <3> QED
      BY <3>2, <3>3
  <2>2. ASSUME NEW x \in Pile(S, f) PROVE x \in Pile(S, g)
    <3>1. PICK q \in S : x \in {q} \X (1 .. f[q])
      BY <1>3, <2>2
    <3>2. CASE q = p
      BY <1>4, <1>5, <3>1, <3>2
    <3>3. CASE q # p
      BY <1>2, <1>4, <3>1, <3>3
    <3> QED
      BY <3>2, <3>3
  <2>3. <<p, g[p]>> \in Pile(S, g)
    <3>1. g[p] \in 1 .. g[p]
      BY <1>5
    <3> QED
      BY <1>4, <3>1
  <2> QED
    BY <2>1, <2>2, <2>3
<1>8. Cardinality(Pile(S, f) \cup {<<p, g[p]>>}) = Cardinality(Pile(S, f)) + 1
  BY <1>6, PileFinite, FS_AddElement
<1> QED
  BY <1>1, <1>7, <1>8

-----------------------------------------------------------------------------
(* The table of games.  The inductive invariant adds to the properties that a   *)
(* call holds a Game that was made, and that a Game has an engine from the      *)
(* moment a call has set one.                                                   *)

Places == {"idle", "store", "have", "set", "done"}

GameTyping ==
  /\ GameTypeOK
  /\ starter \in [Starters -> [at : Places, game : Games \cup {NoGame}]]
  /\ \A s \in Starters : starter[s].at # "idle" => starter[s].game \in Games

\* A call that has set an engine finds one when it goes on.
EngineIsSet ==
  \A s \in Starters : starter[s].at = "set" => engine[starter[s].game] # NoGame

GameInv == GameTyping /\ EngineIsSet /\ StartersShareGame /\ EngineIsDealt

LEMMA GameInitInv == GameInit => GameInv
<1>1. SUFFICES ASSUME GameInit PROVE GameInv
  OBVIOUS
<1>2. GameTyping
  <2>1. GameTypeOK
    <3>1. 0 \in 0 .. MaxGames
      BY MaxGamesAssumption
    <3> QED BY <1>1, <3>1 DEF GameInit, GameTypeOK
  <2>2. starter \in [Starters -> [at : Places, game : Games \cup {NoGame}]]
    BY <1>1 DEF GameInit, Places
  <2> QED BY <1>1, <2>1, <2>2 DEF GameInit, GameTyping
<1>3. EngineIsSet /\ StartersShareGame /\ EngineIsDealt
  BY <1>1 DEF GameInit, EngineIsSet, StartersShareGame, HoldsGame, EngineIsDealt
<1> QED BY <1>2, <1>3 DEF GameInv

\* A step that leaves the calls, the engines and what is dealt alone.
LEMMA GameStepsAside ==
  ASSUME GameInv,
         UNCHANGED <<starter, engine, dealt>>
  PROVE  EngineIsSet' /\ EngineIsDealt'
BY DEF GameInv, EngineIsSet, EngineIsDealt

LEMMA LoadInv ==
  ASSUME GameInv, NEW s \in Starters, Load(s)
  PROVE  GameInv'
<1>1. GameTyping /\ EngineIsSet /\ StartersShareGame /\ EngineIsDealt
  BY DEF GameInv
<1>2. PICK to \in {"have", "store"}, g \in Games :
        /\ StarterGoes(s, to, g)
        /\ to = "have" => g = listed
        /\ made' \in 0 .. MaxGames
  BY <1>1, MaxGamesAssumption, NoGameAssumption DEF Load, GameTyping, GameTypeOK, Games
<1>3. /\ UNCHANGED <<listed, engine, dealt, inactive, evicted, evictor>>
      /\ starter' = [starter EXCEPT ![s] = [at |-> to, game |-> g]]
      /\ starter[s].at = "idle"
  BY <1>2 DEF Load, StarterGoes
<1>4. \A t \in Starters : starter'[t] = IF t = s THEN [at |-> to, game |-> g] ELSE starter[t]
  BY <1>1, <1>3 DEF GameTyping
<1>5. GameTyping'
  BY <1>1, <1>2, <1>3, <1>4 DEF GameTyping, GameTypeOK, Places
<1>6. EngineIsSet'
  BY <1>1, <1>3, <1>4 DEF EngineIsSet
<1>7. StartersShareGame'
  BY <1>1, <1>2, <1>3, <1>4 DEF StartersShareGame, HoldsGame
<1>8. EngineIsDealt'
  BY <1>1, <1>3, <1>4 DEF EngineIsDealt
<1> QED BY <1>5, <1>6, <1>7, <1>8 DEF GameInv

LEMMA LoadOrStoreInv ==
  ASSUME GameInv, NEW s \in Starters, LoadOrStore(s)
  PROVE  GameInv'
<1>1. GameTyping /\ EngineIsSet /\ StartersShareGame /\ EngineIsDealt
  BY DEF GameInv
<1>2. /\ UNCHANGED <<made, engine, dealt, inactive, evicted, evictor>>
      /\ starter' = [starter EXCEPT ![s] = [at |-> "have", game |-> listed']]
      /\ starter[s].at = "store"
      /\ listed' = IF listed = NoGame THEN starter[s].game ELSE listed
  BY DEF LoadOrStore, StarterGoes
<1>3. listed' \in Games
  BY <1>1, <1>2 DEF GameTyping, GameTypeOK
<1>4. \A t \in Starters : starter'[t] = IF t = s THEN [at |-> "have", game |-> listed'] ELSE starter[t]
  BY <1>1, <1>2 DEF GameTyping
<1>5. GameTyping'
  BY <1>1, <1>2, <1>3, <1>4 DEF GameTyping, GameTypeOK, Places
<1>6. EngineIsSet'
  BY <1>1, <1>2, <1>4 DEF EngineIsSet
<1>7. StartersShareGame'
  <2>1. SUFFICES ASSUME NEW t \in Starters, HoldsGame(t)'
                 PROVE  starter'[t].game = listed' \/ starter'[t].game \in evicted'
    BY DEF StartersShareGame
  <2>2. CASE t = s
    BY <1>4, <2>2
  <2>3. CASE t # s
    <3>1. starter'[t] = starter[t] /\ HoldsGame(t)
      BY <1>4, <2>1, <2>3 DEF HoldsGame
    <3>2. starter[t].game \in Games /\ starter[t].game # NoGame
      BY <1>1, <3>1, NoGameAssumption DEF HoldsGame, GameTyping
    <3>3. starter[t].game = listed \/ starter[t].game \in evicted
      BY <1>1, <3>1 DEF StartersShareGame
    <3> QED BY <1>2, <3>1, <3>2, <3>3
  <2> QED BY <2>2, <2>3
<1>8. EngineIsDealt'
  BY <1>1, <1>2, <1>4 DEF EngineIsDealt
<1> QED BY <1>5, <1>6, <1>7, <1>8 DEF GameInv

LEMMA SetEngineInv ==
  ASSUME GameInv, NEW s \in Starters, SetEngine(s)
  PROVE  GameInv'
<1>1. GameTyping /\ EngineIsSet /\ StartersShareGame /\ EngineIsDealt
  BY DEF GameInv
<1>2. PICK g : g = starter[s].game
  OBVIOUS
<1>3. /\ UNCHANGED <<listed, made, dealt, evicted, evictor>>
      /\ starter' = [starter EXCEPT ![s] = [at |-> "set", game |-> g]]
      /\ engine' = [engine EXCEPT ![g] = s]
      /\ inactive' = inactive \ {g}
      /\ starter[s].at = "have"
  BY <1>2 DEF SetEngine, StarterGoes
<1>4. g \in Games
  BY <1>1, <1>2, <1>3 DEF GameTyping
<1>5. \A t \in Starters : starter'[t] = IF t = s THEN [at |-> "set", game |-> g] ELSE starter[t]
  BY <1>1, <1>3 DEF GameTyping
<1>6. \A f \in Games : engine'[f] = IF f = g THEN s ELSE engine[f]
  BY <1>1, <1>3 DEF GameTyping, GameTypeOK
<1>7. s # NoGame
  BY NoGameAssumption
<1>8. GameTyping'
  <2>1. engine' \in [Games -> Starters \cup {NoGame}] /\ inactive' \subseteq Games
    BY <1>1, <1>3 DEF GameTyping, GameTypeOK
  <2> QED BY <1>1, <1>3, <1>4, <1>5, <2>1 DEF GameTyping, GameTypeOK, Places
<1>9. EngineIsSet'
  <2>1. SUFFICES ASSUME NEW t \in Starters, starter'[t].at = "set"
                 PROVE  engine'[starter'[t].game] # NoGame
    BY DEF EngineIsSet
  <2>2. CASE t = s
    BY <1>4, <1>5, <1>6, <1>7, <2>2
  <2>3. CASE t # s
    <3>1. starter'[t] = starter[t] /\ starter[t].game \in Games
      BY <1>1, <1>5, <2>1, <2>3 DEF GameTyping
    <3> QED BY <1>1, <1>6, <1>7, <2>1, <3>1 DEF EngineIsSet
  <2> QED BY <2>2, <2>3
<1>10. StartersShareGame'
  BY <1>1, <1>2, <1>3, <1>5 DEF StartersShareGame, HoldsGame
<1>11. EngineIsDealt'
  <2>1. SUFFICES ASSUME NEW f \in Games, engine'[f] # NoGame,
                        \A t \in Starters : starter'[t] # [at |-> "set", game |-> f]
                 PROVE  engine'[f] \in dealt'
    BY DEF EngineIsDealt
  <2>2. f # g
    BY <1>5, <2>1
  <2>3. \A t \in Starters : starter[t] # [at |-> "set", game |-> f]
    BY <1>3, <1>5, <2>1
  <2> QED BY <1>1, <1>3, <1>6, <2>1, <2>2, <2>3 DEF EngineIsDealt
<1> QED BY <1>8, <1>9, <1>10, <1>11 DEF GameInv

LEMMA InitMahjongGameInv ==
  ASSUME GameInv, NEW s \in Starters, InitMahjongGame(s)
  PROVE  GameInv'
<1>1. GameTyping /\ EngineIsSet /\ StartersShareGame /\ EngineIsDealt
  BY DEF GameInv
<1>2. PICK g : g = starter[s].game
  OBVIOUS
<1>3. /\ UNCHANGED <<listed, made, engine, evicted, evictor>>
      /\ starter' = [starter EXCEPT ![s] = [at |-> "done", game |-> g]]
      /\ dealt' = dealt \cup {engine[g]}
      /\ inactive' = inactive \ {g}
      /\ starter[s].at = "set"
  BY <1>2 DEF InitMahjongGame, StarterGoes
<1>4. g \in Games /\ engine[g] \in Starters
  BY <1>1, <1>2, <1>3 DEF GameTyping, GameTypeOK, EngineIsSet
<1>5. \A t \in Starters : starter'[t] = IF t = s THEN [at |-> "done", game |-> g] ELSE starter[t]
  BY <1>1, <1>3 DEF GameTyping
<1>6. GameTyping'
  <2>1. dealt' \subseteq Starters /\ inactive' \subseteq Games
    BY <1>1, <1>3, <1>4 DEF GameTyping, GameTypeOK
  <2> QED BY <1>1, <1>3, <1>4, <1>5, <2>1 DEF GameTyping, GameTypeOK, Places
<1>7. EngineIsSet'
  BY <1>1, <1>3, <1>5 DEF EngineIsSet
<1>8. StartersShareGame'
  BY <1>1, <1>2, <1>3, <1>5 DEF StartersShareGame, HoldsGame
<1>9. EngineIsDealt'
  <2>1. SUFFICES ASSUME NEW f \in Games, engine[f] # NoGame, f # g,
                        \A t \in Starters : starter'[t] # [at |-> "set", game |-> f]
                 PROVE  engine[f] \in dealt
    BY <1>3 DEF EngineIsDealt
  <2>2. starter[s] # [at |-> "set", game |-> f]
    BY <1>2, <2>1
  <2>3. \A t \in Starters : starter[t] # [at |-> "set", game |-> f]
    BY <1>5, <2>1, <2>2
  <2> QED BY <1>1, <2>1, <2>3 DEF EngineIsDealt
<1> QED BY <1>6, <1>7, <1>8, <1>9 DEF GameInv

LEMMA EvictRemoveInv ==
  ASSUME GameInv, EvictRemove
  PROVE  GameInv'
<1>1. GameTyping /\ EngineIsSet /\ StartersShareGame /\ EngineIsDealt
  BY DEF GameInv
<1>2. /\ UNCHANGED <<made, engine, dealt, inactive, starter>>
      /\ evictor' = FALSE /\ listed' = NoGame
      /\ evicted' = IF listed = NoGame THEN evicted ELSE evicted \cup {listed}
  BY DEF EvictRemove
<1>3. GameTyping'
  <2>1. evicted' \subseteq Games
    BY <1>1, <1>2 DEF GameTyping, GameTypeOK
  <2> QED BY <1>1, <1>2, <2>1 DEF GameTyping, GameTypeOK
<1>4. StartersShareGame'
  <2>1. SUFFICES ASSUME NEW t \in Starters, HoldsGame(t)
                 PROVE  starter[t].game \in evicted'
    BY <1>2 DEF StartersShareGame, HoldsGame
  <2>2. starter[t].game # NoGame
    BY <1>1, <2>1, NoGameAssumption DEF HoldsGame, GameTyping
  <2>3. starter[t].game = listed \/ starter[t].game \in evicted
    BY <1>1, <2>1 DEF StartersShareGame
  <2> QED BY <1>2, <2>2, <2>3
<1>5. EngineIsSet' /\ EngineIsDealt'
  BY <1>2, GameStepsAside
<1> QED BY <1>3, <1>4, <1>5 DEF GameInv

\* Moves, the passing of time and the scan change nothing the calls see.
LEMMA GameOtherStepsInv ==
  ASSUME GameInv, HandlePlayerAction \/ GoInactive \/ EvictScan \/ UNCHANGED gameVars
  PROVE  GameInv'
<1>1. GameTyping /\ EngineIsSet /\ StartersShareGame /\ EngineIsDealt
  BY DEF GameInv
<1>2. UNCHANGED <<listed, made, engine, dealt, evicted, starter>>
  BY DEF HandlePlayerAction, GoInactive, EvictScan, gameVars
<1>3. inactive' \subseteq Games /\ evictor' \in BOOLEAN
  <2>1. CASE HandlePlayerAction
    BY <1>1, <2>1 DEF HandlePlayerAction, GameTyping, GameTypeOK
  <2>2. CASE GoInactive
    BY <1>1, <2>2 DEF GoInactive, GameTyping, GameTypeOK
  <2>3. CASE EvictScan
    BY <1>1, <2>3 DEF EvictScan, GameTyping, GameTypeOK
  <2>4. CASE UNCHANGED gameVars
    BY <1>1, <2>4 DEF gameVars, GameTyping, GameTypeOK
  <2> QED BY <2>1, <2>2, <2>3, <2>4
<1>4. GameTyping'
  BY <1>1, <1>2, <1>3 DEF GameTyping, GameTypeOK
<1>5. StartersShareGame'
  BY <1>1, <1>2 DEF StartersShareGame, HoldsGame
<1>6. EngineIsSet' /\ EngineIsDealt'
  BY <1>2, GameStepsAside
<1> QED BY <1>4, <1>5, <1>6 DEF GameInv

LEMMA GameNextInv == GameInv /\ [GameNext]_gameVars => GameInv'
<1>1. SUFFICES ASSUME GameInv, [GameNext]_gameVars PROVE GameInv'
  OBVIOUS
<1>2. ASSUME NEW s \in Starters, Load(s) PROVE GameInv'
  BY <1>1, <1>2, LoadInv
<1>3. ASSUME NEW s \in Starters, LoadOrStore(s) PROVE GameInv'
  BY <1>1, <1>3, LoadOrStoreInv
<1>4. ASSUME NEW s \in Starters, SetEngine(s) PROVE GameInv'
  BY <1>1, <1>4, SetEngineInv
<1>5. ASSUME NEW s \in Starters, InitMahjongGame(s) PROVE GameInv'
  BY <1>1, <1>5, InitMahjongGameInv
<1>6. CASE EvictRemove
  BY <1>1, <1>6, EvictRemoveInv
<1>7. CASE HandlePlayerAction \/ GoInactive \/ EvictScan \/ UNCHANGED gameVars
  BY <1>1, <1>7, GameOtherStepsInv
<1> QED BY <1>1, <1>2, <1>3, <1>4, <1>5, <1>6, <1>7 DEF GameNext

LEMMA GameAlwaysInv == GameSpec => []GameInv
<1>1. GameInv /\ [GameNext]_gameVars => GameInv'
  BY GameNextInv
<1> QED BY <1>1, GameInitInv, PTL DEF GameSpec

\* The type invariant of GameManager, Game and the calls, for any number of each.
THEOREM GameTyped == GameSpec => []GameTypeOK
<1>1. GameInv => GameTypeOK
  BY DEF GameInv, GameTyping
<1> QED BY <1>1, GameAlwaysInv, PTL

\* However many StartGame calls of a room (game/mahjong/start_game.go) run
\* at once, and whatever is evicted meanwhile: they come together in the Game
\* players reach, or in one that was evicted, and once none of them is between
\* setting and initialising an engine, a Game with an engine has one that is dealt.
THEOREM GameOneDealt == GameSpec => []OneDealtGame
<1>1. GameInv => OneDealtGame
  BY DEF GameInv, OneDealtGame
<1> QED BY <1>1, GameAlwaysInv, PTL

-----------------------------------------------------------------------------
(* The mahjong engine: sorting a slice, a hand on the shared array, the tiles. *)

LEMMA MinIs ==
  ASSUME NEW S \in SUBSET Nat, S # {}
  PROVE  Min(S) \in S /\ \A n \in S : Min(S) <= n
<1>1. \E m \in S : \A n \in S : m <= n
  BY LeastNumber
<1> QED
  BY <1>1 DEF Min

-----------------------------------------------------------------------------
(* A slice is sorted by counting: there is a kind for every place. *)

LEMMA BeforeIsOrder ==
  ASSUME NEW a \in Kinds, NEW b \in Kinds, NEW c \in Kinds
  PROVE  /\ ~Before(a, a)
         /\ Before(a, b) => ~Before(b, a)
         /\ ~Before(b, a) /\ ~Before(c, b) => ~Before(c, a)
         /\ Before(a, b) /\ ~Before(c, b) => Before(a, c)
         /\ Before(a, b) /\ Before(b, c) => Before(a, c)
<1>1. /\ a.suit \in 0 .. 3 /\ a.value \in 1 .. 9
      /\ b.suit \in 0 .. 3 /\ b.value \in 1 .. 9
      /\ c.suit \in 0 .. 3 /\ c.value \in 1 .. 9
  BY KindsAssumption
<1> QED
  BY <1>1 DEF Before

SliceIn(array, h) ==
  /\ array \in Seq(Kinds) /\ h \in [off : Nat \ {0}, len : Nat]
  /\ h.off + h.len <= Len(array) + 1

\* The tiles of a slice that are not after a kind.
UpTo(array, h, k) == {j \in Span(h) : ~Before(k, array[j])}

LEMMA SpanIs ==
  ASSUME NEW array, NEW h, SliceIn(array, h)
  PROVE  /\ IsFiniteSet(Span(h)) /\ Cardinality(Span(h)) = h.len
         /\ Span(h) \subseteq DOMAIN array
         /\ \A j \in Span(h) : array[j] \in Kinds
         /\ \A k : /\ IsFiniteSet(UpTo(array, h, k))
                   /\ Cardinality(UpTo(array, h, k)) \in 0 .. h.len
<1>1. /\ h.off \in Nat /\ h.off >= 1 /\ h.len \in Nat /\ array \in Seq(Kinds)
      /\ h.off + h.len <= Len(array) + 1
  BY DEF SliceIn
<1>2. IsFiniteSet(Span(h)) /\ Cardinality(Span(h)) = h.len
  <2> PICK o \in Nat, l \in Nat : o = h.off /\ l = h.len
    BY <1>1
  <2>1. Span(h) = o .. o + l - 1
    BY DEF Span
  <2>2. o \in Int /\ o + l - 1 \in Int
    OBVIOUS
  <2>3. /\ IsFiniteSet(o .. o + l - 1)
        /\ Cardinality(o .. o + l - 1) = IF o > o + l - 1 THEN 0 ELSE (o + l - 1) - o + 1
    BY <2>2, FS_Interval
  <2>4. Cardinality(o .. o + l - 1) = l
    BY <2>3
  <2> QED
    BY <2>1, <2>3, <2>4
<1>3. Span(h) \subseteq DOMAIN array /\ \A j \in Span(h) : array[j] \in Kinds
  BY <1>1 DEF Span
<1>4. ASSUME NEW k
      PROVE  IsFiniteSet(UpTo(array, h, k)) /\ Cardinality(UpTo(array, h, k)) \in 0 .. h.len
  <2>1. UpTo(array, h, k) \subseteq Span(h)
    BY DEF UpTo
  <2> QED
    BY <1>1, <1>2, <2>1, FS_Subset, FS_CardinalityType
<1> QED
  BY <1>2, <1>3, <1>4

\* More of a slice is not after a tile of it than after one before that.
LEMMA UpToGrows ==
  ASSUME NEW array, NEW h, SliceIn(array, h), NEW i \in Span(h), NEW j \in Span(h),
         Before(array[i], array[j])
  PROVE  Cardinality(UpTo(array, h, array[i])) < Cardinality(UpTo(array, h, array[j]))
<1>1. \A n \in Span(h) : array[n] \in Kinds
  BY SpanIs
<1>2. UpTo(array, h, array[i]) \subseteq UpTo(array, h, array[j])
  BY <1>1, BeforeIsOrder DEF UpTo
<1>3. j \in UpTo(array, h, array[j]) /\ j \notin UpTo(array, h, array[i])
  BY <1>1, BeforeIsOrder DEF UpTo
<1> QED
  BY <1>2, <1>3, SpanIs, FS_Subset, FS_CardinalityType

LEMMA NthExists ==
  ASSUME NEW array, NEW h, SliceIn(array, h), NEW n \in 1 .. h.len
  PROVE  \E k \in Kinds :
           /\ Cardinality({j \in Span(h) : Before(array[j], k)}) < n
           /\ n <= Cardinality({j \in Span(h) : ~Before(k, array[j])})
<1> DEFINE C(j) == Cardinality(UpTo(array, h, array[j]))
<1>0. h.len \in Nat
  BY DEF SliceIn
<1>1. \A j \in Span(h) : C(j) \in 0 .. h.len /\ array[j] \in Kinds
  BY SpanIs
<1>2. \A i, j \in Span(h) : Before(array[i], array[j]) => C(i) < C(j)
  BY UpToGrows
<1> HIDE DEF C
<1>3. \E j \in Span(h) : C(j) >= n
  <2>1. Span(h) # {}
    BY SpanIs, FS_EmptySet
  <2>2. {C(j) : j \in Span(h)} \in SUBSET (0 .. h.len) /\ {C(j) : j \in Span(h)} # {}
    BY <1>1, <2>1
  <2>3. PICK j \in Span(h) : \A i \in Span(h) : C(i) <= C(j)
    BY <1>0, <2>2, GreatestNumber
  <2>4. \A i \in Span(h) : ~Before(array[j], array[i])
    BY <1>0, <1>1, <1>2, <2>3
  <2>5. UpTo(array, h, array[j]) = Span(h)
    BY <2>4 DEF UpTo
  <2> QED
    BY <1>0, <2>5, SpanIs DEF C
<1>4. PICK j \in Span(h) : C(j) >= n /\ \A i \in Span(h) : C(i) >= n => C(j) <= C(i)
  <2> DEFINE M == {C(i) : i \in {x \in Span(h) : C(x) >= n}}
  <2>1. M \in SUBSET Nat /\ M # {}
    BY <1>0, <1>1, <1>3
  <2>2. PICK m \in M : \A c \in M : m <= c
    <3> HIDE DEF M
    <3> QED
      BY <2>1, LeastNumber
  <2> QED
    BY <2>2
<1> DEFINE L == {i \in Span(h) : Before(array[i], array[j])}
<1>5. Cardinality(L) < n
  <2>1. CASE L = {}
    BY <2>1, FS_EmptySet
  <2>2. CASE L # {}
    <3>1. {C(i) : i \in L} \in SUBSET (0 .. h.len) /\ {C(i) : i \in L} # {}
      BY <1>1, <2>2
    <3>2. PICK m \in L : \A i \in L : C(i) <= C(m)
      BY <1>0, <3>1, GreatestNumber
    <3>3. L \subseteq UpTo(array, h, array[m])
      BY <1>0, <1>1, <1>2, <3>2 DEF UpTo
    <3>4. Cardinality(L) <= C(m) /\ Cardinality(L) \in Nat
      BY <3>3, SpanIs, FS_Subset, FS_CardinalityType DEF C
    <3>5. C(m) < C(j)
      BY <1>2, <3>2
    <3> QED
      BY <1>0, <1>1, <1>4, <3>2, <3>4, <3>5
  <2> QED
    BY <2>1, <2>2
<1>6. n <= Cardinality({i \in Span(h) : ~Before(array[j], array[i])})
  BY <1>4 DEF C, UpTo
<1> QED
  BY <1>1, <1>5, <1>6

\* Sorting a slice changes nothing outside it and brings no other tiles.
LEMMA SortTilesIs ==
  ASSUME NEW array, NEW h, SliceIn(array, h)
  PROVE  /\ SortTiles(array, h) \in Seq(Kinds) /\ Len(SortTiles(array, h)) = Len(array)
         /\ \A i \in DOMAIN array : i \notin Span(h) => SortTiles(array, h)[i] = array[i]
<1> DEFINE Nth(n) == CHOOSE k \in Kinds :
                       /\ Cardinality({j \in Span(h) : Before(array[j], k)}) < n
                       /\ n <= Cardinality({j \in Span(h) : ~Before(k, array[j])})
<1>1. \A n \in 1 .. h.len : Nth(n) \in Kinds
  BY NthExists
<1>2. SortTiles(array, h) = [i \in DOMAIN array |-> IF i \in Span(h) THEN Nth(i - h.off + 1)
                                                                    ELSE array[i]]
  BY DEF SortTiles
<1> HIDE DEF Nth
<1>3. /\ array \in Seq(Kinds) /\ Len(array) \in Nat /\ DOMAIN array = 1 .. Len(array)
      /\ h.off \in Nat /\ h.off >= 1 /\ h.len \in Nat
  BY DEF SliceIn
<1>4. \A i \in Span(h) : i - h.off + 1 \in 1 .. h.len
  BY <1>3 DEF Span
<1>5. \A i \in 1 .. Len(array) : SortTiles(array, h)[i] \in Kinds
  BY <1>1, <1>2, <1>3, <1>4
<1>6. SortTiles(array, h) \in [1 .. Len(array) -> Kinds]
  BY <1>2, <1>3, <1>5
<1> QED
  BY <1>2, <1>3, <1>6

\* A slice that is sorted has as many tiles of every kind as before: those of a
\* kind fill the places between the tiles before them and the ones behind.
LEMMA SortTilesCount ==
  ASSUME NEW array, NEW h, SliceIn(array, h), NEW t \in Kinds
  PROVE  Cardinality({i \in Span(h) : SortTiles(array, h)[i] = t})
           = Cardinality({i \in Span(h) : array[i] = t})
<1> DEFINE L(k) == {j \in Span(h) : Before(array[j], k)}
           U(k) == {j \in Span(h) : ~Before(k, array[j])}
           Nth(n) == CHOOSE k \in Kinds : Cardinality(L(k)) < n /\ n <= Cardinality(U(k))
           E == {i \in Span(h) : array[i] = t}
<1>1. PICK o \in Nat, l \in Nat, n \in Nat :
        o = h.off /\ l = h.len /\ n = Len(array) /\ o >= 1 /\ DOMAIN array = 1 .. n
  BY DEF SliceIn
<1>2. /\ IsFiniteSet(Span(h)) /\ Cardinality(Span(h)) = l
      /\ Span(h) \subseteq 1 .. n /\ \A j \in Span(h) : array[j] \in Kinds
      /\ \A i : i \in Span(h) <=> i \in Nat /\ o <= i /\ i < o + l
  BY <1>1, SpanIs DEF Span
<1>3. \A k : /\ IsFiniteSet(L(k)) /\ IsFiniteSet(U(k))
             /\ Cardinality(L(k)) \in Nat /\ Cardinality(U(k)) \in Nat
             /\ Cardinality(U(k)) <= l
  <2>1. SUFFICES ASSUME NEW k
                 PROVE  /\ IsFiniteSet(L(k)) /\ IsFiniteSet(U(k))
                        /\ Cardinality(L(k)) \in Nat /\ Cardinality(U(k)) \in Nat
                        /\ Cardinality(U(k)) <= l
    OBVIOUS
  <2>2. L(k) \in SUBSET Span(h) /\ U(k) \in SUBSET Span(h)
    OBVIOUS
  <2> HIDE DEF L, U
  <2> QED
    BY <1>2, <2>2, FS_Subset, FS_CardinalityType
<1>4. ASSUME NEW a \in Kinds, NEW b \in Kinds, Before(a, b)
      PROVE  Cardinality(U(a)) <= Cardinality(L(b))
  <2>1. ASSUME NEW x \in Kinds, ~Before(a, x)
        PROVE  Before(x, b)
    <3>1. /\ a.suit \in 0 .. 3 /\ a.value \in 1 .. 9
          /\ b.suit \in 0 .. 3 /\ b.value \in 1 .. 9
          /\ x.suit \in 0 .. 3 /\ x.value \in 1 .. 9
      BY KindsAssumption
    <3> QED
      BY <1>4, <2>1, <3>1 DEF Before
  <2>2. U(a) \in SUBSET L(b)
    BY <1>2, <2>1
  <2> HIDE DEF L, U
  <2> QED
    BY <1>3, <2>2, FS_Subset
<1>5. \A a, b \in Kinds : a = b \/ Before(a, b) \/ Before(b, a)
  <2>1. SUFFICES ASSUME NEW a \in Kinds, NEW b \in Kinds
                 PROVE  a = b \/ Before(a, b) \/ Before(b, a)
    OBVIOUS
  <2>2. /\ a.suit \in 0 .. 3 /\ a.value \in 1 .. 9 /\ a = [suit |-> a.suit, value |-> a.value]
        /\ b.suit \in 0 .. 3 /\ b.value \in 1 .. 9 /\ b = [suit |-> b.suit, value |-> b.value]
    BY KindsAssumption
  <2>3. a.suit = b.suit /\ a.value = b.value => a = b
    BY <2>2
  <2> QED
    BY <2>2, <2>3 DEF Before
<1>6. Cardinality(U(t)) = Cardinality(L(t)) + Cardinality(E)
      /\ IsFiniteSet(E) /\ Cardinality(E) \in Nat
  <2>1. ASSUME NEW j \in Span(h)
        PROVE  ~Before(t, array[j]) <=> Before(array[j], t) \/ array[j] = t
    BY <1>2, <1>5, BeforeIsOrder
  <2>2. U(t) = L(t) \cup E
    BY <2>1
  <2>3. L(t) \cap E = {}
    BY <1>2, BeforeIsOrder
  <2>4. IsFiniteSet(E) /\ Cardinality(E) \in Nat
    <3>1. E \in SUBSET Span(h)
      OBVIOUS
    <3> HIDE DEF E
    <3> QED
      BY <1>2, <3>1, FS_Subset, FS_CardinalityType
  <2> HIDE DEF E, L, U
  <2>5. Cardinality(L(t) \cup E) = Cardinality(L(t)) + Cardinality(E) - Cardinality(L(t) \cap E)
    BY <1>3, <2>4, FS_Union
  <2>6. Cardinality(L(t) \cap E) = 0
    BY <2>3, FS_EmptySet
  <2> QED
    BY <1>3, <2>2, <2>4, <2>5, <2>6
<1>7. PICK x \in Nat, e \in Nat :
        x = Cardinality(L(t)) /\ e = Cardinality(E) /\ x + e = Cardinality(U(t)) /\ x + e <= l
  BY <1>3, <1>6
<1>8. ASSUME NEW m \in 1 .. l
      PROVE  Nth(m) = t <=> x < m /\ m <= x + e
  <2>1. \E k \in Kinds : Cardinality(L(k)) < m /\ m <= Cardinality(U(k))
    BY <1>1, NthExists
  <2> HIDE DEF L, U
  <2>2. Nth(m) \in Kinds /\ Cardinality(L(Nth(m))) < m /\ m <= Cardinality(U(Nth(m)))
    BY <2>1
  <2> HIDE DEF Nth
  <2>3. CASE Nth(m) = t
    BY <1>7, <2>2, <2>3
  <2>4. CASE Before(Nth(m), t)
    <3>1. Cardinality(U(Nth(m))) <= x
      BY <1>4, <1>7, <2>2, <2>4
    <3>2. m <= x
      BY <1>3, <2>2, <3>1
    <3> QED
      BY <2>2, <2>4, <3>2, BeforeIsOrder
  <2>5. CASE Before(t, Nth(m))
    <3>1. x + e <= Cardinality(L(Nth(m)))
      BY <1>4, <1>7, <2>2, <2>5
    <3>2. x + e < m
      BY <1>3, <2>2, <3>1
    <3> QED
      BY <2>2, <2>5, <3>2, BeforeIsOrder
  <2> QED
    BY <1>5, <2>2, <2>3, <2>4, <2>5
<1>9. \A i \in Span(h) : SortTiles(array, h)[i] = Nth(i - o + 1)
  BY <1>1, <1>2 DEF SortTiles
<1> HIDE DEF Nth, L, U
<1>10. {i \in Span(h) : SortTiles(array, h)[i] = t} = o + x .. o + x + e - 1
  <2>1. ASSUME NEW i
        PROVE  i \in Span(h) /\ SortTiles(array, h)[i] = t <=> i \in o + x .. o + x + e - 1
    <3>1. CASE i \in Span(h)
      <4>1. i \in Nat /\ i - o + 1 \in 1 .. l
        BY <1>2, <3>1
      <4>2. SortTiles(array, h)[i] = t <=> x < i - o + 1 /\ i - o + 1 <= x + e
        BY <1>8, <1>9, <3>1, <4>1
      <4> QED
        BY <3>1, <4>1, <4>2
    <3>2. CASE i \notin Span(h)
      <4>1. i \in o + x .. o + x + e - 1 => i \in Nat /\ o <= i /\ i < o + l
        BY <1>7
      <4> QED
        BY <1>2, <3>2, <4>1
    <3> QED
      BY <3>1, <3>2
  <2> QED
    BY <2>1
<1>11. Cardinality(o + x .. o + x + e - 1) = e
  <2>1. o + x \in Int /\ o + x + e - 1 \in Int
    OBVIOUS
  <2>2. Cardinality(o + x .. o + x + e - 1)
          = IF o + x > o + x + e - 1 THEN 0 ELSE (o + x + e - 1) - (o + x) + 1
    BY <2>1, FS_Interval
  <2> QED
    BY <2>2
<1> QED
  BY <1>7, <1>10, <1>11

-----------------------------------------------------------------------------
(* Slices that give up a tile and take one. *)

Hand == [off : Nat \ {0}, len : Nat]
InArray(s) == s \in [array : Seq(Kinds), hand : Hand] /\ SliceIn(s.array, s.hand)
Count(s, t) == Cardinality({i \in Span(s.hand) : s.array[i] = t})
HasTile(s, t) == \E i \in Span(s.hand) : s.array[i] = t

\* The same array but for the slice r, which starts where s does.
SameElsewhere(s, r) ==
  /\ InArray(r) /\ r.hand.off = s.hand.off /\ Len(r.array) = Len(s.array)
  /\ \A i \in 1 .. Len(s.array) :
       i \notin Span(s.hand) /\ i \notin Span(r.hand) => r.array[i] = s.array[i]

LEMMA SpanFacts ==
  ASSUME NEW s, InArray(s)
  PROVE  /\ s.hand.off \in Nat /\ s.hand.off >= 1 /\ s.hand.len \in Nat
         /\ Len(s.array) \in Nat /\ DOMAIN s.array = 1 .. Len(s.array)
         /\ s.hand.off + s.hand.len <= Len(s.array) + 1
         /\ \A i : i \in Span(s.hand) <=> i \in Nat /\ s.hand.off <= i /\ i < s.hand.off + s.hand.len
         /\ \A i \in 1 .. Len(s.array) : s.array[i] \in Kinds
         /\ \A i \in Span(s.hand) : i \in 1 .. Len(s.array)
         /\ s.array \in Seq(Kinds)
<1>1. /\ s.hand.off \in Nat /\ s.hand.off >= 1 /\ s.hand.len \in Nat
      /\ s.array \in Seq(Kinds) /\ s.hand.off + s.hand.len <= Len(s.array) + 1
  BY DEF InArray, SliceIn, Hand
<1>2. /\ Len(s.array) \in Nat /\ DOMAIN s.array = 1 .. Len(s.array)
      /\ \A i \in 1 .. Len(s.array) : s.array[i] \in Kinds
  BY <1>1
<1>3. \A i : i \in Span(s.hand) <=> i \in Nat /\ s.hand.off <= i /\ i < s.hand.off + s.hand.len
  BY <1>1 DEF Span
<1> QED
  BY <1>1, <1>2, <1>3

LEMMA CountIs ==
  ASSUME NEW s, InArray(s), NEW t
  PROVE  /\ IsFiniteSet({i \in Span(s.hand) : s.array[i] = t})
         /\ Count(s, t) \in Nat
         /\ HasTile(s, t) <=> Count(s, t) >= 1
<1> DEFINE A == {i \in Span(s.hand) : s.array[i] = t}
<1>1. IsFiniteSet(Span(s.hand)) /\ A \subseteq Span(s.hand)
  BY SpanIs DEF InArray
<1>2. IsFiniteSet(A) /\ Cardinality(A) \in Nat
  BY <1>1, FS_Subset, FS_CardinalityType
<1>3. A = {} <=> Cardinality(A) = 0
  BY <1>2, FS_EmptySet
<1> QED
  BY <1>2, <1>3 DEF Count, HasTile

\* A slice that has lost tiles, and has changed nothing outside itself.
Shrunk(s, r) == SameElsewhere(s, r) /\ r.hand.len <= s.hand.len

\* One of the tiles t is gone, if there was one, and all others are still there.
LEMMA RemoveTileIs ==
  ASSUME NEW s, InArray(s), NEW t
  PROVE  /\ Shrunk(s, RemoveTile(s, t))
         /\ \A u : Count(RemoveTile(s, t), u)
                     = Count(s, u) - (IF u = t /\ HasTile(s, t) THEN 1 ELSE 0)
<1> DEFINE A == {i \in Span(s.hand) : s.array[i] = t}
<1>0. PICK o \in Nat, l \in Nat, n \in Nat : o = s.hand.off /\ l = s.hand.len /\ n = Len(s.array)
  BY SpanFacts
<1>1. /\ o >= 1 /\ o + l <= n + 1 /\ DOMAIN s.array = 1 .. n
      /\ \A i : i \in Span(s.hand) <=> i \in Nat /\ o <= i /\ i < o + l
      /\ \A i \in 1 .. n : s.array[i] \in Kinds
      /\ \A i \in Span(s.hand) : i \in 1 .. n
  BY <1>0, SpanFacts
<1>2. CASE A = {}
  <2>1. RemoveTile(s, t) = s /\ ~HasTile(s, t)
    BY <1>2 DEF RemoveTile, HasTile
  <2>2. Shrunk(s, s)
    BY <1>0 DEF SameElsewhere, Shrunk
  <2>3. \A u : Count(s, u) = Count(s, u) - 0
    <3>1. \A u : Count(s, u) \in Nat
      BY CountIs
    <3> QED
      BY <3>1
  <2> QED
    BY <2>1, <2>2, <2>3
<1>3. CASE A # {}
  <2>1. PICK m \in Nat : /\ m = Min(A) /\ m \in A /\ \A i \in A : m <= i
    <3>1. A \in SUBSET Nat
      BY <1>1
    <3> QED
      BY <1>3, <3>1, MinIs
  <2>2. o <= m /\ m < o + l /\ s.array[m] = t /\ l >= 1
    BY <1>1, <2>1
  <2>3. PICK r : r = RemoveTile(s, t)
    OBVIOUS
  <2>4. /\ r.array = [i \in 1 .. n |-> IF i \in m .. o + l - 2 THEN s.array[i + 1] ELSE s.array[i]]
        /\ r.hand = [off |-> o, len |-> l - 1]
        /\ r = [array |-> r.array, hand |-> r.hand]
    BY <1>0, <1>1, <1>3, <2>1, <2>3 DEF RemoveTile
  <2>5. \A i \in 1 .. n : i \in m .. o + l - 2 => i + 1 \in 1 .. n
    BY <1>1, <2>2
  <2>6. /\ r.array \in [1 .. n -> Kinds]
        /\ \A i \in 1 .. n : i \in m .. o + l - 2 => r.array[i] = s.array[i + 1]
        /\ \A i \in 1 .. n : i \notin m .. o + l - 2 => r.array[i] = s.array[i]
    BY <1>1, <2>4, <2>5
  <2>7. r.array \in Seq(Kinds) /\ Len(r.array) = n
    BY <2>6
  <2>8. r.hand.off = o /\ r.hand.len = l - 1 /\ r.hand \in Hand /\ l - 1 \in Nat
    BY <1>1, <2>2, <2>4 DEF Hand
  <2>9. InArray(r)
    <3>1. r.hand.off + r.hand.len <= Len(r.array) + 1
      BY <1>1, <2>7, <2>8
    <3>2. SliceIn(r.array, r.hand)
      BY <2>7, <2>8, <3>1 DEF SliceIn, Hand
    <3> QED
      BY <2>4, <2>7, <2>8, <3>2 DEF InArray
  <2>10. \A i : i \in Span(r.hand) <=> i \in Nat /\ o <= i /\ i < o + l - 1
    BY <2>8 DEF Span
  <2>11. Shrunk(s, r)
    <3>1. ASSUME NEW i \in 1 .. n, i \notin Span(s.hand), i \notin Span(r.hand)
          PROVE  r.array[i] = s.array[i]
      <4>1. i \in Nat /\ ~(o <= i /\ i < o + l)
        BY <1>1, <3>1
      <4>2. i \notin m .. o + l - 2
        BY <2>2, <4>1
      <4> QED
        BY <2>6, <4>2
    <3> QED
      BY <1>0, <2>7, <2>8, <2>9, <3>1 DEF SameElsewhere, Shrunk
  <2>12. HasTile(s, t)
    BY <2>1 DEF HasTile
  <2>13. ASSUME NEW i \in Span(s.hand), i # m
         PROVE  \E j \in Span(r.hand) : r.array[j] = s.array[i] /\ j = IF i < m THEN i ELSE i - 1
    <3>0. i \in Nat /\ o <= i /\ i < o + l /\ i \in 1 .. n
      BY <1>1
    <3>1. CASE i < m
      <4>1. i \in Span(r.hand) /\ i \notin m .. o + l - 2
        BY <3>0, <2>2, <2>10, <3>1
      <4> QED
        BY <2>6, <3>0, <3>1, <4>1
    <3>2. CASE ~(i < m)
      <4>1. i > m
        BY <2>13, <3>0, <3>2
      <4>2. PICK j \in Nat : j = i - 1
        BY <3>0, <4>1
      <4>3. j \in Span(r.hand) /\ j \in m .. o + l - 2 /\ j + 1 = i /\ j \in 1 .. n
        BY <1>1, <2>2, <2>10, <3>0, <4>1, <4>2
      <4>4. r.array[j] = s.array[i]
        BY <2>6, <4>3
      <4> QED
        BY <3>2, <4>2, <4>3, <4>4
    <3> QED
      BY <3>1, <3>2
  <2>14. ASSUME NEW j \in Span(r.hand)
         PROVE  \E i \in Span(s.hand) : i # m /\ j = IF i < m THEN i ELSE i - 1
    <3>1. j \in Nat /\ o <= j /\ j < o + l - 1
      BY <2>10
    <3>2. CASE j < m
      <4>1. j \in Span(s.hand) /\ j # m
        BY <1>1, <3>1, <3>2
      <4> QED
        BY <3>2, <4>1
    <3>3. CASE ~(j < m)
      <4>1. j + 1 \in Span(s.hand) /\ j + 1 # m /\ ~(j + 1 < m) /\ j = (j + 1) - 1
        BY <1>1, <3>1, <3>3
      <4> QED
        BY <4>1
    <3> QED
      BY <3>2, <3>3
  <2>15. ASSUME NEW u
         PROVE  Count(r, u) = Count(s, u) - (IF u = t THEN 1 ELSE 0)
    <3> DEFINE S == {i \in Span(s.hand) : s.array[i] = u}
               B == {i \in Span(r.hand) : r.array[i] = u}
               f == [i \in S \ {m} |-> IF i < m THEN i ELSE i - 1]
    <3>1. \A i \in S \ {m} : f[i] \in B /\ i \in Nat
      <4>1. SUFFICES ASSUME NEW i \in S \ {m} PROVE f[i] \in B /\ i \in Nat
        OBVIOUS
      <4>2. i \in Span(s.hand) /\ s.array[i] = u /\ i # m /\ i \in Nat
        BY <1>1
      <4>3. PICK j \in Span(r.hand) : r.array[j] = s.array[i] /\ j = IF i < m THEN i ELSE i - 1
        BY <2>13, <4>2
      <4> QED
        BY <4>2, <4>3
    <3>2. \A i, j \in S \ {m} : f[i] = f[j] => i = j
      <4>1. SUFFICES ASSUME NEW i \in S \ {m}, NEW j \in S \ {m}, f[i] = f[j] PROVE i = j
        OBVIOUS
      <4>2. i \in Nat /\ j \in Nat /\ i # m /\ j # m
        BY <3>1
      <4> QED
        BY <4>1, <4>2
    <3>3. \A j \in B : \E i \in S \ {m} : f[i] = j
      <4>1. SUFFICES ASSUME NEW j \in B PROVE \E i \in S \ {m} : f[i] = j
        OBVIOUS
      <4>2. PICK i \in Span(s.hand) : i # m /\ j = IF i < m THEN i ELSE i - 1
        BY <2>14
      <4>3. r.array[j] = s.array[i]
        BY <2>13, <4>2
      <4>4. i \in S \ {m}
        BY <4>2, <4>3
      <4> QED
        BY <4>2, <4>4
    <3>4. f \in Injection(S \ {m}, B) /\ f \in Surjection(S \ {m}, B)
      BY <3>1, <3>2, <3>3 DEF Injection, IsInjective, Surjection
    <3>5. IsFiniteSet(S) /\ IsFiniteSet(B) /\ Count(s, u) = Cardinality(S) /\ Count(r, u) = Cardinality(B)
      BY <2>9, CountIs DEF Count
    <3>6. m \in S <=> u = t
      BY <2>1
    <3> HIDE DEF S, B, f
    <3>7. Cardinality(S \ {m}) = IF m \in S THEN Cardinality(S) - 1 ELSE Cardinality(S)
      BY <3>5, FS_RemoveElement
    <3>8. Cardinality(S \ {m}) = Cardinality(B)
      BY <3>4, <3>5, FS_Injection
    <3>9. Cardinality(S) \in Nat
      BY <3>5, FS_CardinalityType
    <3> QED
      BY <3>5, <3>6, <3>7, <3>8, <3>9
  <2> QED
    BY <2>3, <2>11, <2>12, <2>15
<1> QED
  BY <1>2, <1>3

LEMMA Append1Is ==
  ASSUME NEW s, InArray(s), s.hand.off + s.hand.len <= Len(s.array), NEW t \in Kinds
  PROVE  /\ SameElsewhere(s, Append1(s, t)) /\ Append1(s, t).hand.len = s.hand.len + 1
         /\ \A u \in Kinds : Count(Append1(s, t), u) = Count(s, u) + (IF u = t THEN 1 ELSE 0)
<1>0. PICK o \in Nat, l \in Nat, n \in Nat : o = s.hand.off /\ l = s.hand.len /\ n = Len(s.array)
  BY SpanFacts
<1>1. /\ o >= 1 /\ o + l <= n /\ DOMAIN s.array = 1 .. n /\ s.array \in Seq(Kinds)
      /\ \A i : i \in Span(s.hand) <=> i \in Nat /\ o <= i /\ i < o + l
  BY <1>0, SpanFacts
<1>2. PICK h : h = [off |-> o, len |-> l + 1]
  OBVIOUS
<1>3. PICK a : a = [s.array EXCEPT ![o + l] = t]
  OBVIOUS
<1>4. /\ a \in Seq(Kinds) /\ Len(a) = n /\ \A i \in 1 .. n : i # o + l => a[i] = s.array[i]
      /\ a[o + l] = t
  BY <1>0, <1>1, <1>3
<1>5. h.off = o /\ h.len = l + 1 /\ h \in Hand /\ h.off + h.len <= n + 1
  BY <1>1, <1>2 DEF Hand
<1>6. \A i : i \in Span(h) <=> i \in Nat /\ o <= i /\ i <= o + l
  BY <1>5 DEF Span
<1>7. SliceIn(a, h)
  BY <1>4, <1>5 DEF SliceIn, Hand
<1>8. PICK b : b = SortTiles(a, h)
  OBVIOUS
<1>9. b \in Seq(Kinds) /\ Len(b) = n /\ \A i \in 1 .. n : i \notin Span(h) => b[i] = a[i]
  <2>1. DOMAIN a = 1 .. n
    BY <1>4
  <2> QED
    BY <1>4, <1>7, <1>8, <2>1, SortTilesIs
<1>10. PICK r : r = [array |-> b, hand |-> h]
  OBVIOUS
<1>11. Append1(s, t) = r
  BY <1>0, <1>2, <1>3, <1>8, <1>10 DEF Append1
<1>12. r.array = b /\ r.hand = h
  BY <1>10
<1>13. InArray(r)
  <2>1. SliceIn(b, h)
    BY <1>5, <1>9 DEF SliceIn, Hand
  <2> QED
    BY <1>5, <1>9, <1>10, <1>12, <2>1 DEF InArray
<1>14. \A i \in 1 .. n : i \notin Span(h) => b[i] = s.array[i]
  <2>1. \A i \in 1 .. n : i \notin Span(h) => i # o + l
    BY <1>1, <1>6
  <2> QED
    BY <1>4, <1>9, <2>1
<1>15. SameElsewhere(s, r) /\ r.hand.len = l + 1
  BY <1>0, <1>5, <1>9, <1>12, <1>13, <1>14 DEF SameElsewhere
<1>16. ASSUME NEW u \in Kinds
       PROVE  Count(r, u) = Count(s, u) + (IF u = t THEN 1 ELSE 0)
  <2> DEFINE S == {i \in Span(s.hand) : s.array[i] = u}
             B == {i \in Span(h) : a[i] = u}
  <2>1. Count(r, u) = Cardinality(B)
    BY <1>7, <1>8, <1>12, SortTilesCount DEF Count
  <2>2. IsFiniteSet(S) /\ Count(s, u) = Cardinality(S) /\ Cardinality(S) \in Nat
    BY CountIs DEF Count
  <2>3. o + l \notin S /\ o + l \in Span(h)
    BY <1>1, <1>6
  <2>4. \A i : i \in Span(s.hand) <=> i \in Span(h) /\ i # o + l
    BY <1>1, <1>6
  <2>5. \A i \in Span(s.hand) : i \in 1 .. n
    BY <1>1
  <2>6. \A i \in Span(s.hand) : a[i] = s.array[i]
    BY <1>4, <2>4, <2>5
  <2>7. B = IF u = t THEN S \cup {o + l} ELSE S
    BY <1>4, <2>3, <2>4, <2>6
  <2> HIDE DEF S, B
  <2>8. Cardinality(S \cup {o + l}) = Cardinality(S) + 1
    BY <2>2, <2>3, FS_AddElement
  <2> QED
    BY <2>1, <2>2, <2>7, <2>8
<1> QED
  BY <1>0, <1>11, <1>15, <1>16

\* Changes after one that only lost tiles.
LEMMA SameAgain ==
  ASSUME NEW s, NEW r, NEW v, InArray(s), Shrunk(s, r), SameElsewhere(r, v)
  PROVE  SameElsewhere(s, v)
<1>1. InArray(r) /\ InArray(v)
  BY DEF Shrunk, SameElsewhere
<1>2. PICK o \in Nat, l \in Nat, k \in Nat :
        /\ o = s.hand.off /\ o = r.hand.off /\ l = s.hand.len /\ k = r.hand.len /\ k <= l
  BY <1>1, SpanFacts DEF Shrunk, SameElsewhere
<1>3. \A i : i \in Span(r.hand) => i \in Span(s.hand)
  <2>1. \A i : i \in Span(r.hand) => i \in Nat /\ o <= i /\ i < o + k
    BY <1>1, <1>2, SpanFacts
  <2>2. \A i : i \in Nat /\ o <= i /\ i < o + l => i \in Span(s.hand)
    BY <1>2, SpanFacts
  <2> QED
    BY <1>2, <2>1, <2>2
<1> QED
  BY <1>1, <1>3 DEF Shrunk, SameElsewhere

LEMMA ShrunkAgain ==
  ASSUME NEW s, NEW r, NEW v, InArray(s), Shrunk(s, r), Shrunk(r, v)
  PROVE  Shrunk(s, v)
<1>1. InArray(r) /\ InArray(v)
  BY DEF Shrunk, SameElsewhere
<1>2. PICK l \in Nat, k \in Nat, j \in Nat :
        l = s.hand.len /\ k = r.hand.len /\ j = v.hand.len /\ k <= l /\ j <= k
  BY <1>1, SpanFacts DEF Shrunk
<1>3. SameElsewhere(s, v)
  BY SameAgain DEF Shrunk
<1> QED
  BY <1>2, <1>3 DEF Shrunk

\* Two tiles that are there are both removed.
LEMMA Remove2Is ==
  ASSUME NEW s, InArray(s), NEW t, NEW u
  PROVE  /\ Shrunk(s, Remove2(s, t, u))
         /\ \/ t = u /\ Count(s, t) >= 2
            \/ t # u /\ HasTile(s, t) /\ HasTile(s, u)
            => \A x : Count(Remove2(s, t, u), x)
                        = Count(s, x) - (IF x = t THEN 1 ELSE 0) - (IF x = u THEN 1 ELSE 0)
<1>1. PICK r, v : r = RemoveTile(s, t) /\ v = RemoveTile(r, u)
  OBVIOUS
<1>2. /\ Shrunk(s, r)
      /\ \A x : Count(r, x) = Count(s, x) - (IF x = t /\ HasTile(s, t) THEN 1 ELSE 0)
  BY <1>1, RemoveTileIs
<1>3. InArray(r)
  BY <1>2 DEF Shrunk, SameElsewhere
<1>4. /\ Shrunk(r, v)
      /\ \A x : Count(v, x) = Count(r, x) - (IF x = u /\ HasTile(r, u) THEN 1 ELSE 0)
  BY <1>1, <1>3, RemoveTileIs
<1>5. Remove2(s, t, u) = v
  BY <1>1 DEF Remove2
<1>6. Shrunk(s, v)
  BY <1>2, <1>4, ShrunkAgain
<1>7. ASSUME \/ t = u /\ Count(s, t) >= 2
             \/ t # u /\ HasTile(s, t) /\ HasTile(s, u)
      PROVE  HasTile(s, t) /\ HasTile(r, u)
  <2>1. Count(s, t) \in Nat /\ Count(s, u) \in Nat /\ Count(r, u) \in Nat
    BY <1>3, CountIs
  <2>2. HasTile(s, t)
    <3>1. Count(s, t) >= 2 => Count(s, t) >= 1
      BY <2>1
    <3> QED
      BY <1>7, <3>1, CountIs
  <2>3. Count(r, u) >= 1
    <3>1. CASE t = u /\ Count(s, t) >= 2
      BY <1>2, <2>1, <3>1
    <3>2. CASE t # u /\ HasTile(s, u)
      <4>1. Count(r, u) = Count(s, u) - 0 /\ Count(s, u) >= 1
        BY <1>2, <3>2, CountIs
      <4> QED
        BY <2>1, <4>1
    <3> QED
      BY <1>7, <3>1, <3>2
  <2> QED
    BY <1>3, <2>2, <2>3, CountIs
<1>8. ASSUME HasTile(s, t), HasTile(r, u), NEW x
      PROVE  Count(v, x) = Count(s, x) - (IF x = t THEN 1 ELSE 0) - (IF x = u THEN 1 ELSE 0)
  <2>1. PICK c \in Nat : c = Count(s, x)
    BY CountIs
  <2>2. Count(r, x) = c - (IF x = t THEN 1 ELSE 0)
    BY <1>2, <1>8, <2>1
  <2>3. Count(v, x) = Count(r, x) - (IF x = u THEN 1 ELSE 0)
    BY <1>4, <1>8
  <2> QED
    BY <2>1, <2>2, <2>3
<1> QED
  BY <1>5, <1>6, <1>7, <1>8

\* So are three or four of a kind.
LEMMA Remove3Is ==
  ASSUME NEW s, InArray(s), NEW t
  PROVE  /\ Shrunk(s, RemoveTile(Remove2(s, t, t), t))
         /\ Count(s, t) >= 3 =>
              \A x : Count(RemoveTile(Remove2(s, t, t), t), x) = Count(s, x) - (IF x = t THEN 3 ELSE 0)
<1>1. PICK r, v : r = Remove2(s, t, t) /\ v = RemoveTile(r, t)
  OBVIOUS
<1>2. /\ Shrunk(s, r)
      /\ Count(s, t) >= 2 =>
           \A x : Count(r, x) = Count(s, x) - (IF x = t THEN 1 ELSE 0) - (IF x = t THEN 1 ELSE 0)
  BY <1>1, Remove2Is
<1>3. InArray(r)
  BY <1>2 DEF Shrunk, SameElsewhere
<1>4. /\ Shrunk(r, v)
      /\ \A x : Count(v, x) = Count(r, x) - (IF x = t /\ HasTile(r, t) THEN 1 ELSE 0)
  BY <1>1, <1>3, RemoveTileIs
<1>5. ASSUME Count(s, t) >= 3, NEW x
      PROVE  Count(v, x) = Count(s, x) - (IF x = t THEN 3 ELSE 0)
  <2>1. PICK c \in Nat, d \in Nat : c = Count(s, t) /\ d = Count(s, x)
    BY CountIs
  <2>2. c >= 2 /\ c >= 3
    BY <1>5, <2>1
  <2>3. Count(r, t) = c - 1 - 1
    BY <1>2, <2>1, <2>2
  <2>4. HasTile(r, t)
    <3>1. Count(r, t) >= 1
      BY <2>2, <2>3
    <3> QED
      BY <1>3, <3>1, CountIs
  <2>5. Count(r, x) = d - (IF x = t THEN 1 ELSE 0) - (IF x = t THEN 1 ELSE 0)
    BY <1>2, <2>1, <2>2
  <2>6. Count(v, x) = Count(r, x) - (IF x = t THEN 1 ELSE 0)
    BY <1>4, <2>4
  <2> QED
    BY <2>1, <2>5, <2>6
<1>6. Shrunk(s, v)
  BY <1>2, <1>4, ShrunkAgain
<1> QED
  BY <1>1, <1>5, <1>6

LEMMA Remove4Is ==
  ASSUME NEW s, InArray(s), NEW t
  PROVE  /\ Shrunk(s, Remove4(s, t))
         /\ Count(s, t) >= 4 =>
              \A x : Count(Remove4(s, t), x) = Count(s, x) - (IF x = t THEN 4 ELSE 0)
<1>1. PICK r, v : r = Remove2(s, t, t) /\ v = Remove2(r, t, t)
  OBVIOUS
<1>2. /\ Shrunk(s, r)
      /\ Count(s, t) >= 2 =>
           \A x : Count(r, x) = Count(s, x) - (IF x = t THEN 1 ELSE 0) - (IF x = t THEN 1 ELSE 0)
  BY <1>1, Remove2Is
<1>3. InArray(r)
  BY <1>2 DEF Shrunk, SameElsewhere
<1>4. /\ Shrunk(r, v)
      /\ Count(r, t) >= 2 =>
           \A x : Count(v, x) = Count(r, x) - (IF x = t THEN 1 ELSE 0) - (IF x = t THEN 1 ELSE 0)
  BY <1>1, <1>3, Remove2Is
<1>5. ASSUME Count(s, t) >= 4, NEW x
      PROVE  Count(v, x) = Count(s, x) - (IF x = t THEN 4 ELSE 0)
  <2>1. PICK c \in Nat, d \in Nat : c = Count(s, t) /\ d = Count(s, x)
    BY CountIs
  <2>2. c >= 2 /\ c >= 4
    BY <1>5, <2>1
  <2>3. Count(r, t) = c - 1 - 1
    BY <1>2, <2>1, <2>2
  <2>4. Count(r, t) >= 2
    BY <2>2, <2>3
  <2>5. Count(r, x) = d - (IF x = t THEN 1 ELSE 0) - (IF x = t THEN 1 ELSE 0)
    BY <1>2, <2>1, <2>2
  <2>6. Count(v, x) = Count(r, x) - (IF x = t THEN 1 ELSE 0) - (IF x = t THEN 1 ELSE 0)
    BY <1>4, <2>4
  <2> QED
    BY <2>1, <2>5, <2>6
<1>6. Shrunk(s, v)
  BY <1>2, <1>4, ShrunkAgain
<1>7. Remove4(s, t) = v
  BY <1>1 DEF Remove4
<1> QED
  BY <1>5, <1>6, <1>7

-----------------------------------------------------------------------------
(* Counting the tiles of all players. *)

LEMMA SeatsAre ==
  /\ PlayerCount \in Nat /\ PlayerCount >= 2
  /\ IsFiniteSet(Seats) /\ 0 \in Seats
  /\ \A p \in Seats : p \in Nat /\ p < PlayerCount /\ After(p) \in Seats
<1>1. PlayerCount \in Nat /\ PlayerCount >= 2
  BY PlayerAssumption
<1>2. IsFiniteSet(0 .. PlayerCount - 1)
  BY <1>1, FS_Interval
<1>3. \A p \in Seats : p \in Nat /\ p < PlayerCount /\ (p + 1) % PlayerCount \in 0 .. PlayerCount - 1
  BY <1>1 DEF Seats
<1> QED
  BY <1>1, <1>2, <1>3 DEF Seats, After

LEMMA NumberedFinite ==
  ASSUME NEW f \in [Seats -> Nat]
  PROVE  IsFiniteSet(Numbered(f)) /\ Cardinality(Numbered(f)) \in Nat
<1>1. Numbered(f) = Pile(Seats, f)
  BY DEF Numbered, Pile
<1> QED
  BY <1>1, SeatsAre, PileFinite

\* One more tile of one player is one more tile.
LEMMA NumberedGrows ==
  ASSUME NEW f \in [Seats -> Nat], NEW p \in Seats
  PROVE  Cardinality(Numbered([f EXCEPT ![p] = f[p] + 1])) = Cardinality(Numbered(f)) + 1
<1>1. \A g : Numbered(g) = Pile(Seats, g)
  BY DEF Numbered, Pile
<1>2. IsFiniteSet(Seats)
  BY SeatsAre
<1>3. Cardinality(Pile(Seats, [f EXCEPT ![p] = f[p] + 1])) = Cardinality(Pile(Seats, f)) + 1
  BY <1>2, PileGrows
<1> QED
  BY <1>1, <1>3

\* A player has one tile more, or n + 1 if tiles are drawn as well, for the one
\* that a player has given up.
TileMoved(f, g, p, q, n) ==
  \A x \in Seats : g[x] = f[x] + (IF x = p THEN 1 + n ELSE 0) - (IF x = q THEN 1 ELSE 0)

LEMMA NumberedMoved ==
  ASSUME NEW f \in [Seats -> Nat], NEW g \in [Seats -> Nat], NEW p \in Seats, NEW q \in Seats,
         NEW n \in {0, 1}, TileMoved(f, g, p, q, n)
  PROVE  Cardinality(Numbered(g)) = Cardinality(Numbered(f)) + n
<1>0. \A x \in Seats : g[x] = f[x] + (IF x = p THEN 1 + n ELSE 0) - (IF x = q THEN 1 ELSE 0)
  BY DEF TileMoved
<1>1. PICK h : h = [f EXCEPT ![p] = f[p] + 1]
  OBVIOUS
<1>2. h \in [Seats -> Nat] /\ \A x \in Seats : h[x] = f[x] + (IF x = p THEN 1 ELSE 0)
  BY <1>1
<1>3. PICK k : k = [h EXCEPT ![q] = h[q] - 1]
  OBVIOUS
<1>4. h[q] \in Nat /\ h[q] >= 1
  <2>1. g[q] \in Nat /\ f[q] \in Nat /\ g[q] = f[q] + (IF q = p THEN 1 + n ELSE 0) - 1
    BY <1>0
  <2>2. h[q] = f[q] + (IF q = p THEN 1 ELSE 0)
    BY <1>2
  <2> QED
    BY <2>1, <2>2
<1>5. k \in [Seats -> Nat] /\ h = [k EXCEPT ![q] = k[q] + 1]
  <2>1. PICK v \in Nat : h[q] = v + 1
    <3>1. h[q] - 1 \in Nat /\ h[q] = (h[q] - 1) + 1
      BY <1>4
    <3> QED
      BY <3>1
  <2>2. k = [h EXCEPT ![q] = v]
    BY <1>3, <2>1
  <2>3. k \in [Seats -> Nat] /\ k[q] = v
    BY <1>2, <2>2
  <2>4. [k EXCEPT ![q] = v + 1] = h
    BY <1>2, <2>1, <2>2
  <2> QED
    BY <2>3, <2>4
<1>6. \A x \in Seats : k[x] = f[x] + (IF x = p THEN 1 ELSE 0) - (IF x = q THEN 1 ELSE 0)
  BY <1>2, <1>3
<1>7. PICK a \in Nat, b \in Nat, c \in Nat :
        /\ a = Cardinality(Numbered(f)) /\ b = Cardinality(Numbered(k))
        /\ c = Cardinality(Numbered(h))
  BY <1>2, <1>5, NumberedFinite
<1>8. c = a + 1 /\ c = b + 1
  BY <1>1, <1>5, <1>7, NumberedGrows
<1>9. a = b
  BY <1>8
<1>10. CASE n = 0
  <2>1. g = k
    BY <1>0, <1>5, <1>6, <1>10
  <2> QED
    BY <1>7, <1>9, <1>10, <2>1
<1>11. CASE n = 1
  <2>1. \A x \in Seats : g[x] = k[x] + (IF x = p THEN 1 ELSE 0)
    <3>1. SUFFICES ASSUME NEW x \in Seats
                   PROVE  g[x] = k[x] + (IF x = p THEN 1 ELSE 0)
      OBVIOUS
    <3>2. f[x] \in Nat
      OBVIOUS
    <3> QED
      BY <1>0, <1>6, <1>11, <3>2
  <2>2. g = [k EXCEPT ![p] = k[p] + 1]
    BY <1>5, <2>1
  <2>3. Cardinality(Numbered(g)) = b + 1
    BY <1>5, <1>7, <2>2, NumberedGrows
  <2> QED
    BY <1>7, <1>9, <1>11, <2>3
<1> QED
  BY <1>10, <1>11

\* How many entries of a sequence are in a set.
Among(s, S) == Cardinality({i \in DOMAIN s : s[i] \in S})

LEMMA AmongIs ==
  ASSUME NEW V, NEW s \in Seq(V), NEW S
  PROVE  IsFiniteSet({i \in DOMAIN s : s[i] \in S}) /\ Among(s, S) \in Nat
<1>1. DOMAIN s = 1 .. Len(s) /\ Len(s) \in Nat
  OBVIOUS
<1>2. IsFiniteSet(1 .. Len(s))
  BY <1>1, FS_Interval
<1>3. {i \in DOMAIN s : s[i] \in S} \in SUBSET (1 .. Len(s))
  BY <1>1
<1>4. IsFiniteSet({i \in DOMAIN s : s[i] \in S})
  BY <1>2, <1>3, FS_Subset
<1> QED
  BY <1>4, FS_CardinalityType DEF Among

LEMMA AmongGrows ==
  ASSUME NEW V, NEW s \in Seq(V), NEW x \in V, NEW S
  PROVE  Among(Append(s, x), S) = Among(s, S) + (IF x \in S THEN 1 ELSE 0)
<1>1. PICK n \in Nat : n = Len(s)
  OBVIOUS
<1>2. PICK r : r = Append(s, x)
  OBVIOUS
<1>3. /\ DOMAIN s = 1 .. n /\ DOMAIN r = 1 .. n + 1
      /\ \A i \in 1 .. n : r[i] = s[i]
      /\ r[n + 1] = x
  BY <1>1, <1>2
<1>4. PICK A, B : /\ A = {i \in DOMAIN s : s[i] \in S}
                  /\ B = {i \in DOMAIN r : r[i] \in S}
  OBVIOUS
<1>5. /\ IsFiniteSet(A) /\ Among(s, S) = Cardinality(A) /\ Among(r, S) = Cardinality(B)
      /\ Cardinality(A) \in Nat
  BY <1>4, AmongIs DEF Among
<1>6. 1 .. n + 1 = (1 .. n) \cup {n + 1} /\ n + 1 \notin 1 .. n
  OBVIOUS
<1>7. B = IF x \in S THEN A \cup {n + 1} ELSE A
  BY <1>3, <1>4, <1>6
<1>8. Cardinality(A \cup {n + 1}) = Cardinality(A) + 1
  BY <1>3, <1>4, <1>5, <1>6, FS_AddElement
<1> QED
  BY <1>2, <1>5, <1>7, <1>8

\* Without its last entry.
LEMMA AmongShrinks ==
  ASSUME NEW V, NEW s \in Seq(V), s # <<>>, NEW S
  PROVE  /\ SubSeq(s, 1, Len(s) - 1) \in Seq(V)
         /\ Among(SubSeq(s, 1, Len(s) - 1), S)
              = Among(s, S) - (IF s[Len(s)] \in S THEN 1 ELSE 0)
<1>1. PICK n \in Nat : n = Len(s) /\ n >= 1
  OBVIOUS
<1>2. PICK e : e = SubSeq(s, 1, n - 1)
  OBVIOUS
<1>3. e \in Seq(V) /\ Len(e) = n - 1 /\ \A i \in 1 .. n - 1 : e[i] = s[i]
  BY <1>1, <1>2
<1>4. s[n] \in V
  BY <1>1
<1>5. s = Append(e, s[n])
  <2>1. Append(e, s[n]) \in Seq(V) /\ Len(Append(e, s[n])) = n
    BY <1>1, <1>3, <1>4
  <2>2. \A i \in 1 .. n : Append(e, s[n])[i] = s[i]
    BY <1>1, <1>3
  <2> QED
    BY <1>1, <2>1, <2>2
<1>6. Among(s, S) = Among(e, S) + (IF s[n] \in S THEN 1 ELSE 0)
  <2>1. Among(Append(e, s[n]), S) = Among(e, S) + (IF s[n] \in S THEN 1 ELSE 0)
    BY <1>3, <1>4, AmongGrows
  <2> QED
    BY <1>5, <2>1
<1>7. Among(e, S) \in Nat
  BY <1>3, AmongIs
<1> QED
  BY <1>1, <1>2, <1>3, <1>6, <1>7

MeldRecord == [type : {"Pong", "Chi", "Kong"}, of : SUBSET Kinds]
MeldsOfType(type, t) == {m \in MeldRecord : m.type = type /\ t \in m.of}

\* The tiles t that lie open, on a pile and in melds.
PileHas(d, t) == Among(d, {t})
MeldsHave(ms, t) ==
  3 * Among(ms, MeldsOfType("Pong", t)) + 4 * Among(ms, MeldsOfType("Kong", t))
    + Among(ms, MeldsOfType("Chi", t))

\* How often a meld holds its tile, or each of them.
TilesIn(m) == CASE m.type = "Pong" -> 3 [] m.type = "Kong" -> 4 [] m.type = "Chi" -> 1

LEMMA MeldsHaveGrows ==
  ASSUME NEW ms \in Seq(MeldRecord), NEW m \in MeldRecord, NEW t
  PROVE  /\ MeldsHave(ms, t) \in Nat
         /\ MeldsHave(Append(ms, m), t) = MeldsHave(ms, t) + (IF t \in m.of THEN TilesIn(m) ELSE 0)
<1>1. PICK a \in Nat, b \in Nat, c \in Nat :
        /\ a = Among(ms, MeldsOfType("Pong", t)) /\ b = Among(ms, MeldsOfType("Kong", t))
        /\ c = Among(ms, MeldsOfType("Chi", t))
  BY AmongIs
<1>2. \A type : Among(Append(ms, m), MeldsOfType(type, t))
                  = Among(ms, MeldsOfType(type, t)) + (IF m \in MeldsOfType(type, t) THEN 1 ELSE 0)
  BY AmongGrows
<1>3. \A type : m \in MeldsOfType(type, t) <=> m.type = type /\ t \in m.of
  BY DEF MeldsOfType
<1>4. m.type \in {"Pong", "Chi", "Kong"}
  BY DEF MeldRecord
<1>5. MeldsHave(ms, t) = 3 * a + 4 * b + c
  BY <1>1 DEF MeldsHave
<1>6. MeldsHave(Append(ms, m), t) = 3 * (a + (IF m.type = "Pong" /\ t \in m.of THEN 1 ELSE 0))
                                      + 4 * (b + (IF m.type = "Kong" /\ t \in m.of THEN 1 ELSE 0))
                                      + (c + (IF m.type = "Chi" /\ t \in m.of THEN 1 ELSE 0))
  BY <1>1, <1>2, <1>3 DEF MeldsHave
<1>7. CASE m.type = "Pong"
  BY <1>5, <1>6, <1>7 DEF TilesIn
<1>8. CASE m.type = "Kong"
  BY <1>5, <1>6, <1>8 DEF TilesIn
<1>9. CASE m.type = "Chi"
  BY <1>5, <1>6, <1>9 DEF TilesIn
<1> QED
  BY <1>4, <1>5, <1>7, <1>8, <1>9

-----------------------------------------------------------------------------
(* The game. *)

\* A discard that can be claimed lies on the pile of the player who made it, and
\* is the last there.
DiscardOnTop ==
  LastIsDiscard => /\ last.player \in Seats /\ last.tile \in Kinds
                   /\ discards[last.player] # <<>>
                   /\ discards[last.player][Len(discards[last.player])] = last.tile

MahjongInv ==
  /\ MahjongTypeOK
  /\ discards \in [Seats -> Seq(Kinds)]
  /\ melds \in [Seats -> Seq(MeldRecord)]
  /\ DiscardOnTop

LEMMA SliceFacts ==
  ASSUME MahjongInv, NEW p \in Seats
  PROVE  /\ InArray(Slice(p)) /\ Slice(p).array = cells /\ Slice(p).hand = hands[p]
         /\ hands[p].off \in Nat /\ hands[p].off >= 1 /\ hands[p].len \in Nat
         /\ hands[p].off + hands[p].len <= deck
         /\ deck \in Nat /\ deck >= 1 /\ Len(cells) \in Nat /\ deck <= Len(cells) + 1
         /\ cells \in Seq(Kinds)
         /\ \A t : CountTile(p, t) = Count(Slice(p), t) /\ (Holds(p, t) <=> HasTile(Slice(p), t))
<1>1. /\ cells \in Seq(Kinds) /\ hands[p] \in Hand /\ deck \in 1 .. Len(cells) + 1
      /\ hands[p].off + hands[p].len <= deck
  BY DEF MahjongInv, MahjongTypeOK, Hand
<1>2. Slice(p).array = cells /\ Slice(p).hand = hands[p] /\ Slice(p) \in [array : Seq(Kinds), hand : Hand]
  BY <1>1 DEF Slice
<1>3. PICK o \in Nat, l \in Nat, d \in Nat, n \in Nat :
        o = hands[p].off /\ l = hands[p].len /\ d = deck /\ n = Len(cells)
  <2>1. hands[p].off \in Nat /\ hands[p].len \in Nat
    BY <1>1 DEF Hand
  <2>2. Len(cells) \in Nat
    BY <1>1
  <2>3. deck \in Nat
    BY <1>1, <2>2
  <2> QED
    BY <2>1, <2>2, <2>3
<1>4. o >= 1 /\ o + l <= d /\ d <= n + 1 /\ d >= 1
  BY <1>1, <1>3 DEF Hand
<1>5. SliceIn(cells, hands[p])
  BY <1>1, <1>3, <1>4 DEF SliceIn, Hand
<1>6. InArray(Slice(p))
  BY <1>2, <1>5 DEF InArray
<1>7. \A t : CountTile(p, t) = Count(Slice(p), t) /\ (Holds(p, t) <=> HasTile(Slice(p), t))
  BY <1>2 DEF CountTile, Count, Holds, HasTile
<1> QED
  BY <1>1, <1>2, <1>3, <1>4, <1>6, <1>7

LEMMA DealIs ==
  ASSUME NEW d \in Seq(Kinds), Len(d) > PlayerCount * HandSize
  PROVE  /\ Deal(d) \in Seq(Kinds) /\ Len(Deal(d)) = Len(d)
         /\ \A p \in Seats : /\ Cut(p) \in Hand
                             /\ Cut(p).off + Cut(p).len <= PlayerCount * HandSize + 2
<1>1. PICK N \in Nat, H \in Nat, m \in Nat, n \in Nat :
        /\ N = PlayerCount /\ H = HandSize /\ m = N * H /\ n = Len(d)
        /\ N >= 2 /\ H >= 1 /\ n > m
  <2>1. PlayerCount \in Nat /\ PlayerCount >= 2 /\ HandSize \in Nat /\ HandSize >= 1
    BY PlayerAssumption, HandAssumption
  <2>2. PICK m \in Nat : m = PlayerCount * HandSize
    BY <2>1
  <2>3. PICK n \in Nat : n = Len(d) /\ n > m
    BY <2>2
  <2> QED
    BY <2>1, <2>2, <2>3, Zenon
<1>2. ASSUME NEW p \in Seats
      PROVE  Cut(p) \in Hand /\ Cut(p).off + Cut(p).len <= m + 2
  <2>1. p \in Nat /\ p < N
    BY <1>1 DEF Seats
  <2>2. CASE p = 0
    <3>1. Cut(p) = [off |-> 1, len |-> H + 1]
      BY <1>1, <2>2 DEF Cut
    <3>2. H <= m
      BY <1>1
    <3> QED
      BY <1>1, <3>1, <3>2 DEF Hand
  <2>3. CASE p # 0
    <3>1. PICK k \in Nat : k = p * H
      BY <1>1, <2>1
    <3>2. Cut(p) = [off |-> k + 2, len |-> H]
      BY <1>1, <2>3, <3>1 DEF Cut
    <3>3. k + H <= m
      <4>1. p + 1 <= N /\ (p + 1) * H = k + H
        BY <1>1, <2>1, <3>1
      <4>2. (p + 1) * H <= N * H
        BY <1>1, <2>1, <4>1
      <4> QED
        BY <1>1, <4>1, <4>2
    <3> QED
      BY <1>1, <3>1, <3>2, <3>3 DEF Hand
  <2> QED
    BY <2>2, <2>3
<1>3. \A p \in Seats : SliceIn(d, Cut(p))
  <2>1. SUFFICES ASSUME NEW p \in Seats PROVE SliceIn(d, Cut(p))
    OBVIOUS
  <2>2. PICK e \in Nat : e = Cut(p).off + Cut(p).len
    BY <1>2 DEF Hand
  <2>3. e <= n + 1
    BY <1>1, <1>2, <2>2
  <2> QED
    BY <1>1, <1>2, <2>2, <2>3 DEF SliceIn, Hand
<1>4. ASSUME NEW i \in 1 .. n
      PROVE  Deal(d)[i] \in Kinds
  <2>0. DOMAIN d = 1 .. n /\ d[i] \in Kinds
    BY <1>1
  <2>1. CASE \E p \in Seats : i \in Span(Cut(p))
    <3>1. PICK p \in Seats : p = CHOOSE q \in Seats : i \in Span(Cut(q))
      BY <2>1
    <3>2. Deal(d)[i] = SortTiles(d, Cut(p))[i]
      BY <2>0, <2>1, <3>1 DEF Deal
    <3>3. SortTiles(d, Cut(p)) \in Seq(Kinds) /\ Len(SortTiles(d, Cut(p))) = n
      BY <1>1, <1>3, SortTilesIs
    <3> QED
      BY <3>2, <3>3
  <2>2. CASE ~(\E p \in Seats : i \in Span(Cut(p)))
    BY <2>0, <2>2 DEF Deal
  <2> QED
    BY <2>1, <2>2
<1>5. DOMAIN Deal(d) = 1 .. n /\ Deal(d) = [i \in 1 .. n |-> Deal(d)[i]]
  BY <1>1 DEF Deal
<1>6. Deal(d) \in Seq(Kinds) /\ Len(Deal(d)) = n
  BY <1>4, <1>5
<1> QED
  BY <1>1, <1>2, <1>6

LEMMA MahjongStarts ==
  ASSUME MahjongInit
  PROVE  MahjongInv
<1>1. PICK d \in Decks(rules) : cells = Deal(d)
  BY DEF MahjongInit
<1>2. rules \in {"HT", "TH"} /\ d \in Seq(Kinds) /\ Len(d) > PlayerCount * HandSize
  BY <1>1, DeckAssumption DEF MahjongInit
<1>3. PICK n \in Nat, m \in Nat : n = Len(d) /\ m = PlayerCount * HandSize /\ n > m
  BY <1>2, PlayerAssumption, HandAssumption
<1>4. /\ cells \in Seq(Kinds) /\ Len(cells) = n
      /\ \A p \in Seats : Cut(p) \in Hand /\ Cut(p).off + Cut(p).len <= m + 2
  BY <1>1, <1>2, <1>3, DealIs
<1>5. hands = [p \in Seats |-> Cut(p)] /\ deck = m + 2
  BY <1>3 DEF MahjongInit
<1>6. MahjongTypeOK
  BY <1>2, <1>3, <1>4, <1>5, SeatsAre, MovesAssumption DEF MahjongInit, MahjongTypeOK, Hand
<1>7. discards \in [Seats -> Seq(Kinds)] /\ melds \in [Seats -> Seq(MeldRecord)]
  BY DEF MahjongInit
<1>8. DiscardOnTop
  BY DEF MahjongInit, LastIsDiscard, DiscardOnTop
<1> QED
  BY <1>6, <1>7, <1>8 DEF MahjongInv

\* What a call makes of the hand of the player who makes it, when the deck starts
\* at b afterwards.
HandTurns(p, s, b) ==
  /\ cells' \in Seq(Kinds) /\ Len(cells') = Len(cells)
  /\ hands' \in [Seats -> Hand]
  /\ \A q \in Seats : hands'[q].off + hands'[q].len <= b
  /\ \A i \in b .. Len(cells) : cells'[i] = cells[i]
  /\ \A i \in DOMAIN cells \ (Span(hands[p]) \cup Span(hands'[p])) : cells'[i] = cells[i]
  /\ \A t : CountTile(p, t)' = Count(s, t) /\ Count(s, t) \in Nat

LEMMA HandStep ==
  ASSUME MahjongInv, NEW p \in Seats, NEW s, NEW b \in Nat, SameElsewhere(Slice(p), s),
         deck <= b, s.hand.off + s.hand.len <= b, Becomes(p, s)
  PROVE  HandTurns(p, s, b)
<1>1. hands \in [Seats -> Hand] /\ \A q \in Seats : hands[q].off + hands[q].len <= deck
  BY DEF MahjongInv, MahjongTypeOK, Hand
<1>2. Slice(p).array = cells /\ Slice(p).hand = hands[p]
  BY DEF Slice
<1>3. cells' = s.array /\ hands' = [hands EXCEPT ![p] = s.hand]
  BY DEF Becomes
<1>4. InArray(s) /\ s.array \in Seq(Kinds) /\ s.hand \in Hand /\ Len(s.array) = Len(cells)
  BY <1>2 DEF SameElsewhere, InArray
<1>5. hands' \in [Seats -> Hand] /\ hands'[p] = s.hand /\ \A q \in Seats \ {p} : hands'[q] = hands[q]
  BY <1>1, <1>3, <1>4
<1>6. PICK d \in Nat, n \in Nat : d = deck /\ n = Len(cells) /\ d <= b /\ DOMAIN cells = 1 .. n
  BY SliceFacts
<1>7. \A q \in Seats : hands[q].off + hands[q].len \in Nat /\ hands[q].off + hands[q].len <= b
  <2>1. SUFFICES ASSUME NEW q \in Seats
                 PROVE  hands[q].off + hands[q].len \in Nat /\ hands[q].off + hands[q].len <= b
    OBVIOUS
  <2>2. hands[q].off \in Nat /\ hands[q].len \in Nat
    BY SliceFacts
  <2>3. PICK e \in Nat : e = hands[q].off + hands[q].len
    BY <2>2
  <2>4. e <= d
    BY <1>1, <1>6, <2>3
  <2> QED
    BY <1>6, <2>3, <2>4
<1>8. \A q \in Seats : hands'[q].off + hands'[q].len <= b
  BY <1>5, <1>7
<1>9. \A i \in DOMAIN cells \ (Span(hands[p]) \cup Span(hands'[p])) : cells'[i] = cells[i]
  BY <1>2, <1>3, <1>5, <1>6 DEF SameElsewhere
<1>10. ASSUME NEW i \in b .. Len(cells)
       PROVE  cells'[i] = cells[i]
  <2>1. PICK o \in Nat, l \in Nat, k \in Nat :
          o = hands[p].off /\ l = hands[p].len /\ k = s.hand.len /\ s.hand.off = o /\ o >= 1
    <3>1. s.hand.off = hands[p].off /\ s.hand.len \in Nat
      BY <1>2, <1>4, SpanFacts DEF SameElsewhere
    <3> QED
      BY <3>1, SliceFacts
  <2>2. o + l <= b /\ o + k <= b
    BY <1>7, <2>1
  <2>3. i \in Nat /\ i >= b /\ i <= n
    BY <1>6
  <2>4. i \in DOMAIN cells
    BY <1>6, <2>1, <2>2, <2>3
  <2>5. i \notin Span(hands[p]) /\ i \notin Span(hands'[p])
    BY <1>5, <2>1, <2>2, <2>3 DEF Span
  <2> QED
    BY <1>9, <2>4, <2>5
<1>11. \A t : CountTile(p, t)' = Count(s, t) /\ Count(s, t) \in Nat
  <2>1. \A t : CountTile(p, t)' = Count(s, t)
    BY <1>3, <1>5 DEF CountTile, Count
  <2>2. \A t : Count(s, t) \in Nat
    BY <1>4, CountIs
  <2> QED
    BY <2>1, <2>2
<1> QED
  BY <1>3, <1>4, <1>5, <1>8, <1>9, <1>10, <1>11 DEF HandTurns

\* A hand that only loses tiles.
LEMMA LossStep ==
  ASSUME MahjongInv, NEW p \in Seats, NEW s, Shrunk(Slice(p), s), Becomes(p, s), deck' = deck
  PROVE  HandTurns(p, s, deck') /\ deck' \in 1 .. Len(cells) + 1
<1>1. /\ InArray(Slice(p)) /\ Slice(p).hand = hands[p]
      /\ hands[p].off + hands[p].len <= deck
      /\ deck \in Nat /\ deck >= 1 /\ Len(cells) \in Nat /\ deck <= Len(cells) + 1
  BY SliceFacts
<1>2. PICK o \in Nat, l \in Nat, k \in Nat :
        /\ o = hands[p].off /\ l = hands[p].len /\ k = s.hand.len /\ s.hand.off = o /\ k <= l
  <2>1. s.hand.off = hands[p].off /\ s.hand.len \in Nat /\ s.hand.len <= hands[p].len
    BY <1>1, SpanFacts DEF Shrunk, SameElsewhere
  <2> QED
    BY <2>1, SliceFacts
<1>3. s.hand.off + s.hand.len <= deck
  <2>1. PICK d \in Nat : d = deck
    BY <1>1
  <2>2. o + l <= d
    BY <1>1, <1>2, <2>1
  <2>3. o + k <= d
    BY <1>2, <2>2
  <2> QED
    BY <1>2, <2>1, <2>3
<1>4. HandTurns(p, s, deck)
  <2>1. SameElsewhere(Slice(p), s)
    BY DEF Shrunk
  <2>2. deck \in Nat /\ deck <= deck
    BY <1>1
  <2> QED
    BY <1>3, <2>1, <2>2, HandStep
<1> QED
  BY <1>1, <1>4

Table(h, ds, ms) ==
  /\ h \in [Seats -> Hand] /\ ds \in [Seats -> Seq(Kinds)] /\ ms \in [Seats -> Seq(MeldRecord)]

\* What a player sees of a kind of tile, by players.
Seen(c, ds, ms, p, t) ==
  [x \in Seats |-> PileHas(ds[x], t) + MeldsHave(ms[x], t) + (IF x = p THEN c ELSE 0)]

LEMMA OpenIs ==
  ASSUME NEW h, NEW ds, NEW ms, Table(h, ds, ms), NEW t, NEW x \in Seats
  PROVE  PileHas(ds[x], t) \in Nat /\ MeldsHave(ms[x], t) \in Nat
<1>1. ds[x] \in Seq(Kinds) /\ ms[x] \in Seq(MeldRecord)
  BY DEF Table
<1>2. PileHas(ds[x], t) \in Nat
  BY <1>1, AmongIs DEF PileHas
<1>3. /\ Among(ms[x], MeldsOfType("Pong", t)) \in Nat
      /\ Among(ms[x], MeldsOfType("Kong", t)) \in Nat
      /\ Among(ms[x], MeldsOfType("Chi", t)) \in Nat
  BY <1>1, AmongIs
<1> QED
  BY <1>2, <1>3 DEF MeldsHave

LEMMA MeldsOfIs ==
  ASSUME NEW ms \in Seq(MeldRecord), NEW t, NEW type
  PROVE  Cardinality({i \in DOMAIN ms : ms[i].type = type /\ t \in ms[i].of})
           = Among(ms, MeldsOfType(type, t))
<1>1. \A i \in DOMAIN ms : ms[i] \in MeldRecord
  OBVIOUS
<1>2. {i \in DOMAIN ms : ms[i].type = type /\ t \in ms[i].of}
        = {i \in DOMAIN ms : ms[i] \in MeldsOfType(type, t)}
  BY <1>1 DEF MeldsOfType
<1> QED
  BY <1>2 DEF Among

LEMMA PileHasIs ==
  ASSUME NEW d, NEW t
  PROVE  Cardinality({i \in DOMAIN d : d[i] = t}) = PileHas(d, t)
<1>1. {i \in DOMAIN d : d[i] = t} = {i \in DOMAIN d : d[i] \in {t}}
  OBVIOUS
<1> QED
  BY <1>1 DEF PileHas, Among

LEMMA KnownIs ==
  ASSUME Table(hands, discards, melds), Table(hands', discards', melds'), NEW p \in Seats, NEW t
  PROVE  /\ Known(p, t) = Cardinality(Numbered(Seen(CountTile(p, t), discards, melds, p, t)))
         /\ Known(p, t)' = Cardinality(Numbered(Seen(CountTile(p, t)', discards', melds', p, t)))
<1>1. \A x \in Seats : Shown(x, t) = PileHas(discards[x], t) + MeldsHave(melds[x], t)
  <2>1. SUFFICES ASSUME NEW x \in Seats
                 PROVE  Shown(x, t) = PileHas(discards[x], t) + MeldsHave(melds[x], t)
    OBVIOUS
  <2>2. melds[x] \in Seq(MeldRecord)
    BY DEF Table
  <2>3. \A type : MeldsOf(x, type, t) = Among(melds[x], MeldsOfType(type, t))
    BY <2>2, MeldsOfIs DEF MeldsOf
  <2>4. PICK a \in Nat, b \in Nat, c \in Nat, d \in Nat :
          /\ a = PileHas(discards[x], t) /\ b = Among(melds[x], MeldsOfType("Pong", t))
          /\ c = Among(melds[x], MeldsOfType("Kong", t)) /\ d = Among(melds[x], MeldsOfType("Chi", t))
    BY <2>2, AmongIs, OpenIs
  <2>5. Shown(x, t) = a + 3 * b + 4 * c + d
    BY <2>3, <2>4, PileHasIs DEF Shown
  <2>6. MeldsHave(melds[x], t) = 3 * b + 4 * c + d
    BY <2>4 DEF MeldsHave
  <2> QED
    BY <2>4, <2>5, <2>6
<1>2. \A x \in Seats : Shown(x, t)' = PileHas(discards'[x], t) + MeldsHave(melds'[x], t)
  <2>1. SUFFICES ASSUME NEW x \in Seats
                 PROVE  Shown(x, t)' = PileHas(discards'[x], t) + MeldsHave(melds'[x], t)
    OBVIOUS
  <2>2. melds'[x] \in Seq(MeldRecord)
    BY DEF Table
  <2>3. \A type : MeldsOf(x, type, t)' = Among(melds'[x], MeldsOfType(type, t))
    BY <2>2, MeldsOfIs DEF MeldsOf
  <2>4. PICK a \in Nat, b \in Nat, c \in Nat, d \in Nat :
          /\ a = PileHas(discards'[x], t) /\ b = Among(melds'[x], MeldsOfType("Pong", t))
          /\ c = Among(melds'[x], MeldsOfType("Kong", t)) /\ d = Among(melds'[x], MeldsOfType("Chi", t))
    BY <2>2, AmongIs, OpenIs
  <2>5. Shown(x, t)' = a + 3 * b + 4 * c + d
    BY <2>3, <2>4, PileHasIs DEF Shown
  <2>6. MeldsHave(melds'[x], t) = 3 * b + 4 * c + d
    BY <2>4 DEF MeldsHave
  <2> QED
    BY <2>4, <2>5, <2>6
<1>3. [x \in Seats |-> Shown(x, t) + (IF x = p THEN CountTile(p, t) ELSE 0)]
        = Seen(CountTile(p, t), discards, melds, p, t)
  BY <1>1 DEF Seen
<1>4. [x \in Seats |-> Shown(x, t)' + (IF x = p THEN CountTile(p, t)' ELSE 0)]
        = Seen(CountTile(p, t)', discards', melds', p, t)
  BY <1>2 DEF Seen
<1> QED
  BY <1>3, <1>4 DEF Known

\* In one step the hand of p gets k more of a kind of tile, its pile l and its
\* melds m, which are n that are drawn and j that are taken from the pile of q.
TurnOf(p, q, t, k, l, m, n, j) ==
  /\ k + l + m = n + j
  /\ CountTile(p, t)' = CountTile(p, t) + k
  /\ \A x \in Seats :
       /\ PileHas(discards'[x], t) = PileHas(discards[x], t) + (IF x = p THEN l ELSE 0)
                                       - (IF x = q THEN j ELSE 0)
       /\ MeldsHave(melds'[x], t) = MeldsHave(melds[x], t) + (IF x = p THEN m ELSE 0)

LEMMA KnownTurn ==
  ASSUME Table(hands, discards, melds), Table(hands', discards', melds'),
         NEW p \in Seats, NEW q \in Seats, NEW t,
         CountTile(p, t) \in Nat, CountTile(p, t)' \in Nat,
         NEW k \in Int, NEW l \in Int, NEW m \in Int, NEW n \in {0, 1}, NEW j \in {0, 1},
         TurnOf(p, q, t, k, l, m, n, j)
  PROVE  Known(p, t)' = Known(p, t) + n
<1>1. PICK c \in Nat, d \in Nat : c = CountTile(p, t) /\ d = CountTile(p, t)' /\ d = c + k
  BY DEF TurnOf
<1>2. PICK f, g : f = Seen(c, discards, melds, p, t) /\ g = Seen(d, discards', melds', p, t)
  OBVIOUS
<1>3. /\ Known(p, t) = Cardinality(Numbered(f)) /\ Known(p, t)' = Cardinality(Numbered(g))
  BY <1>1, <1>2, KnownIs
<1>4. ASSUME NEW x \in Seats
      PROVE  /\ f[x] \in Nat /\ g[x] \in Nat
             /\ g[x] = f[x] + (IF x = p THEN n + j ELSE 0) - (IF x = q THEN j ELSE 0)
  <2>1. PICK a \in Nat, b \in Nat, u \in Nat, v \in Nat :
          /\ a = PileHas(discards[x], t) /\ b = MeldsHave(melds[x], t)
          /\ u = PileHas(discards'[x], t) /\ v = MeldsHave(melds'[x], t)
    BY OpenIs
  <2>2. f[x] = a + b + (IF x = p THEN c ELSE 0) /\ g[x] = u + v + (IF x = p THEN d ELSE 0)
    BY <1>2, <2>1 DEF Seen
  <2>3. /\ u = a + (IF x = p THEN l ELSE 0) - (IF x = q THEN j ELSE 0)
        /\ v = b + (IF x = p THEN m ELSE 0)
    BY <2>1 DEF TurnOf
  <2>4. f[x] \in Nat /\ g[x] \in Nat
    BY <1>1, <2>2
  <2>5. CASE x = p
    <3>1. f[x] = a + b + c /\ g[x] = u + v + (c + k) /\ v = b + m
      BY <1>1, <2>2, <2>3, <2>5
    <3>2. u = a + l - (IF x = q THEN j ELSE 0)
      BY <2>3, <2>5
    <3>3. k + l + m = n + j
      BY DEF TurnOf
    <3>4. j \in Int /\ n \in Int
      OBVIOUS
    <3>5. CASE x = q
      <4>1. u = a + l - j
        BY <3>2, <3>5
      <4>2. g[x] = f[x] + (n + j) - j
        BY <1>1, <2>1, <3>1, <3>3, <3>4, <4>1
      <4> QED
        BY <2>4, <2>5, <3>4, <3>5, <4>2
    <3>6. CASE x # q
      <4>1. u = a + l
        BY <2>1, <3>2, <3>6
      <4>2. g[x] = f[x] + (n + j)
        BY <1>1, <2>1, <3>1, <3>3, <3>4, <4>1
      <4>3. g[x] \in Nat
        BY <2>4
      <4> QED
        BY <2>4, <2>5, <3>4, <3>6, <4>2, <4>3
    <3> QED
      BY <3>5, <3>6
  <2>6. CASE x # p
    BY <2>2, <2>3, <2>4, <2>6
  <2> QED
    BY <2>5, <2>6
<1>5. f \in [Seats -> Nat] /\ g \in [Seats -> Nat]
  <2>1. f = [x \in Seats |-> f[x]] /\ g = [x \in Seats |-> g[x]]
    BY <1>2 DEF Seen
  <2> QED
    BY <1>4, <2>1
<1>6. PICK a \in Nat : a = Cardinality(Numbered(f))
  BY <1>5, NumberedFinite
<1>7. CASE j = 1
  <2>1. TileMoved(f, g, p, q, n)
    BY <1>4, <1>7 DEF TileMoved
  <2> QED
    BY <1>3, <1>5, <2>1, NumberedMoved
<1>8. CASE j = 0 /\ n = 0
  <2>1. \A x \in Seats : g[x] = f[x]
    BY <1>4, <1>8
  <2>2. g = f
    BY <1>5, <2>1
  <2> QED
    BY <1>3, <1>6, <1>8, <2>2
<1>9. CASE j = 0 /\ n = 1
  <2>1. \A x \in Seats : g[x] = f[x] + (IF x = p THEN 1 ELSE 0)
    BY <1>4, <1>9
  <2>2. g = [f EXCEPT ![p] = f[p] + 1]
    BY <1>5, <2>1
  <2> QED
    BY <1>3, <1>5, <1>9, <2>2, NumberedGrows
<1> QED
  BY <1>7, <1>8, <1>9

\* The tiles of a kind that a step draws.
DrawnOf(t) == Cardinality({i \in deck .. deck' - 1 : cells[i] = t})

LEMMA DrawnIs ==
  ASSUME MahjongInv, NEW t
  PROVE  /\ deck' = deck => DrawnOf(t) = 0
         /\ deck' = deck + 1 => DrawnOf(t) = IF t = cells[deck] THEN 1 ELSE 0
<1>1. PICK d \in Nat : d = deck
  BY SliceFacts, SeatsAre
<1>2. CASE deck' = deck
  <2>1. {i \in deck .. deck' - 1 : cells[i] = t} = {}
    BY <1>1, <1>2
  <2> QED
    BY <1>1, <1>2, <2>1, FS_EmptySet DEF DrawnOf
<1>3. CASE deck' = deck + 1
  <2>1. deck .. deck' - 1 = {d}
    BY <1>1, <1>3
  <2>2. {i \in deck .. deck' - 1 : cells[i] = t} = IF t = cells[d] THEN {d} ELSE {}
    BY <2>1
  <2>3. Cardinality({d}) = 1 /\ Cardinality({}) = 0
    BY FS_Singleton, FS_EmptySet
  <2>4. DrawnOf(t) = IF t = cells[d] THEN 1 ELSE 0
    <3>1. CASE t = cells[d]
      BY <2>2, <2>3, <3>1 DEF DrawnOf
    <3>2. CASE t # cells[d]
      BY <2>2, <2>3, <3>2 DEF DrawnOf
    <3> QED
      BY <3>1, <3>2
  <2> QED
    BY <1>1, <1>3, <2>4
<1> QED
  BY <1>2, <1>3

\* What TilesConserved says of one step.
Named == last'.type = "Kong" /\ LastIsDiscard => last'.tile = last.tile
Accounted(p) == Named => \A t \in Kinds : Known(p, t)' = Known(p, t) + DrawnOf(t)
Conserved ==
  /\ \A i \in deck' .. Len(cells) : cells'[i] = cells[i]
  /\ \A p \in Seats : moves' # moves /\ last'.player = p =>
       /\ \A i \in DOMAIN cells \ (Span(hands[p]) \cup Span(hands'[p])) : cells'[i] = cells[i]
       /\ Accounted(p)

LEMMA CallConserves ==
  ASSUME NEW p \in Seats, NEW s, NEW type, NEW t, HandTurns(p, s, deck'), Remember(p, type, t),
         Accounted(p)
  PROVE  Conserved
<1>1. last'.player = p
  BY DEF Remember
<1> QED
  BY <1>1 DEF Conserved, HandTurns

\* The invariant after a call, from what it did to the hand of its player.
LEMMA InvAfter ==
  ASSUME MahjongInv, NEW p \in Seats, NEW s, NEW type, NEW t, HandTurns(p, s, deck'),
         deck' \in 1 .. Len(cells) + 1, Table(hands', discards', melds'),
         current' \in Seats, ting' \subseteq Seats, rules' = rules, Remember(p, type, t),
         type = "Discard" => /\ t \in Kinds /\ discards'[p] # <<>>
                             /\ discards'[p][Len(discards'[p])] = t
  PROVE  MahjongInv'
<1>1. moves \in 0 .. MaxMoves /\ rules \in {"HT", "TH"}
  BY DEF MahjongInv, MahjongTypeOK
<1>2. moves' \in 0 .. MaxMoves
  BY <1>1, MovesAssumption DEF Remember
<1>3. last' = [type |-> type, player |-> p, tile |-> t]
  BY DEF Remember
<1>4. DiscardOnTop'
  BY <1>3 DEF LastIsDiscard, DiscardOnTop
<1>5. MahjongTypeOK'
  BY <1>1, <1>2 DEF MahjongTypeOK, HandTurns, Hand
<1> QED
  BY <1>4, <1>5 DEF MahjongInv, Table

LEMMA InvFacts ==
  ASSUME MahjongInv
  PROVE  /\ Table(hands, discards, melds)
         /\ deck \in Nat /\ deck >= 1 /\ Len(cells) \in Nat /\ deck <= Len(cells) + 1
         /\ cells \in Seq(Kinds) /\ current \in Seats /\ ting \subseteq Seats
         /\ \A p \in Seats : \A t : CountTile(p, t) \in Nat
         /\ LastIsDiscard => /\ last.player \in Seats /\ last.tile \in Kinds
                             /\ discards[last.player] # <<>>
<1>1. /\ hands \in [Seats -> Hand] /\ current \in Seats /\ ting \subseteq Seats
  BY DEF MahjongInv, MahjongTypeOK, Hand
<1>2. Table(hands, discards, melds)
  BY <1>1 DEF MahjongInv, Table
<1>3. deck \in Nat /\ deck >= 1 /\ Len(cells) \in Nat /\ deck <= Len(cells) + 1 /\ cells \in Seq(Kinds)
  BY SeatsAre, SliceFacts
<1>4. \A p \in Seats : \A t : CountTile(p, t) \in Nat
  BY SliceFacts, CountIs
<1> QED
  BY <1>1, <1>2, <1>3, <1>4 DEF MahjongInv, DiscardOnTop

LEMMA DrawKeeps ==
  ASSUME MahjongInv, NEW p \in Seats, Draw(p)
  PROVE  MahjongInv' /\ Conserved
<1>1. deck <= Len(cells) /\ deck' = deck + 1 /\ Remember(p, "Draw", Nothing)
  BY DEF Draw, MayDraw
<1>2. rules' = rules /\ discards' = discards /\ melds' = melds /\ ting' = ting /\ current' = current
  BY DEF Draw, NoTasks
<1>3. PICK s : s = Append1(Slice(p), cells[deck])
  OBVIOUS
<1>4. Becomes(p, s)
  BY <1>3 DEF Draw
<1>5. PICK d \in Nat, e \in Nat, o \in Nat, l \in Nat :
        /\ d = deck /\ e = Len(cells) /\ o = hands[p].off /\ l = hands[p].len
        /\ o + l <= d /\ d >= 1 /\ d <= e
  BY <1>1, SliceFacts
<1>6. cells[deck] \in Kinds
  BY <1>1, <1>5, InvFacts
<1>7. /\ InArray(Slice(p)) /\ Slice(p).hand = hands[p] /\ Slice(p).array = cells
      /\ \A t : CountTile(p, t) = Count(Slice(p), t)
  BY SliceFacts
<1>8. /\ SameElsewhere(Slice(p), s) /\ s.hand.len = l + 1
      /\ \A t \in Kinds : Count(s, t) = CountTile(p, t) + (IF t = cells[deck] THEN 1 ELSE 0)
  <2>1. Slice(p).hand.off + Slice(p).hand.len <= Len(Slice(p).array)
    BY <1>5, <1>7
  <2> QED
    BY <1>3, <1>5, <1>6, <1>7, <2>1, Append1Is
<1>9. HandTurns(p, s, deck')
  <2>1. d + 1 \in Nat /\ deck <= d + 1 /\ deck' = d + 1
    BY <1>1, <1>5
  <2>2. s.hand.off = o
    BY <1>5, <1>7, <1>8 DEF SameElsewhere
  <2>3. s.hand.off + s.hand.len <= d + 1
    BY <1>5, <1>8, <2>2
  <2> QED
    BY <1>4, <1>8, <2>1, <2>3, HandStep
<1>10. deck' \in 1 .. Len(cells) + 1
  BY <1>1, <1>5
<1>11. Table(hands, discards, melds) /\ Table(hands', discards', melds')
  BY <1>2, <1>9, InvFacts DEF Table, HandTurns
<1>12. MahjongInv'
  BY <1>1, <1>2, <1>9, <1>10, <1>11, InvAfter, InvFacts
<1>13. ASSUME NEW t \in Kinds
       PROVE  Known(p, t)' = Known(p, t) + DrawnOf(t)
  <2>1. PICK n \in {0, 1} : n = IF t = cells[deck] THEN 1 ELSE 0
    OBVIOUS
  <2>2. CountTile(p, t) \in Nat /\ CountTile(p, t)' \in Nat
    BY <1>9, InvFacts DEF HandTurns
  <2>3. CountTile(p, t)' = CountTile(p, t) + n
    BY <1>8, <1>9, <2>1 DEF HandTurns
  <2>4. TurnOf(p, p, t, n, 0, 0, n, 0)
    <3>1. \A x \in Seats : PileHas(discards[x], t) \in Nat /\ MeldsHave(melds[x], t) \in Nat
      BY <1>11, OpenIs
    <3> QED
      BY <1>2, <2>3, <3>1 DEF TurnOf
  <2>5. Known(p, t)' = Known(p, t) + n
    BY <1>11, <2>2, <2>4, KnownTurn
  <2>6. DrawnOf(t) = n
    BY <1>1, <2>1, DrawnIs
  <2> QED
    BY <2>5, <2>6
<1> QED
  BY <1>1, <1>9, <1>12, <1>13, CallConserves DEF Accounted

LEMMA DiscardKeeps ==
  ASSUME MahjongInv, NEW p \in Seats, NEW t \in Kinds, Discard(p, t)
  PROVE  MahjongInv' /\ Conserved
<1>1. deck' = deck /\ Remember(p, "Discard", t) /\ Holds(p, t)
  BY DEF Discard, MayDiscard
<1>2. rules' = rules /\ melds' = melds /\ ting' = ting
  BY DEF Discard
<1>3. discards' = [discards EXCEPT ![p] = Append(discards[p], t)]
  BY DEF Discard
<1>4. PICK s : s = RemoveTile(Slice(p), t)
  OBVIOUS
<1>5. Becomes(p, s)
  BY <1>4 DEF Discard
<1>6. /\ Shrunk(Slice(p), s)
      /\ \A u : Count(s, u) = CountTile(p, u) - (IF u = t THEN 1 ELSE 0)
  <2>1. /\ InArray(Slice(p)) /\ HasTile(Slice(p), t)
        /\ \A u : CountTile(p, u) = Count(Slice(p), u)
    BY <1>1, SliceFacts
  <2> QED
    BY <1>4, <2>1, RemoveTileIs
<1>7. HandTurns(p, s, deck') /\ deck' \in 1 .. Len(cells) + 1
  BY <1>1, <1>5, <1>6, LossStep
<1>8. Table(hands, discards, melds)
  BY InvFacts
<1>9. discards \in [Seats -> Seq(Kinds)] /\ discards[p] \in Seq(Kinds)
  BY <1>8 DEF Table
<1>10. PICK a : a = Append(discards[p], t)
  OBVIOUS
<1>11. a \in Seq(Kinds) /\ a # <<>> /\ a[Len(a)] = t
  BY <1>9, <1>10
<1>12. /\ discards' \in [Seats -> Seq(Kinds)] /\ discards'[p] = a
       /\ \A x \in Seats \ {p} : discards'[x] = discards[x]
  BY <1>3, <1>9, <1>10, <1>11
<1>13. Table(hands', discards', melds')
  BY <1>2, <1>7, <1>8, <1>12 DEF Table, HandTurns
<1>14. current' \in Seats
  BY InvFacts, SeatsAre DEF Discard
<1>15. MahjongInv'
  BY <1>1, <1>2, <1>7, <1>11, <1>12, <1>13, <1>14, InvAfter, InvFacts
<1>16. ASSUME NEW u \in Kinds
       PROVE  Known(p, u)' = Known(p, u) + DrawnOf(u)
  <2>1. PICK n \in {0, 1} : n = IF u = t THEN 1 ELSE 0
    OBVIOUS
  <2>2. CountTile(p, u) \in Nat /\ CountTile(p, u)' \in Nat
    BY <1>7, InvFacts DEF HandTurns
  <2>3. PICK k \in Int : k = 0 - n
    OBVIOUS
  <2>4. CountTile(p, u)' = CountTile(p, u) + k
    BY <1>6, <1>7, <2>1, <2>2, <2>3 DEF HandTurns
  <2>5. PileHas(a, u) = PileHas(discards[p], u) + n
    BY <1>9, <1>10, <2>1, AmongGrows DEF PileHas
  <2>6. \A x \in Seats : PileHas(discards[x], u) \in Nat /\ MeldsHave(melds[x], u) \in Nat
    BY <1>8, OpenIs
  <2>7. TurnOf(p, p, u, k, n, 0, 0, 0)
    BY <1>2, <1>12, <2>3, <2>4, <2>5, <2>6 DEF TurnOf
  <2>8. Known(p, u)' = Known(p, u) + 0
    BY <1>8, <1>13, <2>2, <2>7, KnownTurn
  <2>9. DrawnOf(u) = 0
    BY <1>1, DrawnIs
  <2> QED
    BY <2>8, <2>9
<1> QED
  BY <1>1, <1>7, <1>15, <1>16, CallConserves DEF Accounted

\* The discard that is claimed goes from the top of its pile.
LEMMA ClaimedIs ==
  ASSUME MahjongInv, LastIsDiscard
  PROVE  /\ last.player \in Seats /\ last.tile \in Kinds
         /\ Claimed \in [Seats -> Seq(Kinds)]
         /\ \A x \in Seats : \A t : PileHas(Claimed[x], t) = PileHas(discards[x], t)
              - (IF x = last.player THEN (IF t = last.tile THEN 1 ELSE 0) ELSE 0)
<1>1. /\ discards \in [Seats -> Seq(Kinds)] /\ last.player \in Seats /\ last.tile \in Kinds
      /\ discards[last.player] # <<>>
      /\ discards[last.player][Len(discards[last.player])] = last.tile
  BY DEF MahjongInv, DiscardOnTop
<1>2. PICK q \in Seats, d \in Seq(Kinds) :
        q = last.player /\ d = discards[q] /\ d # <<>> /\ d[Len(d)] = last.tile
  BY <1>1
<1>3. PICK e : e = SubSeq(d, 1, Len(d) - 1)
  OBVIOUS
<1>4. /\ e \in Seq(Kinds)
      /\ \A t : PileHas(e, t) = PileHas(d, t) - (IF t = last.tile THEN 1 ELSE 0)
  <2>1. e \in Seq(Kinds)
    BY <1>2, <1>3, AmongShrinks
  <2>2. ASSUME NEW t
        PROVE  PileHas(e, t) = PileHas(d, t) - (IF t = last.tile THEN 1 ELSE 0)
    <3>1. Among(e, {t}) = Among(d, {t}) - (IF d[Len(d)] \in {t} THEN 1 ELSE 0)
      BY <1>2, <1>3, AmongShrinks
    <3> QED
      BY <1>2, <3>1 DEF PileHas
  <2> QED
    BY <2>1, <2>2
<1>5. Claimed = [discards EXCEPT ![q] = e]
  BY <1>2, <1>3 DEF Claimed
<1>6. Claimed \in [Seats -> Seq(Kinds)] /\ Claimed[q] = e
  BY <1>1, <1>4, <1>5
<1>7. \A x \in Seats \ {q} : Claimed[x] = discards[x]
  BY <1>1, <1>5
<1>8. \A x \in Seats : \A t : PileHas(discards[x], t) \in Nat
  BY InvFacts, OpenIs
<1> QED
  BY <1>1, <1>2, <1>4, <1>6, <1>7, <1>8

\* A meld of p that is laid down.
LEMMA MeldsGrow ==
  ASSUME MahjongInv, NEW p \in Seats, NEW m \in MeldRecord, melds' = [melds EXCEPT ![p] = Append(melds[p], m)]
  PROVE  /\ melds' \in [Seats -> Seq(MeldRecord)]
         /\ \A x \in Seats : \A t : MeldsHave(melds'[x], t) = MeldsHave(melds[x], t) +
                                  (IF x = p THEN (IF t \in m.of THEN TilesIn(m) ELSE 0) ELSE 0)
<1>1. melds \in [Seats -> Seq(MeldRecord)] /\ melds[p] \in Seq(MeldRecord)
  BY DEF MahjongInv
<1>2. PICK b : b = Append(melds[p], m)
  OBVIOUS
<1>3. b \in Seq(MeldRecord)
  BY <1>1, <1>2
<1>4. \A t : MeldsHave(b, t) = MeldsHave(melds[p], t) + (IF t \in m.of THEN TilesIn(m) ELSE 0)
  BY <1>1, <1>2, MeldsHaveGrows
<1>5. melds' \in [Seats -> Seq(MeldRecord)] /\ melds'[p] = b
  BY <1>1, <1>2, <1>3
<1>6. \A x \in Seats \ {p} : melds'[x] = melds[x]
  BY <1>1
<1>7. ASSUME NEW x \in Seats, NEW t
      PROVE  MeldsHave(melds'[x], t) = MeldsHave(melds[x], t) +
               (IF x = p THEN (IF t \in m.of THEN TilesIn(m) ELSE 0) ELSE 0)
  <2>1. MeldsHave(melds[x], t) \in Nat
    BY InvFacts, OpenIs
  <2>2. CASE x = p
    BY <1>4, <1>5, <2>2
  <2>3. CASE x # p
    BY <1>6, <2>1, <2>3
  <2> QED
    BY <2>2, <2>3
<1> QED
  BY <1>5, <1>7

\* What pongs and chis have in common: two tiles of the hand and the discard make
\* a meld.
MeldOf(m, t, u, v) ==
  \A x : (IF x = t THEN 1 ELSE 0) + (IF x = u THEN 1 ELSE 0) + (IF x = v THEN 1 ELSE 0)
           = IF x \in m.of THEN TilesIn(m) ELSE 0

LEMMA MeldStep ==
  ASSUME MahjongInv, NEW p \in Seats, LastIsDiscard, NEW t, NEW u, NEW m \in MeldRecord, NEW type,
         \/ t = u /\ CountTile(p, t) >= 2
         \/ t # u /\ Holds(p, t) /\ Holds(p, u),
         Becomes(p, Remove2(Slice(p), t, u)),
         melds' = [melds EXCEPT ![p] = Append(melds[p], m)], MeldOf(m, t, u, last.tile),
         discards' = Claimed, deck' = deck, rules' = rules, ting' = ting, current' = current,
         Remember(p, type, Nothing), type # "Discard"
  PROVE  MahjongInv' /\ Conserved
<1>1. PICK s : s = Remove2(Slice(p), t, u)
  OBVIOUS
<1>2. InArray(Slice(p)) /\ \A x : CountTile(p, x) = Count(Slice(p), x)
  BY SliceFacts
<1>3. \/ t = u /\ Count(Slice(p), t) >= 2
      \/ t # u /\ HasTile(Slice(p), t) /\ HasTile(Slice(p), u)
  BY SliceFacts
<1>4. /\ Shrunk(Slice(p), s)
      /\ \A x : Count(s, x) = CountTile(p, x) - (IF x = t THEN 1 ELSE 0) - (IF x = u THEN 1 ELSE 0)
  BY <1>1, <1>2, <1>3, Remove2Is
<1>5. HandTurns(p, s, deck') /\ deck' \in 1 .. Len(cells) + 1
  BY <1>1, <1>4, LossStep
<1>6. /\ discards' \in [Seats -> Seq(Kinds)] /\ last.player \in Seats
      /\ \A x \in Seats : \A v : PileHas(discards'[x], v) = PileHas(discards[x], v)
              - (IF x = last.player THEN (IF v = last.tile THEN 1 ELSE 0) ELSE 0)
  BY ClaimedIs
<1>7. /\ melds' \in [Seats -> Seq(MeldRecord)]
      /\ \A x \in Seats : \A v : MeldsHave(melds'[x], v) = MeldsHave(melds[x], v) +
                               (IF x = p THEN (IF v \in m.of THEN TilesIn(m) ELSE 0) ELSE 0)
  BY MeldsGrow
<1>8. Table(hands, discards, melds) /\ Table(hands', discards', melds')
  BY <1>5, <1>6, <1>7, InvFacts DEF Table, HandTurns
<1>9. MahjongInv'
  BY <1>5, <1>8, InvAfter, InvFacts
<1>10. ASSUME NEW x \in Kinds
       PROVE  Known(p, x)' = Known(p, x) + DrawnOf(x)
  <2>1. PICK a \in {0, 1}, b \in {0, 1}, j \in {0, 1} :
          /\ a = (IF x = t THEN 1 ELSE 0) /\ b = (IF x = u THEN 1 ELSE 0)
          /\ j = (IF x = last.tile THEN 1 ELSE 0)
    OBVIOUS
  <2>2. 0 - a - b \in Int /\ a + b + j \in Int
    OBVIOUS
  <2>14. PICK k \in Int : k = 0 - a - b
    BY <2>2
  <2>15. PICK l \in Int : l = a + b + j
    BY <2>2
  <2>3. l = IF x \in m.of THEN TilesIn(m) ELSE 0
    BY <2>1, <2>15 DEF MeldOf
  <2>4. CountTile(p, x) \in Nat /\ CountTile(p, x)' \in Nat
    BY <1>5, InvFacts DEF HandTurns
  <2>5. CountTile(p, x)' = CountTile(p, x) - a - b
    BY <1>4, <1>5, <2>1 DEF HandTurns
  <2>6. CountTile(p, x)' = CountTile(p, x) + k
    BY <2>4, <2>5, <2>14
  <2>7. \A y \in Seats : PileHas(discards[y], x) \in Nat
    BY <1>8, OpenIs
  <2>8. \A y \in Seats : PileHas(discards'[y], x) = PileHas(discards[y], x)
                           + (IF y = p THEN 0 ELSE 0) - (IF y = last.player THEN j ELSE 0)
    BY <1>6, <2>1, <2>7
  <2>9. \A y \in Seats : MeldsHave(melds'[y], x) = MeldsHave(melds[y], x) + (IF y = p THEN l ELSE 0)
    BY <1>7, <2>3
  <2>10. k + 0 + l = 0 + j
    BY <2>14, <2>15
  <2>11. TurnOf(p, last.player, x, k, 0, l, 0, j)
    BY <2>6, <2>8, <2>9, <2>10 DEF TurnOf
  <2>12. Known(p, x)' = Known(p, x) + 0
    <3>1. PICK q \in Seats : q = last.player
      BY <1>6
    <3>2. 0 \in Int /\ 0 \in {0, 1} /\ TurnOf(p, q, x, k, 0, l, 0, j)
      BY <2>11, <3>1
    <3> QED
      BY <1>8, <2>4, <3>2, KnownTurn
  <2>13. DrawnOf(x) = 0
    BY DrawnIs
  <2> QED
    BY <2>12, <2>13
<1> QED
  BY <1>5, <1>9, <1>10, CallConserves DEF Accounted

LEMMA PongKeeps ==
  ASSUME MahjongInv, NEW p \in Seats, Pong(p)
  PROVE  MahjongInv' /\ Conserved
<1>1. PICK m : m = [type |-> "Pong", of |-> {last.tile}]
  OBVIOUS
<1>2. LastIsDiscard /\ CountTile(p, last.tile) >= 2 /\ last.tile \in Kinds
  BY InvFacts DEF Pong, MayPong
<1>3. m \in MeldRecord /\ MeldOf(m, last.tile, last.tile, last.tile)
  BY <1>1, <1>2 DEF MeldRecord, MeldOf, TilesIn
<1>4. /\ Becomes(p, Remove2(Slice(p), last.tile, last.tile))
      /\ melds' = [melds EXCEPT ![p] = Append(melds[p], m)]
      /\ discards' = Claimed /\ Remember(p, "Pong", Nothing)
      /\ deck' = deck /\ rules' = rules /\ ting' = ting /\ current' = current
  BY <1>1 DEF Pong, NoTasks
<1> QED
  BY <1>2, <1>3, <1>4, MeldStep

\* A run is its last tile and the two others.
LEMMA RunIs ==
  ASSUME NEW run \in Runs, NEW v \in run, NEW t \in run \ {v}, NEW u \in run \ {v}, t # u
  PROVE  run = {t, u, v} /\ run \subseteq Kinds
<1>1. PICK k \in Kinds : run = RunFrom(k) /\ RunFrom(k) \subseteq Kinds
  BY DEF Runs
<1>2. PICK a, b, c : /\ a = [suit |-> k.suit, value |-> k.value + 0]
                     /\ b = [suit |-> k.suit, value |-> k.value + 1]
                     /\ c = [suit |-> k.suit, value |-> k.value + 2]
  OBVIOUS
<1>3. 0 .. 2 = {0, 1, 2}
  OBVIOUS
<1>4. run = {a, b, c}
  BY <1>1, <1>2, <1>3 DEF RunFrom
<1> QED
  BY <1>1, <1>4

LEMMA ChiKeeps ==
  ASSUME MahjongInv, NEW p \in Seats, NEW run \in Runs, Chi(p, run)
  PROVE  MahjongInv' /\ Conserved
<1>1. PICK m : m = [type |-> "Chi", of |-> run]
  OBVIOUS
<1>2. LastIsDiscard /\ last.tile \in run /\ \A t \in run \ {last.tile} : Holds(p, t)
  BY DEF Chi, MayChi
<1>3. PICK t, u \in run \ {last.tile} : t # u /\ Becomes(p, Remove2(Slice(p), t, u))
  BY DEF Chi
<1>4. run = {t, u, last.tile} /\ run \subseteq Kinds
  BY <1>2, <1>3, RunIs
<1>5. m \in MeldRecord /\ MeldOf(m, t, u, last.tile)
  BY <1>1, <1>3, <1>4 DEF MeldRecord, MeldOf, TilesIn
<1>6. /\ melds' = [melds EXCEPT ![p] = Append(melds[p], m)]
      /\ discards' = Claimed /\ Remember(p, "Chi", Nothing)
      /\ deck' = deck /\ rules' = rules /\ ting' = ting /\ current' = current
  BY <1>1 DEF Chi, NoTasks
<1>7. Holds(p, t) /\ Holds(p, u)
  BY <1>2, <1>3
<1> QED
  BY <1>2, <1>3, <1>5, <1>6, <1>7, MeldStep

\* What Kong does to the hand: n tiles are drawn for the l of the kind t that are
\* lost, unless the client names another tile than the discard.
KongTurn(p, t, s, n, l) ==
  /\ HandTurns(p, s, deck') /\ deck' \in 1 .. Len(cells) + 1 /\ deck' = deck + n
  /\ l = IF LastIsDiscard THEN 3 ELSE 4
  /\ (LastIsDiscard => t = last.tile) =>
       \A u \in Kinds : CountTile(p, u)' = CountTile(p, u) - (IF u = t THEN l ELSE 0) + DrawnOf(u)

LEMMA KongHand ==
  ASSUME MahjongInv, NEW p \in Seats, NEW t \in Kinds, Kong(p, t)
  PROVE  \E s : \E n \in {0, 1} : \E l \in {3, 4} : KongTurn(p, t, s, n, l)
<1>1. PICK left : left = IF LastIsDiscard THEN RemoveTile(Remove2(Slice(p), t, t), t)
                                          ELSE Remove4(Slice(p), t)
  OBVIOUS
<1>2. PICK l \in {3, 4} : l = IF LastIsDiscard THEN 3 ELSE 4
  OBVIOUS
<1>3. PICK h \in Nat, o \in Nat, d \in Nat, e \in Nat :
        /\ h = hands[p].len /\ o = hands[p].off /\ d = deck /\ e = Len(cells)
        /\ o + h <= d /\ d >= 1 /\ d <= e + 1
  BY SliceFacts
<1>4. /\ InArray(Slice(p)) /\ Slice(p).hand = hands[p] /\ Slice(p).array = cells
      /\ \A u : CountTile(p, u) = Count(Slice(p), u)
  BY SliceFacts
<1>5. Shrunk(Slice(p), left)
  <2>1. CASE LastIsDiscard
    BY <1>1, <1>4, <2>1, Remove3Is
  <2>2. CASE ~LastIsDiscard
    BY <1>1, <1>4, <2>2, Remove4Is
  <2> QED
    BY <2>1, <2>2
<1>6. (LastIsDiscard => t = last.tile) =>
        \A u : Count(left, u) = CountTile(p, u) - (IF u = t THEN l ELSE 0)
  <2>1. SUFFICES ASSUME LastIsDiscard => t = last.tile
                 PROVE  \A u : Count(left, u) = CountTile(p, u) - (IF u = t THEN l ELSE 0)
    OBVIOUS
  <2>2. CASE LastIsDiscard
    <3>1. Count(Slice(p), t) >= 3
      BY <1>4, <2>1, <2>2 DEF Kong, MayKong
    <3> QED
      BY <1>1, <1>2, <1>4, <2>2, <3>1, Remove3Is
  <2>3. CASE ~LastIsDiscard
    <3>1. Count(Slice(p), t) >= 4
      BY <1>4, <2>3 DEF Kong, MayKong
    <3> QED
      BY <1>1, <1>2, <1>4, <2>3, <3>1, Remove4Is
  <2> QED
    BY <2>2, <2>3
<1>7. /\ Becomes(p, IF deck <= Len(cells) THEN Append1(left, cells[deck]) ELSE left)
      /\ deck' = IF deck <= Len(cells) THEN deck + 1 ELSE deck
  BY <1>1 DEF Kong
<1>8. PICK m \in Nat : m = left.hand.len /\ o = left.hand.off /\ m <= h /\ Len(left.array) = e
  <2>1. InArray(left) /\ Len(left.array) = e /\ left.hand.off = o /\ left.hand.len <= h
    BY <1>3, <1>4, <1>5 DEF Shrunk, SameElsewhere
  <2> QED
    BY <2>1, SpanFacts
<1>9. CASE deck <= Len(cells)
  <2>1. PICK s : s = Append1(left, cells[deck])
    OBVIOUS
  <2>2. cells[deck] \in Kinds
    BY <1>3, <1>9, InvFacts
  <2>3. /\ SameElsewhere(left, s) /\ s.hand.len = m + 1
        /\ \A u \in Kinds : Count(s, u) = Count(left, u) + (IF u = cells[deck] THEN 1 ELSE 0)
    <3>1. InArray(left)
      BY <1>5 DEF Shrunk, SameElsewhere
    <3>2. left.hand.off + left.hand.len <= Len(left.array)
      <4>1. m <= h /\ d <= e
        BY <1>3, <1>8, <1>9
      <4>2. o + m <= e
        BY <1>3, <4>1
      <4> QED
        BY <1>8, <4>2
    <3>3. s.hand.len = left.hand.len + 1
      BY <2>1, <2>2, <3>1, <3>2, Append1Is
    <3> QED
      BY <1>8, <2>1, <2>2, <3>1, <3>2, <3>3, Append1Is
  <2>4. SameElsewhere(Slice(p), s)
    BY <1>4, <1>5, <2>3, SameAgain
  <2>5. Becomes(p, s) /\ deck' = d + 1
    BY <1>3, <1>7, <1>9, <2>1
  <2>6. HandTurns(p, s, d + 1)
    <3>1. d + 1 \in Nat /\ deck <= d + 1
      BY <1>3
    <3>2. s.hand.off = o
      BY <1>8, <2>3 DEF SameElsewhere
    <3>3. s.hand.off + s.hand.len <= d + 1
      <4>1. s.hand.len = m + 1
        BY <2>3
      <4>2. s.hand.off + s.hand.len = o + (m + 1)
        BY <3>2, <4>1
      <4>3. m <= h /\ o + h <= d
        BY <1>3, <1>8
      <4>4. o + (m + 1) <= d + 1
        BY <4>3
      <4> QED
        BY <4>2, <4>4
    <3> QED
      BY <2>4, <2>5, <3>1, <3>3, HandStep
  <2>7. deck' \in 1 .. Len(cells) + 1 /\ deck' = deck + 1
    BY <1>3, <1>9, <2>5
  <2>8. (LastIsDiscard => t = last.tile) =>
          \A u \in Kinds : CountTile(p, u)' = CountTile(p, u) - (IF u = t THEN l ELSE 0) + DrawnOf(u)
    <3>1. SUFFICES ASSUME LastIsDiscard => t = last.tile, NEW u \in Kinds
                   PROVE  CountTile(p, u)' = CountTile(p, u) - (IF u = t THEN l ELSE 0) + DrawnOf(u)
      OBVIOUS
    <3>2. CountTile(p, u)' = Count(s, u)
      BY <2>6 DEF HandTurns
    <3>3. DrawnOf(u) = IF u = cells[deck] THEN 1 ELSE 0
      BY <2>7, DrawnIs
    <3>4. Count(left, u) = CountTile(p, u) - (IF u = t THEN l ELSE 0)
      BY <1>6, <3>1
    <3> QED
      BY <2>3, <3>2, <3>3, <3>4
  <2>9. KongTurn(p, t, s, 1, l)
    BY <1>2, <2>5, <2>6, <2>7, <2>8 DEF KongTurn
  <2> QED
    BY <2>9
<1>10. CASE ~(deck <= Len(cells))
  <2>1. Becomes(p, left) /\ deck' = deck
    BY <1>7, <1>10
  <2>2. HandTurns(p, left, deck') /\ deck' \in 1 .. Len(cells) + 1
    BY <1>5, <2>1, LossStep
  <2>3. (LastIsDiscard => t = last.tile) =>
          \A u \in Kinds : CountTile(p, u)' = CountTile(p, u) - (IF u = t THEN l ELSE 0) + DrawnOf(u)
    <3>1. SUFFICES ASSUME LastIsDiscard => t = last.tile, NEW u \in Kinds
                   PROVE  CountTile(p, u)' = CountTile(p, u) - (IF u = t THEN l ELSE 0) + DrawnOf(u)
      OBVIOUS
    <3>2. CountTile(p, u)' = Count(left, u) /\ DrawnOf(u) = 0 /\ CountTile(p, u) \in Nat
      BY <2>1, <2>2, DrawnIs, InvFacts DEF HandTurns
    <3>3. Count(left, u) = CountTile(p, u) - (IF u = t THEN l ELSE 0)
      BY <1>6, <3>1
    <3> QED
      BY <3>2, <3>3
  <2>4. deck' = deck + 0
    BY <1>3, <2>1
  <2>5. KongTurn(p, t, left, 0, l)
    BY <1>2, <2>2, <2>3, <2>4 DEF KongTurn
  <2> QED
    BY <2>5
<1> QED
  BY <1>9, <1>10

LEMMA KongKeeps ==
  ASSUME MahjongInv, NEW p \in Seats, NEW t \in Kinds, Kong(p, t)
  PROVE  MahjongInv' /\ Conserved
<1>0. PICK s : \E n \in {0, 1} : \E l \in {3, 4} : KongTurn(p, t, s, n, l)
  BY KongHand
<1>1. PICK n \in {0, 1}, l \in {3, 4} : KongTurn(p, t, s, n, l)
  BY <1>0
<1>2. HandTurns(p, s, deck') /\ deck' \in 1 .. Len(cells) + 1
  BY <1>1 DEF KongTurn
<1>3. PICK m : m = [type |-> "Kong", of |-> {t}]
  OBVIOUS
<1>4. m \in MeldRecord /\ m.of = {t} /\ TilesIn(m) = 4
  BY <1>3 DEF MeldRecord, TilesIn
<1>5. /\ melds' = [melds EXCEPT ![p] = Append(melds[p], m)]
      /\ discards' = IF LastIsDiscard THEN Claimed ELSE discards
      /\ Remember(p, "Kong", t)
      /\ rules' = rules /\ ting' = ting /\ current' = current
  BY <1>3 DEF Kong
<1>6. /\ melds' \in [Seats -> Seq(MeldRecord)]
      /\ \A x \in Seats : \A u : MeldsHave(melds'[x], u) = MeldsHave(melds[x], u) +
                               (IF x = p THEN (IF u = t THEN 4 ELSE 0) ELSE 0)
  <2>1. /\ melds' \in [Seats -> Seq(MeldRecord)]
        /\ \A x \in Seats : \A u : MeldsHave(melds'[x], u) = MeldsHave(melds[x], u) +
                                 (IF x = p THEN (IF u \in m.of THEN TilesIn(m) ELSE 0) ELSE 0)
    BY <1>4, <1>5, MeldsGrow
  <2>2. \A u : (IF u \in m.of THEN TilesIn(m) ELSE 0) = (IF u = t THEN 4 ELSE 0)
    BY <1>4
  <2> QED
    BY <2>1, <2>2
<1>7. Table(hands, discards, melds)
  BY InvFacts
<1>8. discards' \in [Seats -> Seq(Kinds)]
  <2>1. CASE LastIsDiscard
    BY <1>5, <2>1, ClaimedIs
  <2>2. CASE ~LastIsDiscard
    BY <1>5, <1>7, <2>2 DEF Table
  <2> QED
    BY <2>1, <2>2
<1>9. Table(hands', discards', melds')
  BY <1>2, <1>6, <1>8 DEF Table, HandTurns
<1>10. MahjongInv'
  BY <1>2, <1>5, <1>9, InvAfter, InvFacts
<1>11. ASSUME Named, NEW u \in Kinds
       PROVE  Known(p, u)' = Known(p, u) + DrawnOf(u)
  <2>1. LastIsDiscard => t = last.tile
    BY <1>5, <1>11 DEF Named, Remember
  <2>2. PICK d \in {0, 1} : d = DrawnOf(u)
    BY <1>1, <1>2, DrawnIs, InvFacts DEF KongTurn
  <2>3. PICK a \in {0, 1} : a = IF u = t THEN 1 ELSE 0
    OBVIOUS
  <2>4. PICK k \in Int, g \in Int : k = d - l * a /\ g = 4 * a
    OBVIOUS
  <2>5. CountTile(p, u) \in Nat /\ CountTile(p, u)' \in Nat
    BY <1>2, InvFacts DEF HandTurns
  <2>6. CountTile(p, u)' = CountTile(p, u) - (IF u = t THEN l ELSE 0) + d
    BY <1>1, <2>1, <2>2 DEF KongTurn
  <2>7. CountTile(p, u)' = CountTile(p, u) + k
    BY <2>3, <2>4, <2>5, <2>6
  <2>8. \A y \in Seats : PileHas(discards[y], u) \in Nat
    BY <1>7, OpenIs
  <2>9. \A y \in Seats : MeldsHave(melds'[y], u) = MeldsHave(melds[y], u) + (IF y = p THEN g ELSE 0)
    BY <1>6, <2>3, <2>4
  <2>10. CASE LastIsDiscard
    <3>1. /\ last.player \in Seats
          /\ \A y \in Seats : PileHas(discards'[y], u) = PileHas(discards[y], u)
               - (IF y = last.player THEN (IF u = last.tile THEN 1 ELSE 0) ELSE 0)
      BY <1>5, <2>10, ClaimedIs
    <3>2. \A y \in Seats : PileHas(discards'[y], u) = PileHas(discards[y], u)
                             + (IF y = p THEN 0 ELSE 0) - (IF y = last.player THEN a ELSE 0)
      BY <2>1, <2>3, <2>8, <2>10, <3>1
    <3>3. k + 0 + g = d + a
      <4>1. l = 3
        BY <1>1, <2>10 DEF KongTurn
      <4> QED
        BY <2>4, <4>1
    <3>4. PICK q \in Seats : q = last.player
      BY <3>1
    <3>5. Known(p, u)' = Known(p, u) + d
      <4>1. 0 \in Int /\ TurnOf(p, q, u, k, 0, g, d, a)
        BY <2>7, <2>9, <3>2, <3>3, <3>4 DEF TurnOf
      <4> QED
        BY <1>7, <1>9, <2>5, <4>1, KnownTurn
    <3> QED
      BY <2>2, <3>5
  <2>11. CASE ~LastIsDiscard
    <3>1. \A y \in Seats : PileHas(discards'[y], u) = PileHas(discards[y], u)
                             + (IF y = p THEN 0 ELSE 0) - (IF y = p THEN 0 ELSE 0)
      BY <1>5, <2>8, <2>11
    <3>2. k + 0 + g = d + 0
      <4>1. l = 4
        BY <1>1, <2>11 DEF KongTurn
      <4> QED
        BY <2>4, <4>1
    <3>3. TurnOf(p, p, u, k, 0, g, d, 0)
      BY <2>7, <2>9, <3>1, <3>2 DEF TurnOf
    <3>4. Known(p, u)' = Known(p, u) + d
      <4>1. 0 \in Int /\ 0 \in {0, 1}
        OBVIOUS
      <4> QED
        BY <1>7, <1>9, <2>5, <3>3, <4>1, KnownTurn
    <3> QED
      BY <2>2, <3>4
  <2> QED
    BY <2>10, <2>11
<1> QED
  BY <1>2, <1>5, <1>10, <1>11, CallConserves DEF Accounted

\* Calls that leave the tiles alone.
LEMMA StillKeeps ==
  ASSUME MahjongInv, UNCHANGED <<cells, hands, deck, discards, melds>>
  PROVE  Conserved
<1>1. \A i \in deck' .. Len(cells) : cells'[i] = cells[i]
  OBVIOUS
<1>2. ASSUME NEW p \in Seats, NEW t
      PROVE  Known(p, t)' = Known(p, t) + DrawnOf(t)
  <2>1. Table(hands, discards, melds) /\ Table(hands', discards', melds')
    BY InvFacts
  <2>2. CountTile(p, t)' = CountTile(p, t) + 0 /\ CountTile(p, t) \in Nat
    <3>1. CountTile(p, t)' = CountTile(p, t)
      BY DEF CountTile
    <3> QED
      BY <3>1, InvFacts
  <2>3. TurnOf(p, p, t, 0, 0, 0, 0, 0)
    BY <2>1, <2>2, OpenIs DEF TurnOf
  <2>4. Known(p, t)' = Known(p, t) + 0
    BY <2>1, <2>2, <2>3, KnownTurn
  <2>5. DrawnOf(t) = 0
    BY DrawnIs
  <2> QED
    BY <2>4, <2>5
<1> QED
  BY <1>1, <1>2 DEF Conserved, Accounted

LEMMA QuietKeeps ==
  ASSUME MahjongInv, NEW p \in Seats, Ting(p) \/ Pass(p) \/ TaskTimeout
  PROVE  MahjongInv' /\ Conserved
<1>1. UNCHANGED <<rules, cells, hands, deck, discards, melds>>
  BY DEF Ting, Pass, TaskTimeout
<1>2. Conserved
  BY <1>1, StillKeeps
<1>3. moves \in 0 .. MaxMoves /\ current \in Seats /\ ting \subseteq Seats
  BY DEF MahjongInv, MahjongTypeOK
<1>4. moves' \in 0 .. MaxMoves /\ current' \in Seats /\ ting' \subseteq Seats
  BY <1>3, SeatsAre, MovesAssumption DEF Ting, Pass, TaskTimeout, Remember, NoTasks
<1>5. MahjongTypeOK'
  BY <1>1, <1>4 DEF MahjongInv, MahjongTypeOK
<1>6. last' = last \/ ~LastIsDiscard'
  BY DEF Ting, Pass, TaskTimeout, Remember, LastIsDiscard
<1>7. DiscardOnTop'
  BY <1>1, <1>6 DEF MahjongInv, DiscardOnTop, LastIsDiscard
<1> QED
  BY <1>1, <1>2, <1>5, <1>7 DEF MahjongInv

LEMMA MahjongSteps ==
  ASSUME MahjongInv, [MahjongNext]_mahjongVars
  PROVE  MahjongInv' /\ Conserved
<1>1. CASE TaskTimeout
  BY <1>1, SeatsAre, QuietKeeps
<1>2. ASSUME NEW p \in Seats, Move(p)
      PROVE  MahjongInv' /\ Conserved
  <2>1. CASE Draw(p)
    BY <2>1, DrawKeeps
  <2>2. CASE Pong(p)
    BY <2>2, PongKeeps
  <2>3. CASE Ting(p) \/ Pass(p)
    BY <2>3, QuietKeeps
  <2>4. ASSUME NEW t \in Kinds, Discard(p, t) \/ Kong(p, t)
        PROVE  MahjongInv' /\ Conserved
    BY <2>4, DiscardKeeps, KongKeeps
  <2>5. ASSUME NEW run \in Runs, Chi(p, run)
        PROVE  MahjongInv' /\ Conserved
    BY <2>5, ChiKeeps
  <2> QED
    BY <1>2, <2>1, <2>2, <2>3, <2>4, <2>5 DEF Move
<1>3. CASE UNCHANGED mahjongVars
  <2>1. UNCHANGED <<rules, cells, hands, deck, discards, melds, ting, current, last, moves>>
    BY <1>3 DEF mahjongVars
  <2>2. MahjongInv'
    BY <2>1 DEF MahjongInv, MahjongTypeOK, DiscardOnTop, LastIsDiscard
  <2> QED
    BY <2>1, <2>2, StillKeeps
<1> QED
  BY <1>1, <1>2, <1>3 DEF MahjongNext

\* The tiles of a game, as MahjongInv types them: no hand ever grows into the part
\* of the array that is still to be drawn.
THEOREM MahjongTyped ==
  MahjongSpec => []MahjongTypeOK
<1>1. MahjongInit => MahjongInv
  BY MahjongStarts
<1>2. MahjongInv /\ [MahjongNext]_mahjongVars => MahjongInv'
  BY MahjongSteps
<1>3. MahjongInv => MahjongTypeOK
  BY DEF MahjongInv
<1> QED
  BY <1>1, <1>2, <1>3, PTL DEF MahjongSpec

\* What is still to be drawn stays as it was shuffled, a call changes the cells of
\* one hand only, and that player misses no tile: no kind is fewer or more in the
\* hand and all that lies open than what was there and what was drawn (a kong of a
\* discard by another name excepted).  Of the tiles in other hands it says nothing.
THEOREM MahjongTilesConserved ==
  MahjongSpec => TilesConserved
<1>1. MahjongInit => MahjongInv
  BY MahjongStarts
<1>2. MahjongInv /\ [MahjongNext]_mahjongVars => MahjongInv'
  BY MahjongSteps
<1>3. MahjongInv /\ [MahjongNext]_mahjongVars =>
        [/\ \A i \in deck' .. Len(cells) : cells'[i] = cells[i]
         /\ \A p \in Seats : moves' # moves /\ last'.player = p =>
              /\ \A i \in DOMAIN cells \ (Span(hands[p]) \cup Span(hands'[p])) : cells'[i] = cells[i]
              /\ (last'.type = "Kong" /\ LastIsDiscard => last'.tile = last.tile) =>
                   \A t \in Kinds :
                     Known(p, t)' = Known(p, t)
                       + Cardinality({i \in deck .. deck' - 1 : cells[i] = t})]_mahjongVars
  BY MahjongSteps DEF Conserved, Accounted, Named, DrawnOf
<1> QED
  BY <1>1, <1>2, <1>3, PTL DEF MahjongSpec, TilesConserved

-----------------------------------------------------------------------------
(* What is offered. *)

LEMMA RunsAre ==
  ASSUME NEW run \in Runs, NEW t \in run
  PROVE  t \in Kinds /\ t.suit < WindSuit
<1>1. PICK k \in Kinds : k.suit < WindSuit /\ RunFrom(k) \subseteq Kinds /\ run = RunFrom(k)
  BY DEF Runs
<1>2. PICK d \in 0 .. 2 : t = [suit |-> k.suit, value |-> k.value + d]
  BY <1>1 DEF RunFrom
<1> QED
  BY <1>1, <1>2

\* A player who is told that something is available may do it.
AllAvailable == \A p \in Seats : Available(p)

LEMMA AvailableHolds ==
  ASSUME MahjongInv
  PROVE  AllAvailable
<1>0. SUFFICES \A p \in Seats : Available(p)
  BY DEF AllAvailable
<1>1. SUFFICES ASSUME NEW p \in Seats PROVE Available(p)
  OBVIOUS
<1>2. PICK actions : actions = IF rules = "HT" THEN HTAvailableActions(p) ELSE THAvailableActions(p)
  OBVIOUS
<1>3. "Draw" \in actions => MayDraw(p)
  BY <1>2 DEF HTAvailableActions, THAvailableActions, MayDraw
<1>4. "Ting" \in actions => MayTing(p)
  BY <1>2 DEF HTAvailableActions, THAvailableActions, MayTing
<1>5. "Discard" \in actions => \E t \in Kinds : MayDiscard(p, t)
  <2>1. SUFFICES ASSUME "Discard" \in actions PROVE \E t \in Kinds : MayDiscard(p, t)
    OBVIOUS
  <2>2. current = p /\ hands[p].len > 0
    BY <1>2, <2>1 DEF HTAvailableActions, THAvailableActions
  <2>3. PICK o \in Nat, l \in Nat, n \in Nat :
          o = hands[p].off /\ l = hands[p].len /\ n = Len(cells) /\ o >= 1 /\ o + l <= n + 1
    <3>1. /\ hands[p].off \in Nat /\ hands[p].off >= 1 /\ hands[p].len \in Nat
          /\ hands[p].off + hands[p].len <= deck
          /\ deck \in Nat /\ Len(cells) \in Nat /\ deck <= Len(cells) + 1
      BY SliceFacts
    <3>2. hands[p].off + hands[p].len <= Len(cells) + 1
      BY <3>1
    <3> QED
      BY <3>1, <3>2
  <2>4. o \in Span(hands[p]) /\ o \in 1 .. n
    BY <2>2, <2>3 DEF Span
  <2>5. cells[o] \in Kinds
    BY <2>3, <2>4, InvFacts
  <2> QED
    BY <2>2, <2>4, <2>5 DEF MayDiscard, Holds
<1> QED
  BY <1>2, <1>3, <1>4, <1>5 DEF Available

\* What a task offers, of the tile of a discard or a kong that was just made.
LEMMA JudgedIsLegal ==
  ASSUME NEW p \in Seats, NEW type \in {"Discard", "Kong"}, NEW t \in Kinds,
         last' = [type |-> type, player |-> p, tile |-> t],
         NEW task, task \in JudgeTasks(p, type, t)'
  PROVE  Legal(task)'
<1>1. PICK q \in Seats : task.player = q /\ task.types = Offers(q, p, type, t)'
  BY DEF JudgeTasks
<1>2. last'.tile = t /\ last'.player = p /\ (LastIsDiscard' <=> type = "Discard")
  BY DEF LastIsDiscard
<1>3. "Pong" \in task.types => MayPong(q)'
  BY <1>1, <1>2 DEF Offers, HTOffers, THOffers, MayPong
<1>4. "Kong" \in task.types => \E u \in Kinds : MayKong(q, u)'
  BY <1>1, <1>2 DEF Offers, HTOffers, THOffers, MayKong
<1>5. "Chi" \in task.types => \E run \in Runs : MayChi(q, run)'
  <2>1. SUFFICES ASSUME "Chi" \in task.types PROVE \E run \in Runs : MayChi(q, run)'
    OBVIOUS
  <2>2. type = "Discard" /\ After(p) = q /\ CanChi(q, t)'
    BY <1>1, <2>1 DEF Offers, HTOffers, THOffers
  <2>3. PICK run \in Runs : t \in run /\ \A u \in run \ {t} : Holds(q, u)'
    BY <2>2 DEF CanChi
  <2>4. MayChi(q, run)'
    BY <1>2, <2>2, <2>3, RunsAre DEF MayChi
  <2> QED
    BY <2>4
<1>6. "Win" \in task.types => Wins(HandWith(q, last.tile))'
  <2>1. "Win" \in task.types => Wins(HandWith(q, t))'
    BY <1>1 DEF Offers, HTOffers, THOffers
  <2>2. HandWith(q, last.tile)' = HandWith(q, t)'
    BY <1>2 DEF HandWith
  <2> QED
    BY <2>1, <2>2
<1> QED
  BY <1>1, <1>3, <1>4, <1>5, <1>6 DEF Legal

\* After a discard or a kong, whoever may claim its tile is offered that.
LEMMA ClaimsAreOffered ==
  ASSUME NEW p \in Seats, NEW type \in {"Discard", "Kong"}, NEW t \in Kinds, NEW q \in Seats \ {p},
         last' = [type |-> type, player |-> p, tile |-> t],
         JudgeTasks(p, type, t)' # {} => tasks' = JudgeTasks(p, type, t)'
  PROVE  AllOffered(q)'
<1>1. last'.tile = t /\ last'.player = p /\ (LastIsDiscard' <=> type = "Discard")
  BY DEF LastIsDiscard
<1>2. ASSUME NEW a, a \in Offers(q, p, type, t)'
      PROVE  Offered(q, a)'
  <2>1. PICK task : task = [player |-> q, types |-> Offers(q, p, type, t)', tile |-> t,
                            priority |-> Priority(Offers(q, p, type, t))']
    OBVIOUS
  <2>2. Offers(q, p, type, t)' # {}
    BY <1>2
  <2>3. task \in JudgeTasks(p, type, t)'
    BY <2>1, <2>2 DEF JudgeTasks
  <2>4. task.player = q /\ a \in task.types
    BY <1>2, <2>1
  <2>5. tasks' = JudgeTasks(p, type, t)'
    BY <2>3
  <2> QED
    BY <2>3, <2>4, <2>5 DEF Offered
<1>3. MayPong(q)' => "Pong" \in Offers(q, p, type, t)'
  BY <1>1 DEF MayPong, Offers, HTOffers, THOffers
<1>4. LastIsDiscard' /\ (\E u \in Kinds : MayKong(q, u)') => "Kong" \in Offers(q, p, type, t)'
  BY <1>1 DEF MayKong, Offers, HTOffers, THOffers
<1>5. rules' = "TH" /\ (\E run \in Runs : MayChi(q, run)') => "Chi" \in Offers(q, p, type, t)'
  <2>1. SUFFICES ASSUME NEW run \in Runs, rules' = "TH", MayChi(q, run)'
                 PROVE  "Chi" \in Offers(q, p, type, t)'
    OBVIOUS
  <2>2. CanChi(q, t)' /\ After(p) = q /\ type = "Discard"
    BY <1>1, <2>1 DEF MayChi, CanChi
  <2> QED
    BY <2>1, <2>2 DEF Offers, THOffers
<1>6. Wins(HandWith(q, last.tile))' => "Win" \in Offers(q, p, type, t)'
  <2>1. HandWith(q, last.tile)' = HandWith(q, t)'
    BY <1>1 DEF HandWith
  <2>2. Wins(HandWith(q, t))' => "Win" \in Offers(q, p, type, t)'
    BY DEF Offers, HTOffers, THOffers
  <2> QED
    BY <2>1, <2>2
<1> QED
  BY <1>2, <1>3, <1>4, <1>5, <1>6 DEF AllOffered

\* After any other call there is nothing to claim.
LEMMA NothingToClaim ==
  ASSUME last'.type \notin {"Discard", "Kong"}, NEW q
  PROVE  AllOffered(q)'
BY DEF AllOffered, MayPong, MayChi, LastIsDiscard

\* What OffersMatch says of one step.
Matched ==
  /\ \A p \in Seats : Available(p)'
  /\ tasks' # tasks => \A task \in tasks' : Legal(task)'
  /\ moves' # moves => \A q \in Seats \ {last'.player} : AllOffered(q)'

\* A call that judges the tile t.
Judged(p, type, t) ==
  /\ last' = [type |-> type, player |-> p, tile |-> t]
  /\ tasks' = IF JudgeTasks(p, type, t)' # {} THEN JudgeTasks(p, type, t)' ELSE tasks

LEMMA StepsMatch ==
  ASSUME AllAvailable', MahjongNext
  PROVE  Matched
<1>1. \A p \in Seats : Available(p)'
  BY DEF AllAvailable
<1>2. ASSUME NEW p \in Seats, NEW t \in Kinds, NEW type \in {"Discard", "Kong"}, Judged(p, type, t)
      PROVE  Matched
  <2>1. last' = [type |-> type, player |-> p, tile |-> t] /\ last'.player = p
    BY <1>2 DEF Judged
  <2>2. tasks' = tasks \/ tasks' = JudgeTasks(p, type, t)'
    BY <1>2 DEF Judged
  <2>3. tasks' # tasks => \A task \in tasks' : Legal(task)'
    BY <2>1, <2>2, JudgedIsLegal
  <2>4. JudgeTasks(p, type, t)' # {} => tasks' = JudgeTasks(p, type, t)'
    BY <1>2 DEF Judged
  <2>5. \A q \in Seats \ {p} : AllOffered(q)'
    BY <2>1, <2>4, ClaimsAreOffered
  <2> QED
    BY <1>1, <2>1, <2>3, <2>5 DEF Matched
<1>3. ASSUME NEW p \in Seats, NEW t \in Kinds, Discard(p, t) \/ Kong(p, t)
      PROVE  Matched
  <2>1. Judged(p, "Discard", t) \/ Judged(p, "Kong", t)
    BY <1>3 DEF Discard, Kong, Remember, Judged
  <2> QED
    BY <1>2, <2>1
<1>4. ASSUME NEW p \in Seats, Draw(p) \/ Pong(p) \/ Ting(p) \/ Pass(p) \/ \E run \in Runs : Chi(p, run)
      PROVE  Matched
  <2>1. tasks' = tasks
    BY <1>4 DEF Draw, Pong, Ting, Pass, Chi, NoTasks
  <2>2. last'.type \notin {"Discard", "Kong"}
    <3>1. last'.type \in {"Draw", "Pong", "Ting", "Pass", "Chi"}
      <4>1. CASE Draw(p) \/ Pong(p) \/ Ting(p) \/ Pass(p)
        BY <4>1 DEF Draw, Pong, Ting, Pass, Remember
      <4>2. CASE \E run \in Runs : Chi(p, run)
        BY <4>2 DEF Chi, Remember
      <4> QED
        BY <1>4, <4>1, <4>2
    <3> QED
      BY <3>1
  <2> QED
    BY <1>1, <2>1, <2>2, NothingToClaim DEF Matched
<1>5. CASE TaskTimeout
  BY <1>1, <1>5 DEF TaskTimeout, Matched
<1> QED
  BY <1>3, <1>4, <1>5 DEF MahjongNext, Move

\* In every game and whatever the players hold, what is available is admitted, what
\* a judging step newly offers is admitted, and the other players are offered all
\* claims that are admitted then.  Tasks left over from earlier steps are not
\* looked at.
THEOREM MahjongOffersMatch ==
  MahjongSpec => OffersMatch
<1>1. MahjongInit => MahjongInv
  BY MahjongStarts
<1>2. MahjongInv /\ [MahjongNext]_mahjongVars => MahjongInv'
  BY MahjongSteps
<1>3. MahjongInv => AllAvailable
  BY AvailableHolds
<1>4. AllAvailable' /\ [MahjongNext]_mahjongVars =>
        [/\ \A p \in Seats : Available(p)'
         /\ tasks' # tasks => \A task \in tasks' : Legal(task)'
         /\ moves' # moves => \A q \in Seats \ {last'.player} : AllOffered(q)']_mahjongVars
  BY StepsMatch DEF Matched
<1> QED
  BY <1>1, <1>2, <1>3, <1>4, PTL DEF MahjongSpec, OffersMatch

-----------------------------------------------------------------------------
(* Hands as tallies. *)

Rank(k) == 10 * k.suit + k.value

LEMMA KindsAre ==
  /\ \A k \in TileKinds : /\ k.suit \in 0 .. 3 /\ k.value \in 1 .. 9 /\ Rank(k) \in 0 .. 40
                          /\ k = [suit |-> k.suit, value |-> k.value]
  /\ \A a, b \in TileKinds : /\ KindBefore(a, b) <=> Rank(a) < Rank(b)
                             /\ Rank(a) = Rank(b) => a = b
  /\ IsFiniteSet(TileKinds)
<1>1. \A k \in TileKinds : /\ k.suit \in 0 .. 3 /\ k.value \in 1 .. 9
                           /\ k = [suit |-> k.suit, value |-> k.value]
  BY TileKindsAssumption
<1>2. \A k \in TileKinds : Rank(k) \in 0 .. 40
  BY <1>1 DEF Rank
<1>3. \A a, b \in TileKinds : KindBefore(a, b) <=> Rank(a) < Rank(b)
  BY <1>1 DEF Rank, KindBefore
<1>4. \A a, b \in TileKinds : Rank(a) = Rank(b) => a = b
  <2>1. SUFFICES ASSUME NEW a \in TileKinds, NEW b \in TileKinds, Rank(a) = Rank(b) PROVE a = b
    OBVIOUS
  <2>2. a.suit = b.suit /\ a.value = b.value
    BY <1>1, <2>1 DEF Rank
  <2> QED
    BY <1>1, <2>2
<1>5. IsFiniteSet(TileKinds)
  <2>1. PICK f : f = [k \in TileKinds |-> Rank(k)]
    OBVIOUS
  <2>2. f \in Injection(TileKinds, 0 .. 40)
    BY <1>2, <1>4, <2>1 DEF Injection, IsInjective
  <2>3. IsFiniteSet(0 .. 40)
    <3>1. 0 \in Int /\ 40 \in Int
      OBVIOUS
    <3> QED
      BY <3>1, FS_Interval
  <2> QED
    BY <2>2, <2>3, FS_Injection
<1> QED
  BY <1>1, <1>2, <1>3, <1>4, <1>5

LEMMA FirstIs ==
  ASSUME NEW h \in Tallies, Held(h) # {}
  PROVE  /\ First(h) \in Held(h) /\ First(h) \in TileKinds
         /\ \A k \in Held(h) \ {First(h)} : KindBefore(First(h), k)
<1>1. Held(h) \subseteq TileKinds
  BY DEF Held
<1>2. PICK S : S = {Rank(k) : k \in Held(h)}
  OBVIOUS
<1>3. S \in SUBSET Nat /\ S # {}
  BY <1>1, <1>2, KindsAre
<1>4. PICK m \in S : \A n \in S : m <= n
  BY <1>3, LeastNumber
<1>5. PICK f \in Held(h) : m = Rank(f)
  BY <1>2
<1>6. \A k \in Held(h) \ {f} : KindBefore(f, k)
  <2>1. SUFFICES ASSUME NEW k \in Held(h), k # f PROVE KindBefore(f, k)
    OBVIOUS
  <2>2. Rank(f) <= Rank(k) /\ Rank(f) # Rank(k) /\ Rank(f) \in 0 .. 40 /\ Rank(k) \in 0 .. 40
    BY <1>1, <1>2, <1>4, <1>5, <2>1, KindsAre
  <2>3. Rank(f) < Rank(k)
    BY <2>2
  <2> QED
    BY <1>1, <2>3, KindsAre
<1> QED
  BY <1>1, <1>6 DEF First

LEMMA SizeIs ==
  ASSUME NEW h \in Tallies
  PROVE  /\ Size(h) \in Nat
         /\ Size(h) = 0 <=> Held(h) = {}
         /\ \A k \in TileKinds : Size([h EXCEPT ![k] = h[k] + 1]) = Size(h) + 1
<1>1. IsFiniteSet(TileKinds) /\ h \in [TileKinds -> Nat]
  BY KindsAre DEF Tallies
<1>2. Size(h) = Cardinality(Pile(TileKinds, h))
  BY DEF Size, Pile
<1>3. \A k \in TileKinds : Size([h EXCEPT ![k] = h[k] + 1]) = Cardinality(Pile(TileKinds, [h EXCEPT ![k] = h[k] + 1]))
  BY DEF Size, Pile
<1>4. Pile(TileKinds, h) = {} <=> Held(h) = {}
  <2>1. ASSUME NEW k \in Held(h) PROVE Pile(TileKinds, h) # {}
    <3>1. k \in TileKinds /\ 1 \in 1 .. h[k]
      BY <1>1 DEF Held
    <3>2. <<k, 1>> \in {k} \X (1 .. h[k])
      BY <3>1
    <3> QED
      BY <3>1, <3>2 DEF Pile
  <2>2. ASSUME NEW x \in Pile(TileKinds, h) PROVE Held(h) # {}
    <3>1. PICK k \in TileKinds : x \in {k} \X (1 .. h[k])
      BY DEF Pile
    <3>2. h[k] > 0
      BY <1>1, <3>1
    <3> QED
      BY <3>2 DEF Held
  <2> QED
    BY <2>1, <2>2
<1>5. IsFiniteSet(Pile(TileKinds, h)) /\ Cardinality(Pile(TileKinds, h)) \in Nat
  BY <1>1, PileFinite
<1>6. Cardinality(Pile(TileKinds, h)) = 0 <=> Pile(TileKinds, h) = {}
  BY <1>5, FS_EmptySet
<1>7. \A k \in TileKinds :
        Cardinality(Pile(TileKinds, [h EXCEPT ![k] = h[k] + 1])) = Cardinality(Pile(TileKinds, h)) + 1
  BY <1>1, PileGrows
<1> QED
  BY <1>2, <1>3, <1>4, <1>5, <1>6, <1>7

\* One tile less of a kind that is there.
LEMMA TakeOne ==
  ASSUME NEW h \in Tallies, NEW k \in TileKinds, NEW g \in Tallies,
         h[k] >= 1, g = [h EXCEPT ![k] = h[k] - 1]
  PROVE  Size(h) = Size(g) + 1
<1>1. h \in [TileKinds -> Nat] /\ g \in [TileKinds -> Nat]
  BY DEF Tallies
<1>2. g[k] = h[k] - 1 /\ h[k] \in Nat /\ g[k] \in Nat
  BY <1>1
<1>3. h[k] = g[k] + 1
  BY <1>2
<1>4. h = [g EXCEPT ![k] = g[k] + 1]
  <2>1. PICK v \in Nat : v = h[k]
    BY <1>2
  <2>2. h = [g EXCEPT ![k] = v]
    BY <1>1, <2>1
  <2> QED
    BY <1>3, <2>1, <2>2
<1> QED
  BY <1>4, SizeIs

LEMMA TakeIs ==
  ASSUME NEW h \in Tallies, NEW k \in TileKinds, NEW n \in {2, 3}, h[k] >= n
  PROVE  /\ Take(h, k, n) \in Tallies /\ Size(h) = Size(Take(h, k, n)) + n
         /\ \A x \in TileKinds : Take(h, k, n)[x] = h[x] - (IF x = k THEN n ELSE 0)
<1>1. h \in [TileKinds -> Nat]
  BY DEF Tallies
<1>2. PICK c \in Nat : c = h[k] /\ c >= n
  BY <1>1
<1>3. c - 1 \in Nat /\ c - 2 \in Nat /\ c - n \in Nat /\ c >= 1 /\ c - 1 >= 1
  BY <1>2
<1>4. PICK a : a = [h EXCEPT ![k] = c - 1]
  OBVIOUS
<1>5. PICK b : b = [a EXCEPT ![k] = c - 2]
  OBVIOUS
<1>6. a \in [TileKinds -> Nat] /\ a[k] = c - 1 /\ b \in [TileKinds -> Nat] /\ b[k] = c - 2
  BY <1>1, <1>3, <1>4, <1>5
<1>7. a \in Tallies /\ b \in Tallies
  BY <1>6 DEF Tallies
<1>8. Size(h) = Size(a) + 1
  BY <1>2, <1>3, <1>4, <1>7, TakeOne
<1>9. Size(a) = Size(b) + 1
  <2>1. b = [a EXCEPT ![k] = a[k] - 1]
    <3>1. a[k] - 1 = c - 2
      BY <1>2, <1>6
    <3> QED
      BY <1>5, <3>1
  <2> QED
    BY <1>3, <1>6, <1>7, <2>1, TakeOne
<1>10. Take(h, k, n) = [h EXCEPT ![k] = c - n]
  BY <1>2 DEF Take
<1>11. Take(h, k, n) \in Tallies /\ \A x \in TileKinds : Take(h, k, n)[x] = h[x] - (IF x = k THEN n ELSE 0)
  BY <1>1, <1>2, <1>3, <1>10 DEF Tallies
<1>12. Size(h) \in Nat /\ Size(a) \in Nat /\ Size(b) \in Nat /\ Size(Take(h, k, n)) \in Nat
  BY <1>7, <1>11, SizeIs
<1>13. CASE n = 2
  <2>1. Take(h, k, n) = b
    BY <1>1, <1>4, <1>5, <1>10, <1>13
  <2> QED
    BY <1>8, <1>9, <1>11, <1>12, <1>13, <2>1
<1>14. CASE n = 3
  <2>1. PICK d : d = [b EXCEPT ![k] = c - 3]
    OBVIOUS
  <2>2. c - 3 \in Nat /\ c - 2 >= 1 /\ b[k] - 1 = c - 3
    BY <1>2, <1>6, <1>14
  <2>3. d \in Tallies
    BY <1>6, <2>1, <2>2 DEF Tallies
  <2>4. d = [b EXCEPT ![k] = b[k] - 1]
    BY <2>1, <2>2
  <2>5. Size(b) = Size(d) + 1
    BY <1>6, <1>7, <2>2, <2>3, <2>4, TakeOne
  <2>6. Take(h, k, n) = d
    BY <1>1, <1>4, <1>5, <1>10, <1>14, <2>1
  <2> QED
    BY <1>8, <1>9, <1>11, <1>12, <1>14, <2>5, <2>6
<1> QED
  BY <1>13, <1>14

Next1(k) == [suit |-> k.suit, value |-> k.value + 1]
Next2(k) == [suit |-> k.suit, value |-> k.value + 2]

\* A run of kinds in play, which is there.
RunIn(h, k) == /\ k \in TileKinds /\ Next1(k) \in TileKinds /\ Next2(k) \in TileKinds
               /\ h[k] >= 1 /\ h[Next1(k)] >= 1 /\ h[Next2(k)] >= 1

InRun(x, k) == x.suit = k.suit /\ x.value \in k.value .. k.value + 2

LEMMA TakeRunIs ==
  ASSUME NEW h \in Tallies, NEW k, RunIn(h, k)
  PROVE  /\ TakeRun(h, k) \in Tallies /\ Size(h) = Size(TakeRun(h, k)) + 3
         /\ \A x \in TileKinds : TakeRun(h, k)[x] = h[x] - (IF InRun(x, k) THEN 1 ELSE 0)
<1>1. h \in [TileKinds -> Nat]
  BY DEF Tallies
<1>2. PICK l, m \in TileKinds : l = Next1(k) /\ m = Next2(k)
  BY DEF RunIn
<1>3. k \in TileKinds /\ h[k] >= 1 /\ h[l] >= 1 /\ h[m] >= 1
  BY <1>2 DEF RunIn
<1>4. k # l /\ k # m /\ l # m
  BY <1>2, <1>3, KindsAre DEF Next1, Next2
<1>5. \A x \in TileKinds : InRun(x, k) <=> x \in {k, l, m}
  <2>1. SUFFICES ASSUME NEW x \in TileKinds PROVE InRun(x, k) <=> x \in {k, l, m}
    OBVIOUS
  <2>2. /\ x = [suit |-> x.suit, value |-> x.value] /\ x.value \in Nat
        /\ k = [suit |-> k.suit, value |-> k.value] /\ k.value \in Nat
    BY <1>3, KindsAre
  <2>3. InRun(x, k) <=> x.suit = k.suit /\ x.value \in {k.value, k.value + 1, k.value + 2}
    BY <2>2 DEF InRun
  <2> QED
    BY <1>2, <2>2, <2>3 DEF Next1, Next2
<1>6. PICK a : a = [h EXCEPT ![k] = h[k] - 1]
  OBVIOUS
<1>7. a \in Tallies /\ a[l] = h[l] /\ a[m] = h[m]
  BY <1>1, <1>3, <1>4, <1>6 DEF Tallies
<1>8. PICK b : b = [a EXCEPT ![l] = a[l] - 1]
  OBVIOUS
<1>9. b \in Tallies /\ b[m] = h[m]
  BY <1>3, <1>4, <1>7, <1>8 DEF Tallies
<1>10. PICK d : d = [b EXCEPT ![m] = b[m] - 1]
  OBVIOUS
<1>11. d \in Tallies
  BY <1>3, <1>9, <1>10 DEF Tallies
<1>12. Size(h) = Size(a) + 1 /\ Size(a) = Size(b) + 1 /\ Size(b) = Size(d) + 1
  <2>1. Size(h) = Size(a) + 1
    BY <1>3, <1>6, <1>7, TakeOne
  <2>2. Size(a) = Size(b) + 1
    BY <1>3, <1>7, <1>8, <1>9, TakeOne
  <2>3. Size(b) = Size(d) + 1
    BY <1>3, <1>9, <1>10, <1>11, TakeOne
  <2> QED
    BY <2>1, <2>2, <2>3
<1>13. Size(h) = Size(d) + 3
  <2>1. Size(h) \in Nat /\ Size(a) \in Nat /\ Size(b) \in Nat /\ Size(d) \in Nat
    BY <1>7, <1>9, <1>11, SizeIs
  <2> QED
    BY <1>12, <2>1
<1>14. \A x \in TileKinds : d[x] = h[x] - (IF x \in {k, l, m} THEN 1 ELSE 0)
  <2>1. SUFFICES ASSUME NEW x \in TileKinds
                 PROVE  d[x] = h[x] - (IF x \in {k, l, m} THEN 1 ELSE 0)
    OBVIOUS
  <2>2. h[x] \in Nat
    BY <1>1
  <2>3. a[x] = IF x = k THEN h[x] - 1 ELSE h[x]
    BY <1>1, <1>6
  <2>4. b[x] = IF x = l THEN a[x] - 1 ELSE a[x]
    BY <1>7, <1>8 DEF Tallies
  <2>5. d[x] = IF x = m THEN b[x] - 1 ELSE b[x]
    BY <1>9, <1>10 DEF Tallies
  <2> QED
    BY <1>4, <2>2, <2>3, <2>4, <2>5
<1>15. TakeRun(h, k) = [x \in TileKinds |-> IF InRun(x, k) THEN h[x] - 1 ELSE h[x]]
  BY DEF TakeRun, InRun
<1>16. d = [x \in TileKinds |-> d[x]]
  BY <1>11 DEF Tallies
<1>17. TakeRun(h, k) = d
  <2>1. \A x \in TileKinds : d[x] = IF InRun(x, k) THEN h[x] - 1 ELSE h[x]
    BY <1>1, <1>5, <1>14
  <2> QED
    BY <1>15, <1>16, <2>1
<1> QED
  BY <1>5, <1>11, <1>13, <1>14, <1>17

-----------------------------------------------------------------------------
(* What the search for melds finds. *)

\* Runs that are chosen so that only triplets are left.
Splits(h, chosen) ==
  /\ chosen \in [ChowRuns -> Nat]
  /\ \A k \in TileKinds : h[k] - InRuns(chosen, k) \in Nat /\ (h[k] - InRuns(chosen, k)) % 3 = 0

LEMMA ChowRunsAre ==
  /\ ChowRuns \subseteq TileKinds
  /\ \A r \in TileKinds : r \in ChowRuns <=> r.suit < Wind /\ Next1(r) \in TileKinds /\ Next2(r) \in TileKinds
  /\ \A r \in ChowRuns : r = [suit |-> r.suit, value |-> r.value]
BY KindsAre DEF ChowRuns, Next1, Next2

LEMMA ChosenIs ==
  ASSUME NEW c \in [ChowRuns -> Nat], NEW s, NEW v
  PROVE  ChosenAt(c, s, v) \in Nat
BY DEF ChosenAt

LEMMA InRunsIs ==
  ASSUME NEW c \in [ChowRuns -> Nat], NEW k \in TileKinds
  PROVE  /\ InRuns(c, k) \in Nat
         /\ InRuns(c, k) >= ChosenAt(c, k.suit, k.value)
         /\ InRuns(c, k) >= ChosenAt(c, k.suit, k.value - 1)
         /\ InRuns(c, k) >= ChosenAt(c, k.suit, k.value - 2)
<1>1. PICK x \in Nat, y \in Nat, z \in Nat : /\ x = ChosenAt(c, k.suit, k.value)
                                             /\ y = ChosenAt(c, k.suit, k.value - 1)
                                             /\ z = ChosenAt(c, k.suit, k.value - 2)
  BY ChosenIs
<1>2. InRuns(c, k) = x + y + z
  BY <1>1 DEF InRuns
<1> QED
  BY <1>1, <1>2

\* One more run is one tile more of each of its kinds.
LEMMA RunAdded ==
  ASSUME NEW c \in [ChowRuns -> Nat], NEW f \in ChowRuns, NEW d,
         d = [c EXCEPT ![f] = c[f] + 1], NEW k \in TileKinds
  PROVE  InRuns(d, k) = InRuns(c, k) + (IF InRun(k, f) THEN 1 ELSE 0)
<1>1. d \in [ChowRuns -> Nat]
  OBVIOUS
<1>2. f = [suit |-> f.suit, value |-> f.value] /\ f \in TileKinds
  BY ChowRunsAre
<1>3. f.value \in Nat /\ k.value \in Nat
  BY <1>2, KindsAre
<1>4. ASSUME NEW v \in Int
      PROVE  ChosenAt(d, k.suit, v) = ChosenAt(c, k.suit, v)
                                        + (IF k.suit = f.suit /\ v = f.value THEN 1 ELSE 0)
  <2>1. PICK r : r = [suit |-> k.suit, value |-> v]
    OBVIOUS
  <2>2. ChosenAt(d, k.suit, v) = (IF r \in ChowRuns THEN d[r] ELSE 0)
    BY <2>1 DEF ChosenAt
  <2>3. ChosenAt(c, k.suit, v) = (IF r \in ChowRuns THEN c[r] ELSE 0)
    BY <2>1 DEF ChosenAt
  <2>4. r = f <=> k.suit = f.suit /\ v = f.value
    BY <1>2, <2>1
  <2>5. r \in ChowRuns => c[r] \in Nat /\ d[r] = c[r] + (IF r = f THEN 1 ELSE 0)
    OBVIOUS
  <2>6. r = f => r \in ChowRuns
    OBVIOUS
  <2> QED
    BY <2>2, <2>3, <2>4, <2>5, <2>6
<1>5. PICK x \in Nat, y \in Nat, z \in Nat : /\ x = ChosenAt(c, k.suit, k.value)
                                             /\ y = ChosenAt(c, k.suit, k.value - 1)
                                             /\ z = ChosenAt(c, k.suit, k.value - 2)
  BY ChosenIs
<1>6. InRuns(c, k) = x + y + z
  BY <1>5 DEF InRuns
<1>7. /\ ChosenAt(d, k.suit, k.value) = x + (IF k.suit = f.suit /\ k.value = f.value THEN 1 ELSE 0)
      /\ ChosenAt(d, k.suit, k.value - 1) = y + (IF k.suit = f.suit /\ k.value - 1 = f.value THEN 1 ELSE 0)
      /\ ChosenAt(d, k.suit, k.value - 2) = z + (IF k.suit = f.suit /\ k.value - 2 = f.value THEN 1 ELSE 0)
  <2>1. k.value \in Int /\ k.value - 1 \in Int /\ k.value - 2 \in Int
    BY <1>3
  <2>2. ChosenAt(d, k.suit, k.value) = x + (IF k.suit = f.suit /\ k.value = f.value THEN 1 ELSE 0)
    BY <1>4, <1>5, <2>1
  <2>3. ChosenAt(d, k.suit, k.value - 1) = y + (IF k.suit = f.suit /\ k.value - 1 = f.value THEN 1 ELSE 0)
    BY <1>4, <1>5, <2>1
  <2>4. ChosenAt(d, k.suit, k.value - 2) = z + (IF k.suit = f.suit /\ k.value - 2 = f.value THEN 1 ELSE 0)
    BY <1>4, <1>5, <2>1
  <2> QED
    BY <2>2, <2>3, <2>4
<1>8. InRuns(d, k) = (x + (IF k.suit = f.suit /\ k.value = f.value THEN 1 ELSE 0))
                     + (y + (IF k.suit = f.suit /\ k.value - 1 = f.value THEN 1 ELSE 0))
                     + (z + (IF k.suit = f.suit /\ k.value - 2 = f.value THEN 1 ELSE 0))
  BY <1>7 DEF InRuns
<1>9. InRun(k, f) <=> k.suit = f.suit /\ (k.value = f.value \/ k.value - 1 = f.value \/ k.value - 2 = f.value)
  BY <1>3 DEF InRun
<1> QED
  BY <1>3, <1>6, <1>8, <1>9

\* What is left when a triplet or a run is put back.
LEMMA TripletBack ==
  ASSUME NEW h \in Tallies, NEW f \in TileKinds, h[f] >= 3, NEW c, Splits(Take(h, f, 3), c)
  PROVE  Splits(h, c)
<1>1. c \in [ChowRuns -> Nat]
  BY DEF Splits
<1>2. ASSUME NEW k \in TileKinds
      PROVE  h[k] - InRuns(c, k) \in Nat /\ (h[k] - InRuns(c, k)) % 3 = 0
  <2>1. PICK x \in Nat, y \in Nat : x = h[k] /\ y = InRuns(c, k)
    BY <1>1, InRunsIs DEF Tallies
  <2>2. PICK z : z = Take(h, f, 3)[k]
    OBVIOUS
  <2>3. z - y \in Nat /\ (z - y) % 3 = 0
    BY <2>1, <2>2 DEF Splits
  <2>4. z = x - (IF k = f THEN 3 ELSE 0)
    BY <2>1, <2>2, TakeIs
  <2>5. x - y \in Nat /\ (x - y) % 3 = 0
    BY <2>1, <2>3, <2>4
  <2> QED
    BY <2>1, <2>5
<1> QED
  BY <1>1, <1>2 DEF Splits

LEMMA RunBack ==
  ASSUME NEW h \in Tallies, NEW f \in ChowRuns, RunIn(h, f), NEW c, Splits(TakeRun(h, f), c)
  PROVE  \E d : Splits(h, d)
<1>1. c \in [ChowRuns -> Nat]
  BY DEF Splits
<1>2. PICK d : d = [c EXCEPT ![f] = c[f] + 1]
  OBVIOUS
<1>3. d \in [ChowRuns -> Nat]
  BY <1>1, <1>2
<1>4. ASSUME NEW k \in TileKinds
      PROVE  h[k] - InRuns(d, k) \in Nat /\ (h[k] - InRuns(d, k)) % 3 = 0
  <2>1. PICK x \in Nat, y \in Nat, z \in Nat : x = h[k] /\ y = InRuns(c, k) /\ z = InRuns(d, k)
    BY <1>1, <1>3, InRunsIs DEF Tallies
  <2>2. PICK w : w = TakeRun(h, f)[k]
    OBVIOUS
  <2>3. w - y \in Nat /\ (w - y) % 3 = 0
    BY <2>1, <2>2 DEF Splits
  <2>4. w = x - (IF InRun(k, f) THEN 1 ELSE 0)
    BY <2>1, <2>2, TakeRunIs
  <2>5. z = y + (IF InRun(k, f) THEN 1 ELSE 0)
    <3>1. InRuns(d, k) = InRuns(c, k) + (IF InRun(k, f) THEN 1 ELSE 0)
      BY <1>1, <1>2, RunAdded, ZenonT(30)
    <3> QED
      BY <2>1, <3>1
  <2>6. x - z = w - y
    BY <2>1, <2>4, <2>5
  <2> QED
    BY <2>1, <2>3, <2>6
<1>5. Splits(h, d)
  BY <1>3, <1>4 DEF Splits
<1> QED
  BY <1>5

\* A kind before the first one of a hand is in no chosen run, nor does a run that
\* is chosen start there.
LEMMA NothingBefore ==
  ASSUME NEW h \in Tallies, NEW c, Splits(h, c), Held(h) # {}, NEW r \in ChowRuns,
         KindBefore(r, First(h))
  PROVE  c[r] = 0
<1>1. r \in TileKinds /\ r = [suit |-> r.suit, value |-> r.value] /\ c \in [ChowRuns -> Nat]
  BY ChowRunsAre DEF Splits
<1>2. PICK x \in Nat, y \in Nat, n \in Nat : x = h[r] /\ y = InRuns(c, r) /\ n = c[r]
  BY <1>1, InRunsIs DEF Tallies
<1>3. y >= n
  <2>1. ChosenAt(c, r.suit, r.value) = n
    BY <1>1, <1>2 DEF ChosenAt
  <2> QED
    BY <1>1, <1>2, <2>1, InRunsIs
<1>4. x - y \in Nat
  BY <1>1, <1>2 DEF Splits
<1>5. x >= n
  BY <1>2, <1>3, <1>4
<1>6. r \notin Held(h)
  <2>1. SUFFICES ASSUME r \in Held(h) PROVE FALSE
    OBVIOUS
  <2>2. First(h) \in TileKinds /\ (r # First(h) => KindBefore(First(h), r))
    BY <2>1, FirstIs
  <2>3. PICK a \in Nat, b \in Nat : a = Rank(r) /\ b = Rank(First(h))
    BY <1>1, <2>2, KindsAre
  <2>4. a < b /\ (r # First(h) => b < a)
    BY <1>1, <2>2, <2>3, KindsAre
  <2>5. r = First(h)
    BY <2>3, <2>4
  <2> QED
    BY <2>3, <2>4, <2>5
<1>7. ~(x >= 1)
  BY <1>1, <1>2, <1>6 DEF Held
<1> QED
  BY <1>2, <1>5, <1>7

\* The first kind of a hand that splits has a triplet that may be taken, or starts
\* a chosen run.
LEMMA FirstSplits ==
  ASSUME NEW h \in Tallies, NEW c, Splits(h, c), Held(h) # {}
  PROVE  \/ h[First(h)] >= 3 /\ Splits(Take(h, First(h), 3), c)
         \/ First(h) \in ChowRuns /\ c[First(h)] >= 1
<1>1. PICK f \in TileKinds : f = First(h) /\ f \in Held(h)
  BY FirstIs
<1>2. c \in [ChowRuns -> Nat] /\ f.value \in Nat /\ f = [suit |-> f.suit, value |-> f.value]
  BY KindsAre DEF Splits
<1>3. PICK x \in Nat, y \in Nat : x = h[f] /\ y = InRuns(c, f) /\ x >= 1
  BY <1>1, <1>2, InRunsIs DEF Tallies, Held
<1>4. x - y \in Nat /\ (x - y) % 3 = 0
  BY <1>3 DEF Splits
<1>5. CASE x = y
  <2>1. ASSUME NEW v \in Int, v < f.value
        PROVE  ChosenAt(c, f.suit, v) = 0
    <3>1. PICK r : r = [suit |-> f.suit, value |-> v]
      OBVIOUS
    <3>2. CASE r \in ChowRuns
      <4>1. KindBefore(r, f)
        BY <1>2, <2>1, <3>1 DEF KindBefore
      <4>2. c[r] = 0
        BY <1>1, <3>2, <4>1, NothingBefore
      <4> QED
        BY <3>1, <3>2, <4>2 DEF ChosenAt
    <3>3. CASE r \notin ChowRuns
      BY <3>1, <3>3 DEF ChosenAt
    <3> QED
      BY <3>2, <3>3
  <2>2. ChosenAt(c, f.suit, f.value - 1) = 0
    <3>1. f.value - 1 \in Int /\ f.value - 1 < f.value
      BY <1>2
    <3> QED
      BY <2>1, <3>1
  <2>3. ChosenAt(c, f.suit, f.value - 2) = 0
    <3>1. f.value - 2 \in Int /\ f.value - 2 < f.value
      BY <1>2
    <3> QED
      BY <2>1, <3>1
  <2>4. PICK z \in Nat : z = ChosenAt(c, f.suit, f.value)
    BY <1>2, ChosenIs
  <2>5. z >= 1
    BY <1>3, <1>5, <2>2, <2>3, <2>4 DEF InRuns
  <2>6. f \in ChowRuns /\ c[f] = z
    BY <1>2, <2>4, <2>5 DEF ChosenAt
  <2> QED
    BY <1>1, <2>5, <2>6
<1>6. CASE x # y
  <2>1. x - y >= 3 /\ x >= 3
    BY <1>3, <1>4, <1>6
  <2>2. ASSUME NEW k \in TileKinds
        PROVE  /\ Take(h, f, 3)[k] - InRuns(c, k) \in Nat
               /\ (Take(h, f, 3)[k] - InRuns(c, k)) % 3 = 0
    <3>1. PICK w \in Nat, z \in Nat : w = h[k] /\ z = InRuns(c, k)
      BY <1>2, InRunsIs DEF Tallies
    <3>2. w - z \in Nat /\ (w - z) % 3 = 0
      BY <3>1 DEF Splits
    <3>3. Take(h, f, 3)[k] = w - (IF k = f THEN 3 ELSE 0)
      BY <1>3, <2>1, <3>1, TakeIs
    <3>4. k = f => w - z >= 3
      BY <1>3, <2>1, <3>1
    <3>5. PICK e \in Nat : e = w - z /\ e % 3 = 0 /\ (k = f => e >= 3)
      BY <3>2, <3>4
    <3>6. Take(h, f, 3)[k] - z = e - (IF k = f THEN 3 ELSE 0)
      <4>1. w = e + z
        BY <3>1, <3>5
      <4>2. CASE k = f
        BY <3>1, <3>3, <4>1, <4>2
      <4>3. CASE k # f
        BY <3>1, <3>3, <4>1, <4>3
      <4> QED
        BY <4>2, <4>3
    <3>7. e - (IF k = f THEN 3 ELSE 0) \in Nat /\ (e - (IF k = f THEN 3 ELSE 0)) % 3 = 0
      BY <3>5
    <3> QED
      BY <3>1, <3>6, <3>7
  <2>3. Splits(Take(h, f, 3), c)
    BY <1>2, <2>2 DEF Splits
  <2> QED
    BY <1>1, <1>3, <2>1, <2>3
<1> QED
  BY <1>5, <1>6

\* A chosen run of a hand is there, and what is left without it splits.
LEMMA RunTaken ==
  ASSUME NEW h \in Tallies, NEW c, Splits(h, c), NEW f \in ChowRuns, c[f] >= 1
  PROVE  /\ RunIn(h, f) /\ f.suit < Wind /\ f.value <= 7
         /\ \E d : Splits(TakeRun(h, f), d)
<1>1. /\ f \in TileKinds /\ f.suit < Wind /\ Next1(f) \in TileKinds /\ Next2(f) \in TileKinds
      /\ f = [suit |-> f.suit, value |-> f.value]
  BY ChowRunsAre
<1>2. f.value \in Nat /\ f.value <= 7
  <2>1. Next2(f).value \in 1 .. 9 /\ f.value \in Nat /\ Next2(f).value = f.value + 2
    BY <1>1, KindsAre DEF Next2
  <2> QED
    BY <2>1
<1>3. c \in [ChowRuns -> Nat]
  BY DEF Splits
<1>4. ASSUME NEW k \in TileKinds, InRuns(c, k) >= 1
      PROVE  h[k] >= 1
  <2>1. PICK x \in Nat, y \in Nat : x = h[k] /\ y = InRuns(c, k)
    BY <1>3, InRunsIs DEF Tallies
  <2>2. x - y \in Nat
    BY <2>1 DEF Splits
  <2> QED
    BY <1>4, <2>1, <2>2
<1>5. PICK n \in Nat : n = c[f] /\ n = ChosenAt(c, f.suit, f.value) /\ n >= 1
  BY <1>1, <1>3 DEF ChosenAt
<1>6. RunIn(h, f)
  <2>1. ASSUME NEW k \in TileKinds, k.suit = f.suit, NEW d \in 0 .. 2, k.value = f.value + d
        PROVE  h[k] >= 1
    <3>1. PICK m \in Nat : m = InRuns(c, k)
      BY <1>3, InRunsIs
    <3>2. k.value - d = f.value
      BY <1>2, <2>1
    <3>3. m >= n
      <4>1. CASE d = 0
        <5>1. k.value = f.value
          BY <1>2, <2>1, <4>1
        <5> QED
          BY <1>3, <1>5, <2>1, <3>1, <5>1, InRunsIs
      <4>2. CASE d = 1
        <5>1. k.value - 1 = f.value
          BY <3>2, <4>2
        <5> QED
          BY <1>3, <1>5, <2>1, <3>1, <5>1, InRunsIs
      <4>3. CASE d = 2
        <5>1. k.value - 2 = f.value
          BY <3>2, <4>3
        <5> QED
          BY <1>3, <1>5, <2>1, <3>1, <5>1, InRunsIs
      <4> QED
        BY <4>1, <4>2, <4>3
    <3> QED
      BY <1>4, <1>5, <3>1, <3>3
  <2>2. h[f] >= 1
    <3>1. f.value = f.value + 0
      BY <1>2
    <3> QED
      BY <1>1, <2>1, <3>1
  <2>3. h[Next1(f)] >= 1 /\ h[Next2(f)] >= 1
    <3>1. /\ Next1(f).suit = f.suit /\ Next1(f).value = f.value + 1
          /\ Next2(f).suit = f.suit /\ Next2(f).value = f.value + 2
      BY DEF Next1, Next2
    <3> QED
      BY <1>1, <2>1, <3>1
  <2> QED
    BY <1>1, <2>2, <2>3 DEF RunIn
<1>7. PICK d : d = [c EXCEPT ![f] = n - 1]
  OBVIOUS
<1>8. n - 1 \in Nat /\ d \in [ChowRuns -> Nat] /\ d[f] = n - 1
  BY <1>3, <1>5, <1>7
<1>9. c = [d EXCEPT ![f] = d[f] + 1]
  <2>1. d[f] + 1 = n
    BY <1>5, <1>8
  <2>2. c = [d EXCEPT ![f] = n]
    BY <1>3, <1>5, <1>7
  <2> QED
    BY <2>1, <2>2
<1>10. ASSUME NEW k \in TileKinds
       PROVE  /\ TakeRun(h, f)[k] - InRuns(d, k) \in Nat
              /\ (TakeRun(h, f)[k] - InRuns(d, k)) % 3 = 0
  <2>1. PICK x \in Nat, y \in Nat, z \in Nat : x = h[k] /\ y = InRuns(c, k) /\ z = InRuns(d, k)
    BY <1>3, <1>8, InRunsIs DEF Tallies
  <2>2. x - y \in Nat /\ (x - y) % 3 = 0
    BY <2>1 DEF Splits
  <2>3. TakeRun(h, f)[k] = x - (IF InRun(k, f) THEN 1 ELSE 0)
    BY <1>6, <2>1, TakeRunIs
  <2>4. y = z + (IF InRun(k, f) THEN 1 ELSE 0)
    BY <1>8, <1>9, <2>1, RunAdded
  <2>5. TakeRun(h, f)[k] - z = x - y
    BY <2>1, <2>3, <2>4
  <2> QED
    BY <2>1, <2>2, <2>5
<1>11. Splits(TakeRun(h, f), d)
  BY <1>8, <1>10 DEF Splits
<1> QED
  BY <1>1, <1>2, <1>6, <1>11

\* What the search is to find.
Good(h) == Size(h) % 3 = 0 /\ \E c : Splits(h, c)

\* One step of the search, with a function that answers for smaller hands.
Search(found, h) ==
  \/ Size(h) = 0
  \/ /\ Size(h) % 3 = 0
     /\ \/ h[First(h)] >= 3 /\ found[Take(h, First(h), 3)]
        \/ /\ First(h).suit < Wind
           /\ First(h).value <= 7
           /\ Has(h, First(h).suit, First(h).value + 1)
           /\ Has(h, First(h).suit, First(h).value + 2)
           /\ found[TakeRun(h, First(h))]

LEMMA EmptyIsGood ==
  ASSUME NEW h \in Tallies, Held(h) = {}
  PROVE  Good(h)
<1>1. \A k \in TileKinds : h[k] = 0
  BY DEF Held, Tallies
<1>2. PICK c \in [ChowRuns -> Nat] : c = [r \in ChowRuns |-> 0]
  OBVIOUS
<1>3. \A s, v : ChosenAt(c, s, v) = 0
  BY <1>2 DEF ChosenAt
<1>4. \A k \in TileKinds : InRuns(c, k) = 0
  BY <1>3 DEF InRuns
<1>5. Splits(h, c)
  BY <1>1, <1>4 DEF Splits
<1>6. Size(h) = 0
  BY SizeIs
<1> QED
  BY <1>5, <1>6 DEF Good

LEMMA Less3 ==
  ASSUME NEW a \in Nat, NEW b \in Nat, a = b + 3
  PROVE  a % 3 = 0 <=> b % 3 = 0
OBVIOUS

\* The function that answers with Good does what the search does, and so does any
\* other that does so for smaller hands.
LEMMA GoodIsFound ==
  ASSUME NEW h \in Tallies, NEW found,
         \A g \in Tallies : Size(g) < Size(h) => (found[g] <=> Good(g))
  PROVE  Good(h) <=> Search(found, h)
<1>1. CASE Held(h) = {}
  BY <1>1, EmptyIsGood, SizeIs DEF Search
<1>2. CASE Held(h) # {}
  <2>1. PICK f \in TileKinds : f = First(h)
    BY <1>2, FirstIs
  <2>2. f = [suit |-> f.suit, value |-> f.value] /\ h[f] \in Nat
    BY KindsAre DEF Tallies
  <2>3. PICK n \in Nat : n = Size(h) /\ n # 0
    BY <1>2, SizeIs
  <2>4. Has(h, f.suit, f.value + 1) /\ Has(h, f.suit, f.value + 2) <=>
          /\ Next1(f) \in TileKinds /\ Next2(f) \in TileKinds
          /\ h[Next1(f)] > 0 /\ h[Next2(f)] > 0
    BY DEF Has, Held, Next1, Next2
  <2>5. ASSUME h[f] >= 3
        PROVE  /\ found[Take(h, f, 3)] <=> Good(Take(h, f, 3))
               /\ Good(Take(h, f, 3)) <=> n % 3 = 0 /\ \E c : Splits(Take(h, f, 3), c)
    <3>1. PICK g \in Tallies : g = Take(h, f, 3) /\ n = Size(g) + 3
      BY <2>3, <2>5, TakeIs
    <3>2. PICK m \in Nat : m = Size(g) /\ m < n /\ (n % 3 = 0 <=> m % 3 = 0)
      BY <3>1, SizeIs, Less3
    <3> QED
      BY <2>3, <3>1, <3>2 DEF Good
  <2>6. ASSUME RunIn(h, f)
        PROVE  /\ found[TakeRun(h, f)] <=> Good(TakeRun(h, f))
               /\ Good(TakeRun(h, f)) <=> n % 3 = 0 /\ \E c : Splits(TakeRun(h, f), c)
    <3>1. PICK g \in Tallies : g = TakeRun(h, f) /\ n = Size(g) + 3
      BY <2>3, <2>6, TakeRunIs
    <3>2. PICK m \in Nat : m = Size(g) /\ m < n /\ (n % 3 = 0 <=> m % 3 = 0)
      BY <3>1, SizeIs, Less3
    <3> QED
      BY <2>3, <3>1, <3>2 DEF Good
  <2>7. ASSUME Good(h) PROVE Search(found, h)
    <3>1. PICK c : Splits(h, c)
      BY <2>7 DEF Good
    <3>2. n % 3 = 0
      BY <2>3, <2>7 DEF Good
    <3>3. CASE h[f] >= 3 /\ Splits(Take(h, f, 3), c)
      BY <2>1, <2>3, <2>5, <3>2, <3>3 DEF Search
    <3>4. CASE f \in ChowRuns /\ c[f] >= 1
      <4>1. RunIn(h, f) /\ f.suit < Wind /\ f.value <= 7 /\ \E d : Splits(TakeRun(h, f), d)
        BY <3>1, <3>4, RunTaken
      <4>2. found[TakeRun(h, f)]
        BY <2>6, <3>2, <4>1
      <4>3. Has(h, f.suit, f.value + 1) /\ Has(h, f.suit, f.value + 2)
        <5>1. Next1(f) \in TileKinds /\ Next2(f) \in TileKinds /\ h[Next1(f)] >= 1 /\ h[Next2(f)] >= 1
          BY <4>1 DEF RunIn
        <5>2. h[Next1(f)] \in Nat /\ h[Next2(f)] \in Nat
          BY <5>1 DEF Tallies
        <5> QED
          BY <2>4, <5>1, <5>2
      <4> QED
        BY <2>1, <2>3, <3>2, <4>1, <4>2, <4>3 DEF Search
    <3> QED
      BY <1>2, <2>1, <3>1, <3>3, <3>4, FirstSplits
  <2>8. ASSUME Search(found, h) PROVE Good(h)
    <3>1. n % 3 = 0
      BY <2>3, <2>8 DEF Search
    <3>2. CASE h[f] >= 3 /\ found[Take(h, f, 3)]
      <4>1. PICK c : Splits(Take(h, f, 3), c)
        BY <2>5, <3>2
      <4>2. Splits(h, c)
        BY <3>2, <4>1, TripletBack
      <4> QED
        BY <2>3, <3>1, <4>2 DEF Good
    <3>3. CASE /\ f.suit < Wind
               /\ Has(h, f.suit, f.value + 1) /\ Has(h, f.suit, f.value + 2)
               /\ found[TakeRun(h, f)]
      <4>1. f \in ChowRuns
        BY <2>4, <3>3, ChowRunsAre
      <4>2. h[f] >= 1
        BY <1>2, <2>1, <2>2, FirstIs DEF Held
      <4>3. RunIn(h, f)
        <5>1. Next1(f) \in TileKinds /\ Next2(f) \in TileKinds /\ h[Next1(f)] > 0 /\ h[Next2(f)] > 0
          BY <2>4, <3>3
        <5>2. h[Next1(f)] \in Nat /\ h[Next2(f)] \in Nat
          BY <5>1 DEF Tallies
        <5> QED
          BY <4>2, <5>1, <5>2 DEF RunIn
      <4>4. PICK c : Splits(TakeRun(h, f), c)
        BY <2>6, <3>3, <4>3
      <4>5. \E d : Splits(h, d)
        BY <4>1, <4>3, <4>4, RunBack
      <4> QED
        BY <2>3, <3>1, <4>5 DEF Good
    <3> QED
      BY <2>1, <2>3, <2>8, <3>2, <3>3 DEF Search
  <2> QED
    BY <2>7, <2>8
<1> QED
  BY <1>1, <1>2

\* The recursive definition has a solution, so it is one.
LEMMA MeldsSearches ==
  \A h \in Tallies : Melds[h] <=> Search(Melds, h)
<1>1. PICK found : found = [h \in Tallies |-> Good(h)]
  OBVIOUS
<1>2. \A h \in Tallies : Good(h) <=> Search(found, h)
  BY <1>1, GoodIsFound
<1>3. found = [h \in Tallies |-> Search(found, h)]
  <2>1. \A h \in Tallies : Good(h) = Search(found, h)
    BY <1>2 DEF Good, Search
  <2> QED
    BY <1>1, <2>1
<1>4. \E f : f = [h \in Tallies |-> Search(f, h)]
  BY <1>3
<1>5. Melds = CHOOSE f : f = [h \in Tallies |-> Search(f, h)]
  BY DEF Melds, Search
<1>6. Melds = [h \in Tallies |-> Search(Melds, h)]
  BY <1>4, <1>5
<1> QED
  BY <1>6

LEMMA MeldsAre ==
  ASSUME NEW h \in Tallies
  PROVE  Melds[h] <=> Good(h)
<1>1. PICK wrong : wrong = {g \in Tallies : ~(Melds[g] <=> Good(g))}
  OBVIOUS
<1>2. SUFFICES ASSUME wrong # {} PROVE FALSE
  BY <1>1
<1>3. PICK S : S = {Size(g) : g \in wrong}
  OBVIOUS
<1>4. S \in SUBSET Nat /\ S # {}
  BY <1>1, <1>2, <1>3, SizeIs
<1>5. PICK m \in S : \A n \in S : m <= n
  BY <1>4, LeastNumber
<1>6. PICK f \in wrong : m = Size(f)
  BY <1>3
<1>7. f \in Tallies /\ m \in Nat
  BY <1>1, <1>4
<1>8. \A g \in Tallies : Size(g) < Size(f) => (Melds[g] <=> Good(g))
  <2>1. SUFFICES ASSUME NEW g \in Tallies, Size(g) < Size(f), ~(Melds[g] <=> Good(g)) PROVE FALSE
    OBVIOUS
  <2>2. g \in wrong
    BY <1>1, <2>1
  <2>3. m <= Size(g) /\ Size(g) \in Nat
    BY <1>3, <1>5, <2>2, SizeIs
  <2> QED
    BY <1>6, <1>7, <2>1, <2>3
<1>9. Good(f) <=> Search(Melds, f)
  BY <1>7, <1>8, GoodIsFound
<1>10. Melds[f] <=> Search(Melds, f)
  BY <1>7, MeldsSearches
<1> QED
  BY <1>1, <1>9, <1>10

-----------------------------------------------------------------------------
(* Winning hands. *)

Dealt == [TileKinds -> 0 .. Copies]

LEMMA DealtAre ==
  ASSUME NEW h \in Dealt
  PROVE  h \in Tallies /\ \A k \in TileKinds : h[k] \in 0 .. 4
BY DEF Dealt, Tallies, Copies

LEMMA PairTaken ==
  ASSUME NEW h \in Dealt, NEW pair \in TileKinds, h[pair] >= 2, Size(h) = WinSize
  PROVE  /\ Take(h, pair, 2) \in Tallies /\ Size(Take(h, pair, 2)) % 3 = 0
         /\ \A k \in TileKinds : Take(h, pair, 2)[k] = h[k] - (IF k = pair THEN 2 ELSE 0)
         /\ CheckMianZi(Take(h, pair, 2)) <=> \E c : Splits(Take(h, pair, 2), c)
<1>1. h \in Tallies
  BY DealtAre
<1>2. PICK g \in Tallies : g = Take(h, pair, 2) /\ Size(h) = Size(g) + 2
  BY <1>1, TakeIs
<1>3. Size(g) % 3 = 0
  <2>1. PICK w \in Nat, n \in Nat : w = WinSize /\ w % 3 = 2 /\ n = Size(g)
    BY <1>2, SizeIs, WinSizeAssumption
  <2>2. w = n + 2
    BY <1>2, <2>1
  <2> QED
    BY <2>1, <2>2
<1>4. CheckMianZi(g) <=> \E c : Splits(g, c)
  BY <1>3, MeldsAre DEF CheckMianZi, Good
<1> QED
  BY <1>1, <1>2, <1>3, <1>4, TakeIs

\* checkBasicWin finds a way to split a hand whenever there is one.
LEMMA BasicWinIs ==
  ASSUME NEW h \in Dealt
  PROVE  CheckBasicWin(h) <=> IsWinningShape(h)
<1>0. h \in Tallies /\ \A k \in TileKinds : h[k] \in 0 .. 4
  BY DealtAre
<1>1. ASSUME CheckBasicWin(h)
      PROVE  IsWinningShape(h)
  <2>1. Size(h) = WinSize
    BY <1>1 DEF CheckBasicWin
  <2>2. PICK pair \in TileKinds : h[pair] >= 2 /\ CheckMianZi(Take(h, pair, 2))
    BY <1>1 DEF CheckBasicWin, Held
  <2>3. PICK c : Splits(Take(h, pair, 2), c)
    BY <2>1, <2>2, PairTaken
  <2>4. c \in [ChowRuns -> Nat]
    BY <2>3 DEF Splits
  <2>5. ASSUME NEW k \in TileKinds
        PROVE  Rest(h, pair, c, k) \in {0, 3} /\ InRuns(c, k) \in 0 .. 4
    <3>1. PICK x \in 0 .. 4, y \in Nat : x = h[k] /\ y = InRuns(c, k)
      BY <1>0, <2>4, InRunsIs
    <3>2. PICK z : z = Take(h, pair, 2)[k]
      OBVIOUS
    <3>3. z - y \in Nat /\ (z - y) % 3 = 0
      BY <2>3, <3>1, <3>2 DEF Splits
    <3>4. z = x - (IF k = pair THEN 2 ELSE 0)
      BY <2>1, <2>2, <3>1, <3>2, PairTaken
    <3>5. z \in Int /\ z <= 4
      BY <3>4
    <3>6. z - y \in 0 .. 4 /\ y \in 0 .. 4
      BY <3>1, <3>3, <3>5
    <3>7. z - y \in {0, 3}
      BY <3>3, <3>6
    <3>8. Rest(h, pair, c, k) = z - y
      BY <3>1, <3>4 DEF Rest
    <3> QED
      BY <3>1, <3>6, <3>7, <3>8
  <2>6. c \in [ChowRuns -> 0 .. Copies]
    <3>1. ASSUME NEW r \in ChowRuns PROVE c[r] \in 0 .. 4
      <4>1. r \in TileKinds /\ r = [suit |-> r.suit, value |-> r.value]
        BY ChowRunsAre
      <4>2. ChosenAt(c, r.suit, r.value) = c[r]
        BY <4>1 DEF ChosenAt
      <4>3. InRuns(c, r) >= c[r] /\ InRuns(c, r) \in 0 .. 4 /\ c[r] \in Nat
        BY <2>4, <2>5, <4>1, <4>2, InRunsIs
      <4> QED
        BY <4>3
    <3> QED
      BY <2>4, <3>1 DEF Copies
  <2> QED
    BY <2>1, <2>5, <2>6 DEF IsWinningShape
<1>2. ASSUME IsWinningShape(h)
      PROVE  CheckBasicWin(h)
  <2>1. Size(h) = WinSize
    BY <1>2 DEF IsWinningShape
  <2>2. PICK pair \in TileKinds, c \in [ChowRuns -> 0 .. Copies] :
          \A k \in TileKinds : Rest(h, pair, c, k) \in {0, 3}
    BY <1>2 DEF IsWinningShape
  <2>3. c \in [ChowRuns -> Nat]
    BY <2>2 DEF Copies
  <2>4. h[pair] >= 2
    <3>1. PICK x \in Nat, y \in Nat : x = h[pair] /\ y = InRuns(c, pair)
      BY <1>0, <2>3, InRunsIs
    <3>2. x - 2 - y \in {0, 3}
      BY <2>2, <3>1 DEF Rest
    <3> QED
      BY <3>1, <3>2
  <2>5. ASSUME NEW k \in TileKinds
        PROVE  /\ Take(h, pair, 2)[k] - InRuns(c, k) \in Nat
               /\ (Take(h, pair, 2)[k] - InRuns(c, k)) % 3 = 0
    <3>1. Take(h, pair, 2)[k] = h[k] - (IF k = pair THEN 2 ELSE 0)
      BY <2>1, <2>4, PairTaken
    <3>2. Take(h, pair, 2)[k] - InRuns(c, k) \in {0, 3}
      BY <2>2, <3>1 DEF Rest
    <3> QED
      BY <3>2
  <2>6. Splits(Take(h, pair, 2), c)
    BY <2>3, <2>5 DEF Splits
  <2>7. CheckMianZi(Take(h, pair, 2))
    BY <2>1, <2>4, <2>6, PairTaken
  <2>8. pair \in Held(h)
    BY <1>0, <2>4 DEF Held
  <2> QED
    BY <2>1, <2>4, <2>7, <2>8 DEF CheckBasicWin
<1> QED
  BY <1>1, <1>2

\* A hand of triplets and a pair is found as well.
LEMMA TripletsWin ==
  ASSUME NEW h \in Dealt, CheckJiangJiangHu(h)
  PROVE  CheckBasicWin(h)
<1>1. Size(h) = WinSize
  BY DEF CheckJiangJiangHu
<1>2. PICK pair \in Held(h) : h[pair] >= 2 /\ CheckAllTriplets(Take(h, pair, 2))
  BY DEF CheckJiangJiangHu
<1>3. pair \in TileKinds
  BY DEF Held
<1>4. PICK c \in [ChowRuns -> Nat] : c = [r \in ChowRuns |-> 0]
  OBVIOUS
<1>5. \A s, v : ChosenAt(c, s, v) = 0
  BY <1>4 DEF ChosenAt
<1>6. \A k \in TileKinds : InRuns(c, k) = 0
  BY <1>5 DEF InRuns
<1>7. PICK g \in Tallies : g = Take(h, pair, 2)
  BY <1>1, <1>2, <1>3, PairTaken
<1>8. \A k \in TileKinds : g[k] \in Nat /\ g[k] % 3 = 0
  BY <1>2, <1>7 DEF CheckAllTriplets, Tallies
<1>9. Splits(g, c)
  BY <1>6, <1>8 DEF Splits
<1>10. CheckMianZi(g)
  BY <1>1, <1>2, <1>3, <1>7, <1>9, PairTaken
<1> QED
  BY <1>1, <1>2, <1>7, <1>10 DEF CheckBasicWin

LEMMA RuleSetsAgree ==
  ASSUME NEW h
  PROVE  (CheckJiangJiangHu(h) <=> CheckPengPengHu(h)) /\ (CanWin(h) <=> THCanWin(h))
<1>1. CheckJiangJiangHu(h) <=> CheckPengPengHu(h)
  BY DEF CheckJiangJiangHu, CheckPengPengHu, CheckAllTriplets, THCheckAllTriplets
<1>2. CheckBasicWin(h) <=> THCheckBasicWin(h)
  BY DEF CheckBasicWin, THCheckBasicWin, THCheckMianZi
<1>3. CheckSevenPairs(h) <=> THCheckSevenPairs(h)
  BY DEF CheckSevenPairs, THCheckSevenPairs
<1> QED
  BY <1>1, <1>2, <1>3 DEF CanWin, THCanWin

LEMMA WinningSteps ==
  /\ WinningInit => hand \in Dealt
  /\ hand \in Dealt /\ [WinningNext]_hand => hand' \in Dealt
<1>1. WinningInit => hand \in Dealt
  BY DEF WinningInit, Dealt, Copies
<1>2. ASSUME hand \in Dealt, NEW k \in TileKinds, Add(k)
      PROVE  hand' \in Dealt
  <2>1. hand[k] \in 0 .. 4 /\ hand[k] < 4
    BY <1>2 DEF Add, Dealt, Copies
  <2>2. hand[k] + 1 \in 0 .. 4
    BY <2>1
  <2> QED
    BY <1>2, <2>2 DEF Add, Dealt, Copies
<1> QED
  BY <1>1, <1>2 DEF WinningNext

\* The search of the code finds a way to split a hand into melds and a pair
\* whenever there is one, and the two rule sets agree.
THEOREM WinningComplete ==
  WinningSpec => []BasicWinIsComplete
<1>1. hand \in Dealt => BasicWinIsComplete
  BY BasicWinIs, TripletsWin, RuleSetsAgree DEF BasicWinIsComplete, CanWin
<1>2. WinningInit => hand \in Dealt
  BY WinningSteps
<1>3. hand \in Dealt /\ [WinningNext]_hand => (hand \in Dealt)'
  BY WinningSteps
<1> QED
  BY <1>1, <1>2, <1>3, PTL DEF WinningSpec

-----------------------------------------------------------------------------
(* What a win is worth. *)

LEMMA FansAre ==
  ASSUME NEW h, NEW tile, NEW waits \in BOOLEAN, NEW flowers, NEW lastIsDiscard \in BOOLEAN
  PROVE  /\ HTFan(h, waits) \in Nat /\ HTFan(h, waits) >= 1
         /\ THFan(h, tile, flowers, lastIsDiscard) \in Nat
         /\ THFan(h, tile, flowers, FALSE) >= THFan(h, tile, flowers, TRUE)
<1>1. \A score \in Nat, there \in BOOLEAN : Worth(score, there) \in Nat
  BY DEF Worth
<1>2. \A n \in Nat : AtLeastPlain(n) \in Nat /\ AtLeastPlain(n) >= 1 /\ AtLeastPlain(n) >= n
  BY DEF AtLeastPlain
<1>3. HTFan(h, waits) \in Nat /\ HTFan(h, waits) >= 1
  <2>1. PICK a, b, c, d, e \in Nat :
          /\ a = Worth(10, CheckQingYiSe(h))
          /\ b = (IF CheckLongQiDui(h) THEN 8 ELSE Worth(6, CheckSevenPairs(h)))
          /\ c = Worth(6, CheckJiangJiangHu(h)) /\ d = Worth(2, CheckQueYiMen(h))
          /\ e = Worth(5, waits)
    BY DEF Worth
  <2>2. HTFan(h, waits) = AtLeastPlain(a + b + c + d + e)
    BY <2>1 DEF HTFan
  <2> QED
    BY <1>2, <2>2
<1>4. PICK b, c, d, e \in Nat :
        /\ b = Worth(10, THCheckQingYiSe(h))
        /\ c = (IF THCheckLongQiDui(h) THEN 8 ELSE Worth(6, THCheckSevenPairs(h)))
        /\ d = Worth(6, CheckPengPengHu(h)) /\ e = Worth(5, CheckDaDiaoChe(h, tile))
  BY DEF Worth
<1>5. PICK a \in Nat : a = Worth(10, CheckWuHuaGuoZiMo(flowers, FALSE))
  BY DEF Worth
<1>6. Worth(10, CheckWuHuaGuoZiMo(flowers, TRUE)) = 0
  BY DEF Worth, CheckWuHuaGuoZiMo
<1>7. /\ THFan(h, tile, flowers, FALSE) = AtLeastPlain(a + b + c + d + e)
      /\ THFan(h, tile, flowers, TRUE) = AtLeastPlain(0 + b + c + d + e)
  BY <1>4, <1>5, <1>6 DEF THFan
<1>8. a + b + c + d + e \in Nat /\ 0 + b + c + d + e \in Nat /\ a + b + c + d + e >= 0 + b + c + d + e
  OBVIOUS
<1>9. AtLeastPlain(a + b + c + d + e) >= AtLeastPlain(0 + b + c + d + e)
  BY <1>8 DEF AtLeastPlain
<1> QED
  BY <1>2, <1>3, <1>7, <1>8, <1>9

LEMMA PayersAre ==
  ASSUME NEW winner \in Players, NEW loser \in Players, winner # loser, NEW type, NEW total
  PROVE  /\ Cardinality(Transfers(winner, loser, type, total)) \in Nat
         /\ Cardinality(Transfers(winner, loser, type, total)) >= 1
         /\ type # "draw" => Cardinality(Transfers(winner, loser, type, total)) = 1
<1>1. PICK payers : payers = IF type = "draw" THEN Players \ {winner} ELSE {loser}
  OBVIOUS
<1>2. IsFiniteSet(payers) /\ loser \in payers
  BY <1>1, PlayersAssumption, FS_Subset, FS_Singleton
<1>3. PICK f : f = [p \in payers |-> [from |-> p, to |-> winner, amount |-> total]]
  OBVIOUS
<1>4. PICK S : S = {f[p] : p \in payers}
  OBVIOUS
<1>5. f \in Surjection(payers, S)
  BY <1>3, <1>4 DEF Surjection
<1>6. IsFiniteSet(S) /\ f[loser] \in S
  BY <1>2, <1>4, <1>5, FS_Surjection
<1>7. Cardinality(S) \in Nat /\ Cardinality(S) # 0
  BY <1>6, FS_CardinalityType, FS_EmptySet
<1>8. Transfers(winner, loser, type, total) = S
  BY <1>1, <1>3, <1>4 DEF Transfers
<1>9. ASSUME type # "draw" PROVE Cardinality(S) = 1
  <2>1. S = {f[loser]}
    BY <1>1, <1>4, <1>9
  <2> QED
    BY <2>1, FS_Singleton
<1> QED
  BY <1>7, <1>8, <1>9

LEMMA Times ==
  ASSUME NEW t \in Nat, NEW c \in Nat, c >= 1
  PROVE  t * c \in Nat /\ t * c >= t
<1>1. PICK d \in Nat : c = d + 1
  <2>1. c - 1 \in Nat /\ c = (c - 1) + 1
    OBVIOUS
  <2> QED
    BY <2>1
<1>2. t * c = t * d + t /\ t * d \in Nat
  BY <1>1
<1> QED
  BY <1>2

\* What a settlement brings, from its total.
LEMMA IncomeIs ==
  ASSUME NEW winner \in Players, NEW loser \in Players, winner # loser, NEW type, NEW t \in Nat,
         NEW settlement, settlement = [total |-> t, transfers |-> Transfers(winner, loser, type, t)]
  PROVE  /\ Income(settlement) \in Nat /\ Income(settlement) >= t
         /\ type # "draw" => Income(settlement) = t
<1>1. PICK c \in Nat : /\ c = Cardinality(Transfers(winner, loser, type, t)) /\ c >= 1
                       /\ type # "draw" => c = 1
  BY PayersAre
<1>2. Income(settlement) = t * c
  BY <1>1 DEF Income
<1>3. t * 1 = t
  OBVIOUS
<1> QED
  BY <1>1, <1>2, <1>3, Times

LEMMA HTPays ==
  ASSUME NEW winner \in Players, NEW loser \in Players, winner # loser, NEW dealer,
         NEW waits \in BOOLEAN, NEW fan \in Nat, fan >= 1
  PROVE  /\ \A type : Income(HTCalculate(winner, loser, type, fan, waits, dealer, 10)) >= 10
         /\ Income(HTCalculate(winner, loser, "draw", fan, waits, dealer, 10))
              >= Income(HTCalculate(winner, loser, "discard", fan, waits, dealer, 10))
<1> DEFINE HT(type) == HTCalculate(winner, loser, type, fan, waits, dealer, 10)
           Sum(type) == Twice(Twice(Twice(Twice(10 * fan, type = "draw"), waits),
                                    type = "qiangKong"), winner = dealer)
<1>1. \A type : HT(type) = [total |-> Sum(type), transfers |-> Transfers(winner, loser, type, Sum(type))]
  BY DEF HTCalculate, Base
<1>2. \A type : Sum(type) \in Nat /\ Sum(type) >= 10
  <2>1. 10 * fan \in Nat /\ 10 * fan >= 10
    OBVIOUS
  <2>2. \A n, when : n \in Nat /\ n >= 10 => Twice(n, when) \in Nat /\ Twice(n, when) >= 10
    BY DEF Twice
  <2> QED
    BY <2>1, <2>2
<1>3. Sum("draw") >= Sum("discard")
  <2>1. PICK n \in Nat : n = 10 * fan
    OBVIOUS
  <2> QED
    BY <2>1 DEF Twice
<1> HIDE DEF Sum, HT
<1>4. \A type : Income(HT(type)) \in Nat /\ Income(HT(type)) >= Sum(type)
  BY <1>1, <1>2, IncomeIs
<1>5. Income(HT("discard")) = Sum("discard")
  BY <1>1, <1>2, IncomeIs
<1>6. \A type : Income(HT(type)) >= 10
  BY <1>2, <1>4
<1>7. Income(HT("draw")) >= Income(HT("discard"))
  BY <1>2, <1>3, <1>4, <1>5
<1> QED
  BY <1>6, <1>7 DEF HT

LEMMA THPays ==
  ASSUME NEW winner \in Players, NEW loser \in Players, winner # loser,
         NEW flowers \in Nat, NEW kongs \in Nat, NEW drawn \in Nat, NEW given \in Nat, drawn >= given
  PROVE  /\ Income(THCalculate(winner, loser, "draw", drawn, flowers, kongs, 10)) >= 10
         /\ Income(THCalculate(winner, loser, "discard", given, flowers, kongs, 10)) >= 10
         /\ Income(THCalculate(winner, loser, "draw", drawn, flowers, kongs, 10))
              >= Income(THCalculate(winner, loser, "discard", given, flowers, kongs, 10))
<1>1. PICK a \in Nat : a = (drawn + flowers + 2 + 2 * kongs) \div 10
  OBVIOUS
<1>2. PICK b \in Nat : b = (given + flowers + 0 + 2 * kongs) \div 10
  OBVIOUS
<1>3. a >= b
  BY <1>1, <1>2
<1>4. PICK x \in Nat, y \in Nat : x = AtLeastPlain(a) * 10 /\ y = AtLeastPlain(b) * 10 /\ x >= y /\ y >= 10
  BY <1>3 DEF AtLeastPlain
<1>5. /\ THCalculate(winner, loser, "draw", drawn, flowers, kongs, 10)
           = [total |-> x, transfers |-> Transfers(winner, loser, "draw", x)]
      /\ THCalculate(winner, loser, "discard", given, flowers, kongs, 10)
           = [total |-> y, transfers |-> Transfers(winner, loser, "discard", y)]
  BY <1>1, <1>2, <1>4 DEF THCalculate, Base, Worth
<1>6. PICK i \in Nat : /\ i = Income(THCalculate(winner, loser, "draw", drawn, flowers, kongs, 10))
                       /\ i >= x
  BY <1>5, IncomeIs
<1>7. Income(THCalculate(winner, loser, "discard", given, flowers, kongs, 10)) = y
  BY <1>5, IncomeIs
<1> QED
  BY <1>4, <1>6, <1>7

\* A win is always worth the base score at least, and drawing the winning tile
\* never brings less than being given it.
THEOREM WinningPays ==
  WinningSpec => []WinPays
<1>1. WinPays
  <2>1. SUFFICES ASSUME NEW winner \in Players, NEW loser \in Players, NEW dealer \in Players,
                        NEW flowers \in 0 .. 4, NEW kongs \in 0 .. 4, NEW waits \in BOOLEAN,
                        winner # loser, NEW tile, tile = CHOOSE k \in Held(hand) : TRUE
                 PROVE  /\ \A type \in WinTypes :
                             Income(HTCalculate(winner, loser, type, HTFan(hand, waits), waits, dealer, 10)) >= 10
                        /\ \A move \in {"Discard", "Draw"} :
                             Income(THCalculate(winner, loser, WinType(move),
                               THFan(hand, tile, flowers, WinType(move) = "discard"), flowers, kongs, 10)) >= 10
                        /\ Income(HTCalculate(winner, loser, "draw", HTFan(hand, waits), waits, dealer, 10))
                             >= Income(HTCalculate(winner, loser, "discard", HTFan(hand, waits), waits, dealer, 10))
                        /\ Income(THCalculate(winner, loser, "draw",
                                    THFan(hand, tile, flowers, "draw" = "discard"), flowers, kongs, 10))
                             >= Income(THCalculate(winner, loser, "discard",
                                  THFan(hand, tile, flowers, "discard" = "discard"), flowers, kongs, 10))
    BY DEF WinPays
  <2>2. WinType("Discard") = "discard" /\ WinType("Draw") = "draw"
    BY DEF WinType
  <2>3. PICK x \in Nat, y \in Nat : /\ x = THFan(hand, tile, flowers, FALSE)
                                    /\ y = THFan(hand, tile, flowers, TRUE) /\ x >= y
    BY FansAre
  <2>4. ("draw" = "discard") = FALSE /\ ("discard" = "discard") = TRUE
    OBVIOUS
  <2>5. HTFan(hand, waits) \in Nat /\ HTFan(hand, waits) >= 1
    BY FansAre
  <2>6. PICK fan \in Nat : fan = HTFan(hand, waits) /\ fan >= 1
    BY <2>5
  <2>7. \A type : Income(HTCalculate(winner, loser, type, fan, waits, dealer, 10)) >= 10
    BY <2>1, <2>6, HTPays
  <2>8. Income(HTCalculate(winner, loser, "draw", fan, waits, dealer, 10))
          >= Income(HTCalculate(winner, loser, "discard", fan, waits, dealer, 10))
    BY <2>1, <2>6, HTPays
  <2>9. flowers \in Nat /\ kongs \in Nat
    OBVIOUS
  <2>10. /\ Income(THCalculate(winner, loser, "draw", x, flowers, kongs, 10)) >= 10
         /\ Income(THCalculate(winner, loser, "discard", y, flowers, kongs, 10)) >= 10
         /\ Income(THCalculate(winner, loser, "draw", x, flowers, kongs, 10))
              >= Income(THCalculate(winner, loser, "discard", y, flowers, kongs, 10))
    BY <2>1, <2>3, <2>9, THPays
  <2>11. \A move \in {"Discard", "Draw"} :
           Income(THCalculate(winner, loser, WinType(move),
             THFan(hand, tile, flowers, WinType(move) = "discard"), flowers, kongs, 10)) >= 10
    <3>1. Income(THCalculate(winner, loser, WinType("Discard"),
            THFan(hand, tile, flowers, WinType("Discard") = "discard"), flowers, kongs, 10)) >= 10
      BY <2>2, <2>3, <2>4, <2>10
    <3>2. Income(THCalculate(winner, loser, WinType("Draw"),
            THFan(hand, tile, flowers, WinType("Draw") = "discard"), flowers, kongs, 10)) >= 10
      BY <2>2, <2>3, <2>4, <2>10
    <3> QED
      BY <3>1, <3>2
  <2>12. Income(THCalculate(winner, loser, "draw",
                  THFan(hand, tile, flowers, "draw" = "discard"), flowers, kongs, 10))
           >= Income(THCalculate(winner, loser, "discard",
                THFan(hand, tile, flowers, "discard" = "discard"), flowers, kongs, 10))
    BY <2>3, <2>4, <2>10
  <2> QED
    BY <2>6, <2>7, <2>8, <2>11, <2>12
<1> QED
  BY <1>1, PTL

-----------------------------------------------------------------------------
(* The composition, as the run checks it. *)

\* A behaviour of the composition is one of each part, so that what is proved of
\* a part holds of it.
THEOREM GamesArePlayed ==
  GamesSpec => MahjongSpec /\ GameSpec /\ WinningSpec
<1>1. GamesInit => MahjongInit /\ GameInit /\ WinningInit
  BY DEF GamesInit
<1>2. [GamesNext]_gamesVars => [MahjongNext]_mahjongVars /\ [GameNext]_gameVars /\ [WinningNext]_hand
  <2>1. CASE GamesNext
    BY <2>1 DEF GamesNext
  <2>2. CASE UNCHANGED gamesVars
    BY <2>2 DEF gamesVars
  <2> QED
    BY <2>1, <2>2
<1> QED
  BY <1>1, <1>2, PTL DEF GamesSpec, MahjongSpec, GameSpec, WinningSpec

\* The types of the engine and of the table of games, in the composition: hands
\* are slices of the dealt part of the array, and a call holds a Game that was made.
THEOREM GamesTyped ==
  GamesSpec => []GamesTypeOK
<1>1. MahjongTypeOK /\ GameTypeOK => GamesTypeOK
  BY DEF GamesTypeOK
<1> QED
  BY <1>1, GamesArePlayed, MahjongTyped, GameTyped, PTL
=============================================================================
