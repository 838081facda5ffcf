------------------------------ MODULE GameTable ------------------------------
(***************************************************************************)
(* The games of a logic node: game/manager.go, game/game.go and            *)
(* MahjongService.StartGame, for one room (a game has its room's ID, and   *)
(* the games of two rooms share nothing).                                  *)
(*                                                                         *)
(* StartGame finds or makes the Game, gives it an engine and initialises   *)
(* that, each under a lock of its own; what happens in the engine is       *)
(* module Mahjong.  An action that reaches an engine before Initialize     *)
(* meets a nil state.                                                      *)
(***************************************************************************)
EXTENDS Naturals, FiniteSets

CONSTANTS
  Starters,    \* calls of MahjongService.StartGame for the room
  MaxGames,    \* bound on the Game objects made
  NoGame

Games == 1 .. MaxGames

ASSUME MaxGamesAssumption == MaxGames \in Nat \ {0}
ASSUME NoGameAssumption == NoGame \notin Starters \cup Games

VARIABLES
  listed,      \* GameManager.games: the room's Game or NoGame
  made,        \* Game objects made so far
  engine,      \* per Game its engine, named for the call that made it
  dealt,       \* engines whose Initialize has run
  inactive,    \* Games longer without activity than evictTimeout
  evicted,     \* Games that were listed once
  starter,     \* per StartGame, where it is and the Game it holds
  evictor      \* evictInactive: whether the room's ID is in toEvict

gameVars == <<listed, made, engine, dealt, inactive, evicted, starter, evictor>>

GameInit ==
  /\ listed = NoGame /\ made = 0
  /\ engine = [g \in Games |-> NoGame]
  /\ dealt = {} /\ inactive = {} /\ evicted = {}
  /\ starter = [s \in Starters |-> [at |-> "idle", game |-> NoGame]]
  /\ evictor = FALSE

StarterGoes(s, to, g) == starter' = [starter EXCEPT ![s] = [at |-> to, game |-> g]]

-----------------------------------------------------------------------------
(* MahjongService.StartGame *)

\* GetOrCreate: Load, which finds the Game or leads to NewGame.
Load(s) ==
  /\ starter[s].at = "idle"
  /\ IF listed # NoGame
     THEN StarterGoes(s, "have", listed) /\ UNCHANGED made
     ELSE /\ made < MaxGames
          /\ made' = made + 1
          /\ StarterGoes(s, "store", made + 1)
  /\ UNCHANGED <<listed, engine, dealt, inactive, evicted, evictor>>

\* Mutant: Store.
Bug_LoadOrStore(s) ==
  /\ starter[s].at = "store"
  /\ listed' = starter[s].game
  /\ StarterGoes(s, "have", starter[s].game)
  /\ UNCHANGED <<made, engine, dealt, inactive, evicted, evictor>>

\* LoadOrStore: the Game of whoever came first.
LoadOrStore(s) ==
  /\ starter[s].at = "store"
  /\ listed' = IF listed = NoGame THEN starter[s].game ELSE listed
  /\ StarterGoes(s, "have", listed')
  /\ UNCHANGED <<made, engine, dealt, inactive, evicted, evictor>>

SetEngine(s) ==
  /\ starter[s].at = "have"
  /\ engine' = [engine EXCEPT ![starter[s].game] = s]
  /\ inactive' = inactive \ {starter[s].game}
  /\ StarterGoes(s, "set", starter[s].game)
  /\ UNCHANGED <<listed, made, dealt, evicted, evictor>>

\* The engine of the Game, which another call may have replaced by now.
InitMahjongGame(s) ==
  /\ starter[s].at = "set"
  /\ dealt' = dealt \cup {engine[starter[s].game]}
  /\ inactive' = inactive \ {starter[s].game}
  /\ StarterGoes(s, "done", starter[s].game)
  /\ UNCHANGED <<listed, made, engine, evicted, evictor>>

-----------------------------------------------------------------------------
(* Players and time *)

\* HandlePlayerAction of the listed Game: without an engine it is an error, with
\* one that is not dealt it meets the nil state, and else it is a move.
HandlePlayerAction ==
  /\ listed # NoGame /\ engine[listed] \in dealt
  /\ inactive' = inactive \ {listed}
  /\ UNCHANGED <<listed, made, engine, dealt, evicted, starter, evictor>>

GoInactive ==
  /\ listed # NoGame /\ listed \notin inactive
  /\ inactive' = inactive \cup {listed}
  /\ UNCHANGED <<listed, made, engine, dealt, evicted, starter, evictor>>

-----------------------------------------------------------------------------
(* evictInactive: what the scan found is removed without another look. *)

EvictScan ==
  /\ ~evictor /\ listed \in inactive
  /\ evictor' = TRUE
  /\ UNCHANGED <<listed, made, engine, dealt, inactive, evicted, starter>>

EvictRemove ==
  /\ evictor
  /\ evictor' = FALSE
  /\ listed' = NoGame
  /\ evicted' = IF listed = NoGame THEN evicted ELSE evicted \cup {listed}
  /\ UNCHANGED <<made, engine, dealt, inactive, starter>>

GameNext ==
  \/ \E s \in Starters : Load(s) \/ LoadOrStore(s) \/ SetEngine(s) \/ InitMahjongGame(s)
  \/ HandlePlayerAction \/ GoInactive \/ EvictScan \/ EvictRemove

GameSpec == GameInit /\ [][GameNext]_gameVars

-----------------------------------------------------------------------------
(* Properties *)

GameTypeOK ==
  /\ listed \in Games \cup {NoGame} /\ made \in 0 .. MaxGames
  /\ engine \in [Games -> Starters \cup {NoGame}]
  /\ dealt \subseteq Starters
  /\ inactive \subseteq Games /\ evicted \subseteq Games
  /\ evictor \in BOOLEAN
  /\ \A s \in Starters : starter[s].at \in {"idle", "store", "have", "set", "done"}

HoldsGame(s) == starter[s].at \in {"have", "set", "done"}

\* Calls that start the same room work on the Game players reach, unless that was
\* evicted: GetOrCreate never leaves two of them with different Games otherwise.
StartersShareGame ==
  \A s \in Starters : HoldsGame(s) => starter[s].game = listed \/ starter[s].game \in evicted

\* Whichever calls set and initialise engines in whatever order: once none of them
\* is between the two, a Game with an engine has one that was dealt.
EngineIsDealt ==
  \A g \in Games :
    engine[g] # NoGame /\ (\A s \in Starters : starter[s] # [at |-> "set", game |-> g])
      => engine[g] \in dealt

\* Both: the players of a room are brought together in one Game that is dealt.
OneDealtGame == StartersShareGame /\ EngineIsDealt
=============================================================================
