------------------------------- MODULE MCWeb -------------------------------
(* The accounts, the profiles and the friends of the web service, the numbers *)
(* that users and messages get, and the stores of the client.  They share no  *)
(* state: a behaviour runs one of them and the others rest.                   *)
EXTENDS Accounts, Profiles, Friends, Snowflake, ClientInbox, TLC

VARIABLE part

NumberedNodes == {"logic", "web"}
NodeNumbers == [n \in NumberedNodes |-> IF n = "logic" THEN 7 ELSE 1]

\* Handlers and devices differ in their names only.
Symm == Permutations(Handlers) \cup Permutations(FriendHandlers) \cup Permutations(Devices)

webVars == <<part, accountsVars, profilesVars, friendsVars, snowflakeVars, inboxVars>>

WebInit ==
  /\ part \in {"accounts", "profiles", "friends", "numbers", "inbox"}
  /\ AccountsInit /\ ProfilesInit /\ FriendsInit /\ SnowflakeInit /\ InboxInit

WebNext ==
  /\ UNCHANGED part
  /\ \/ /\ part = "accounts" /\ AccountsNext
        /\ UNCHANGED <<profilesVars, friendsVars, snowflakeVars, inboxVars>>
     \/ /\ part = "profiles" /\ ProfilesNext
        /\ UNCHANGED <<accountsVars, friendsVars, snowflakeVars, inboxVars>>
     \/ /\ part = "friends" /\ FriendsNext
        /\ UNCHANGED <<accountsVars, profilesVars, snowflakeVars, inboxVars>>
     \/ /\ part = "numbers" /\ SnowflakeNext
        /\ UNCHANGED <<accountsVars, profilesVars, friendsVars, inboxVars>>
     \/ /\ part = "inbox" /\ InboxNext
        /\ UNCHANGED <<accountsVars, profilesVars, friendsVars, snowflakeVars>>

WebSpec == WebInit /\ [][WebNext]_webVars

\* The types of the five parts, with one row of users per name.
WebTypeOK ==
  AccountsTypeOK /\ ProfilesTypeOK /\ FriendsTypeOK /\ SnowflakeTypeOK /\ InboxTypeOK

\* The tokens Redis takes for good are the last of each user and platform and
\* were not logged out (service/auth.go, middleware/auth.go); the fields of a row
\* are as last asked for and what a room shows of a user does not go back to an
\* older profile (service/user.go, repository/token.go:139).  Steps of handlers on
\* PostgreSQL and Redis interleave, and logins of one user, or changes of one
\* profile, that overlap are excepted.
AccountsSound == GoodTokens /\ ProfilesKept
=============================================================================
