------------------------------- MODULE Accounts -------------------------------
(***************************************************************************)
(* Accounts and access tokens of web-go: the user table in PostgreSQL and  *)
(* the two keys in Redis that make a token good, user:token:{user}:        *)
(* {platform} -> token and token:info:{token} -> who it is.  An HTTP       *)
(* handler is a sequence of database and Redis calls, and the handlers of  *)
(* several requests interleave between any two of them.  Wrong passwords   *)
(* and disabled users change nothing and are left out, as is the refresh   *)
(* token, which no route takes.  The users' profiles are in Profiles.      *)
(***************************************************************************)
EXTENDS Integers, FiniteSets, Functions

CONSTANTS
  None,
  Names,              \* user names; a name stands for its user too
  Platforms, Devices,
  Handlers,           \* HTTP requests that may be under way at once
  AccessExpire,       \* lifetime of an access token, in seconds
  AutoRenewThreshold, \* what is left of it when a request renews the keys
  MaxTime             \* bound on the clock

ASSUME AccessExpireAssumption == AccessExpire \in Nat \ {0}
ASSUME AutoRenewAssumption == AutoRenewThreshold \in Nat
ASSUME AccountsTimeAssumption == MaxTime \in Nat

VARIABLES
  now,         \* seconds
  accounts,    \* per name the number of rows of users
  userToken,   \* user:token:*, per name and platform [token, exp] or None
  tokenInfo,   \* token:info:*, the tokens Redis knows with their expiry
  handler,     \* per handler what it does and what it has read
  loggedOut,   \* tokens whose Logout has succeeded and that no Login gave since
  overlapped   \* <<name, platform>> for which two Logins were under way at once

accountsVars == <<now, accounts, userToken, tokenInfo, handler, loggedOut, overlapped>>

\* A JWT of GenerateTokenPair: two of one device and one second are the same
\* text.
Tokens == [name : Names, platform : Platforms, device : Devices, iat : 0 .. MaxTime]

ASSUME AccountsNoneAssumption == None \notin [token : Tokens, exp : Nat]

Idle == [pc |-> "idle"]

AccountsInit ==
  /\ now = 0
  /\ accounts = [n \in Names |-> 0]
  /\ userToken = [k \in Names \X Platforms |-> None]
  /\ tokenInfo = [t \in {} |-> 0]
  /\ handler = [h \in Handlers |-> Idle]
  /\ loggedOut = {} /\ overlapped = {}

\* The step of a handler; what it logs out is remembered while a request
\* with that token is under way, which is how it could come back.
Step(h, r, out) ==
  /\ handler' = [handler EXCEPT ![h] = r]
  /\ loggedOut' = {t \in loggedOut \cup out :
                    \E g \in Handlers : handler'[g].pc \in {"renew", "logout"} /\ handler'[g].token = t}

Goes(h, r) == Step(h, r, {})
Key(t) == <<t.name, t.platform>>

(* ----- register ----- *)

\* Mutant: the column is not unique.
Bug_Create(n) == accounts' = [accounts EXCEPT ![n] = @ + 1]

\* The INSERT; users.username is UNIQUE, so a second row is an error.
Create(n) == accounts' = [accounts EXCEPT ![n] = 1]

ExistsByUsername(n) == accounts[n] > 0

\* The request is well-formed, and the name is free.
RegisterCheck(h) ==
  /\ handler[h].pc = "idle"
  /\ \E n \in Names : ~ExistsByUsername(n) /\ Goes(h, [pc |-> "create", name |-> n])
  /\ UNCHANGED <<now, accounts, userToken, tokenInfo, overlapped>>

RegisterCreate(h) ==
  /\ handler[h].pc = "create"
  /\ Create(handler[h].name)
  /\ Goes(h, Idle)
  /\ UNCHANGED <<now, userToken, tokenInfo, overlapped>>

(* ----- login ----- *)

\* GetByUsername and the checks, then GenerateTokenPair.
LoginCheck(h) ==
  /\ handler[h].pc = "idle"
  /\ \E n \in Names, p \in Platforms, d \in Devices :
       LET t == [name |-> n, platform |-> p, device |-> d, iat |-> now]
       IN /\ accounts[n] > 0
          /\ Goes(h, [pc |-> "getOld", token |-> t])
          /\ overlapped' = IF \E g \in Handlers :
                                /\ handler[g].pc \in {"getOld", "delOld", "save"}
                                /\ Key(handler[g].token) = Key(t)
                           THEN overlapped \cup {Key(t)}
                           ELSE overlapped
  /\ UNCHANGED <<now, accounts, userToken, tokenInfo>>

\* DeleteOldToken, the GET.
GetOldToken(h) ==
  /\ handler[h].pc = "getOld"
  /\ LET old == userToken[Key(handler[h].token)]
     IN Goes(h, IF old = None
                THEN [pc |-> "save", token |-> handler[h].token]
                ELSE [pc |-> "delOld", token |-> handler[h].token, old |-> old.token])
  /\ UNCHANGED <<now, accounts, userToken, tokenInfo, overlapped>>

\* DeleteOldToken, the DEL.
DeleteOldToken(h) ==
  /\ handler[h].pc = "delOld"
  /\ tokenInfo' = Restrict(tokenInfo, DOMAIN tokenInfo \ {handler[h].old})
  /\ Goes(h, [pc |-> "save", token |-> handler[h].token])
  /\ UNCHANGED <<now, accounts, userToken, overlapped>>

\* SaveToken: a pipeline of two SETs, here one step; what another client or an
\* expiry does between the two is left out.
SaveToken(h) ==
  /\ handler[h].pc = "save"
  /\ LET t == handler[h].token
         exp == now + AccessExpire
     IN /\ userToken' = [userToken EXCEPT ![Key(t)] = [token |-> t, exp |-> exp]]
        /\ tokenInfo' = [s \in DOMAIN tokenInfo \cup {t} |-> IF s = t THEN exp ELSE tokenInfo[s]]
        /\ loggedOut' = loggedOut \ {t}
  /\ handler' = [handler EXCEPT ![h] = Idle]
  /\ UNCHANGED <<now, accounts, overlapped>>

(* ----- authenticated requests ----- *)

\* TokenAuth renews when the JWT itself, whose expiry never moves, is about to
\* expire.
Renews(t) ==
  LET remaining == t.iat + AccessExpire - now
  IN remaining > 0 /\ remaining < AutoRenewThreshold

\* The tokens Redis knows, with their user, platform and device.
GetUserInfoByToken == DOMAIN tokenInfo

\* TokenAuth finds the token; of the requests only Logout and one that renews
\* do anything here.
TokenAuth(h) ==
  /\ handler[h].pc = "idle"
  /\ \E t \in GetUserInfoByToken, logout \in BOOLEAN :
       /\ logout \/ Renews(t)
       /\ Goes(h, [pc |-> IF Renews(t) THEN "renew" ELSE "logout", token |-> t, logout |-> logout])
  /\ UNCHANGED <<now, accounts, userToken, tokenInfo, overlapped>>

Handled(h) == IF handler[h].logout THEN [handler[h] EXCEPT !.pc = "logout"] ELSE Idle

\* Mutant: the key is written again instead of its expiry.
Bug_SetAgain(t) ==
  /\ tokenInfo' = [s \in DOMAIN tokenInfo \cup {t} |->
                     IF s = t THEN now + AccessExpire ELSE tokenInfo[s]]
  /\ UNCHANGED userToken

\* EXPIRE of both keys, whichever token user:token names by now; of a key that
\* is gone it does nothing.  The two commands of the pipeline are one step, too.
RefreshTokenExpire(t) ==
  /\ userToken' = [userToken EXCEPT ![Key(t)] =
                     IF @ = None THEN None ELSE [@ EXCEPT !.exp = now + AccessExpire]]
  /\ tokenInfo' = [s \in DOMAIN tokenInfo |-> IF s = t THEN now + AccessExpire ELSE tokenInfo[s]]

Renew(h) ==
  /\ handler[h].pc = "renew"
  /\ RefreshTokenExpire(handler[h].token)
  /\ Goes(h, Handled(h))
  /\ UNCHANGED <<now, accounts, overlapped>>

\* DeleteToken: user:token stays.
Logout(h) ==
  /\ handler[h].pc = "logout"
  /\ tokenInfo' = Restrict(tokenInfo, DOMAIN tokenInfo \ {handler[h].token})
  /\ Step(h, Idle, {handler[h].token})
  /\ UNCHANGED <<now, accounts, userToken, overlapped>>

(* ----- failures and time ----- *)

\* A database or Redis call fails and the handler answers with an error; what
\* it has already done stays.  A failed renewal is ignored.
Fail(h) ==
  /\ handler[h].pc # "idle"
  /\ Goes(h, IF handler[h].pc = "renew" THEN Handled(h) ELSE Idle)
  /\ UNCHANGED <<now, accounts, userToken, tokenInfo, overlapped>>

\* Redis drops keys as they expire.
Tick ==
  /\ now < MaxTime
  /\ now' = now + 1
  /\ userToken' = [k \in DOMAIN userToken |->
                     IF userToken[k] # None /\ userToken[k].exp <= now + 1
                     THEN None ELSE userToken[k]]
  /\ tokenInfo' = Restrict(tokenInfo, {t \in DOMAIN tokenInfo : tokenInfo[t] > now + 1})
  /\ UNCHANGED <<accounts, handler, loggedOut, overlapped>>

AccountsNext ==
  \/ Tick
  \/ \E h \in Handlers :
       \/ RegisterCheck(h) \/ RegisterCreate(h)
       \/ LoginCheck(h) \/ GetOldToken(h) \/ DeleteOldToken(h) \/ SaveToken(h)
       \/ TokenAuth(h) \/ Renew(h) \/ Logout(h)
       \/ Fail(h)

AccountsSpec == AccountsInit /\ [][AccountsNext]_accountsVars

(* ----- properties ----- *)

\* Types, and no name has two rows although Register looks first and inserts
\* later (service/auth.go Register).
AccountsTypeOK ==
  /\ now \in 0 .. MaxTime
  /\ accounts \in [Names -> 0 .. 1]
  /\ DOMAIN userToken = Names \X Platforms
  /\ \A k \in DOMAIN userToken : userToken[k] # None =>
       userToken[k].token \in Tokens /\ Key(userToken[k].token) = k
  /\ DOMAIN tokenInfo \subseteq Tokens
  /\ \A t \in DOMAIN tokenInfo : tokenInfo[t] \in now + 1 .. now + AccessExpire
  /\ loggedOut \subseteq Tokens
  /\ overlapped \subseteq Names \X Platforms

\* A good token is the one user:token names, so the next login finds it and
\* there is one per user and platform, as Login means it ("同一用户同一平台只保留
\* 一个Token"), however logins, renewals, logouts, failures and expiry
\* interleave; two logins at once for one user and platform are excepted, they
\* both leave a good token.  And a token that was logged out stays refused, also
\* when another request with it had passed the check before (middleware/auth.go
\* renews after it has read).
GoodTokens ==
  /\ \A t \in DOMAIN tokenInfo :
       Key(t) \in overlapped \/ (userToken[Key(t)] # None /\ userToken[Key(t)].token = t)
  /\ loggedOut \cap DOMAIN tokenInfo = {}
===============================================================================
