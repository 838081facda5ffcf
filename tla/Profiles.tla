------------------------------- MODULE Profiles -------------------------------
(***************************************************************************)
(* The profiles of users in web-go: nickname and avatar, in the user's row *)
(* and once more in Redis as user:info, from where logic takes what it     *)
(* shows to the others in a room.  UpdateProfile reads the row, changes    *)
(* the fields the request names and writes the row; Register and Login     *)
(* write user:info some time after they have written or read the row, and  *)
(* nothing else does, so that a room shows what UpdateProfile changed only *)
(* after the next login.  What Login does with tokens in between is in     *)
(* module Accounts.                                                        *)
(***************************************************************************)
EXTENDS Naturals, Sequences

CONSTANTS
  ProfileUsers,
  ProfileHandlers, \* HTTP requests that may be under way at once
  NoProfile,       \* no row, no key
  MaxLogins,       \* bound on the logins
  MaxEdits         \* bound on the changes of profiles

ASSUME NoProfileAssumption == NoProfile \notin [{"nickname", "avatar"} -> Nat]
ASSUME MaxEditsAssumption == MaxEdits \in Nat
ASSUME MaxLoginsAssumption == MaxLogins \in Nat

VARIABLES
  profile,     \* per user the profile of the row of users, or NoProfile; a
               \* field's value is the number of the change that set it
  userInfo,    \* user:info, per user a profile or NoProfile
  profileHandler, \* per handler what it does and what it has read
  logins, edits,
  asked,       \* ghost: per user and field the last change that named it
  had,         \* ghost: per user the profiles the row has had, in order
  mixed,       \* ghost: users for whom two UpdateProfiles were under way at once
  newest,      \* ghost: per user the place in had of the newest profile that was
               \* saved to user:info, or 0
  loginsRaced  \* ghost: users for whom two were under way at once that had read the
               \* row to save it there

profilesVars ==
  <<profile, userInfo, profileHandler, logins, edits, asked, had, mixed, newest, loginsRaced>>

Fields == {"nickname", "avatar"}
Profile == [Fields -> 0 .. MaxEdits]
FirstProfile == [f \in Fields |-> 0]
NoRequest == [pc |-> "idle"]

ProfilesInit ==
  /\ profile = [u \in ProfileUsers |-> NoProfile] /\ userInfo = profile
  /\ profileHandler = [h \in ProfileHandlers |-> NoRequest]
  /\ logins = 0 /\ edits = 0
  /\ asked = [u \in ProfileUsers |-> FirstProfile]
  /\ had = [u \in ProfileUsers |-> <<>>]
  /\ newest = [u \in ProfileUsers |-> 0]
  /\ mixed = {} /\ loginsRaced = {}

HandlerGoes(h, r) == profileHandler' = [profileHandler EXCEPT ![h] = r]
Saving(u, p, n) == [pc |-> "saveInfo", user |-> u, read |-> p, at |-> n]
Saves(u) ==
  {h \in ProfileHandlers : profileHandler[h].pc = "saveInfo" /\ profileHandler[h].user = u}

\* SELECT by name and by ID.
GetByUsername(u) == profile[u]
GetByID(u) == profile[u]

\* Register, once the name is found free: the INSERT.
CreateUser(h) ==
  /\ profileHandler[h] = NoRequest
  /\ \E u \in ProfileUsers :
       /\ GetByUsername(u) = NoProfile
       /\ profile' = [profile EXCEPT ![u] = FirstProfile]
       /\ had' = [had EXCEPT ![u] = <<FirstProfile>>]
       /\ HandlerGoes(h, Saving(u, FirstProfile, 1))
  /\ UNCHANGED <<userInfo, logins, edits, asked, mixed, newest, loginsRaced>>

\* Login reads the row.
ReadAtLogin(h) ==
  /\ profileHandler[h] = NoRequest
  /\ logins < MaxLogins /\ logins' = logins + 1
  /\ \E u \in ProfileUsers :
       /\ GetByUsername(u) # NoProfile
       /\ HandlerGoes(h, Saving(u, GetByUsername(u), Len(had[u])))
       /\ loginsRaced' = IF Saves(u) # {} THEN loginsRaced \cup {u} ELSE loginsRaced
  /\ UNCHANGED <<profile, userInfo, edits, asked, had, mixed, newest>>

\* The end of Register and of Login: a SET without expiry of what it has in hand.
SaveUserInfo(h) ==
  /\ profileHandler[h].pc = "saveInfo"
  /\ LET u == profileHandler[h].user
         n == profileHandler[h].at
     IN /\ userInfo' = [userInfo EXCEPT ![u] = profileHandler[h].read]
        /\ newest' = [newest EXCEPT ![u] = IF n > @ THEN n ELSE @]
  /\ HandlerGoes(h, NoRequest)
  /\ UNCHANGED <<profile, logins, edits, asked, had, mixed, loginsRaced>>

Updating(u) ==
  {h \in ProfileHandlers : profileHandler[h].pc = "update" /\ profileHandler[h].user = u}

\* UpdateProfile reads the row; a field that is empty in the request is left out.
UpdateProfile(h) ==
  /\ profileHandler[h] = NoRequest
  /\ \E u \in ProfileUsers, fields \in SUBSET Fields :
       /\ GetByID(u) # NoProfile
       /\ HandlerGoes(h, [pc |-> "update", user |-> u, read |-> GetByID(u), fields |-> fields])
       /\ mixed' = IF Updating(u) # {} THEN mixed \cup {u} ELSE mixed
  /\ UNCHANGED <<profile, userInfo, logins, edits, asked, had, newest, loginsRaced>>

\* The fields of the request over those of p.
Over(h, p) == [f \in Fields |-> IF f \in profileHandler[h].fields THEN edits + 1 ELSE p[f]]

\* Mutant: a field that is left out is emptied.
Bug_Updated(h) == Over(h, FirstProfile)

Updated(h) == Over(h, profileHandler[h].read)

\* The UPDATE of both columns.
Update(h) ==
  /\ profileHandler[h].pc = "update" /\ edits < MaxEdits
  /\ LET u == profileHandler[h].user
     IN /\ profile' = [profile EXCEPT ![u] = Updated(h)]
        /\ had' = [had EXCEPT ![u] = Append(@, Updated(h))]
        /\ asked' = [asked EXCEPT ![u] = Over(h, @)]
  /\ edits' = edits + 1
  /\ HandlerGoes(h, NoRequest)
  /\ UNCHANGED <<userInfo, logins, mixed, newest, loginsRaced>>

\* A database or Redis call fails, or Login does not get to its end.
RequestFails(h) ==
  /\ profileHandler[h] # NoRequest
  /\ HandlerGoes(h, NoRequest)
  /\ UNCHANGED <<profile, userInfo, logins, edits, asked, had, mixed, newest, loginsRaced>>

ProfilesNext ==
  \E h \in ProfileHandlers :
    \/ CreateUser(h) \/ ReadAtLogin(h) \/ SaveUserInfo(h)
    \/ UpdateProfile(h) \/ Update(h) \/ RequestFails(h)

ProfilesSpec == ProfilesInit /\ [][ProfilesNext]_profilesVars

(* ----- properties ----- *)

ProfilesTypeOK ==
  /\ profile \in [ProfileUsers -> Profile \cup {NoProfile}]
  /\ userInfo \in [ProfileUsers -> Profile \cup {NoProfile}]
  /\ asked \in [ProfileUsers -> Profile]
  /\ logins \in 0 .. MaxLogins /\ edits \in 0 .. MaxEdits
  /\ mixed \subseteq ProfileUsers /\ loginsRaced \subseteq ProfileUsers

\* What logic's getUserInfo shows of a user, and of one without user:info: a name
\* made of the number.
GetUserInfo(u) == IF userInfo[u] = NoProfile THEN {} ELSE {userInfo[u]}

\* A room shows nothing of u before a first registration or login is through;
\* then it shows a profile that u's row has had, whole, which is the newest of
\* those that were saved unless two logins were under way at once.
Shown(u) ==
  /\ newest[u] = 0 => GetUserInfo(u) = {}
  /\ newest[u] > 0 => \E n \in 1 .. newest[u] :
       GetUserInfo(u) = {had[u][n]} /\ (n = newest[u] \/ u \in loginsRaced)

\* A field of a profile stays as the last request that named it asked, although
\* UpdateProfile writes back all it has read (service/user.go), unless two of them
\* were under way at once.  And what a room shows of a user never goes back from a
\* profile to an older one, unless two logins (or one and the registration) that
\* have read the row overlap.  It may be older than the row, by all that was changed
\* since the last login: UpdateProfile leaves user:info alone (service/user.go:45).
ProfilesKept ==
  \A u \in ProfileUsers :
    /\ profile[u] # NoProfile => u \in mixed \/ profile[u] = asked[u]
    /\ Shown(u)
===============================================================================
