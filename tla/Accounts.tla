------------------------------ MODULE Accounts ------------------------------
(***************************************************************************)
(* The users table and the handlers that write it: logins of every kind,   *)
(* self-service, and administration (controller/user.go, github.go,        *)
(* lark.go, wechat.go, oidc.go, webauthn.go; model/user.go).               *)
(*                                                                         *)
(* Most handlers read a whole user, change one field, and save with        *)
(* User.Update, which writes every field that is not zero: status, role    *)
(* and group of the copy among them.  A session keeps the role of its      *)
(* login; authHelper does not look at the row again.                       *)
(***************************************************************************)
EXTENDS Integers

CONSTANTS Users, Role,   \* Role[u]: the role a user starts with
          UserForms,     \* what the form of UpdateUser may say, a subset of Rows
          NewUsers,      \* the users who have still to register
          Handlers,      \* requests that may be under way at once
          MaxChanges     \* bound: writes by administrators and promotions

RoleCommonUser == 1
RoleReliableUser == 3
RoleAdminUser == 10
RoleRootUser == 100

Roles == {RoleCommonUser, RoleReliableUser, RoleAdminUser, RoleRootUser}

\* The fields of a row that more than one handler writes.
Rows == [status : {"enabled", "disabled"}, role : Roles, group : {"default", "vip"}]

ASSUME AccountsAssumption ==
    /\ Role \in [Users -> Roles] /\ NewUsers \subseteq Users /\ UserForms \subseteq Rows
    /\ 0 \notin Users /\ MaxChanges \in Nat

VARIABLES user,     \* the users table; deleted rows stay, marked
          work,     \* each handler: whom it is about to save, and the copy it has,
                    \* if these fields are among those it saves
          session,  \* the role in each user's session; 0: not logged in
          given,    \* history: the roles each user was given on purpose
          want,     \* history: the row as it was last meant
          overtaken,\* history: the users saved from a copy that was out of date
          changes   \* (bound)

accVars == <<user, work, session, given, want, overtaken, changes>>

\* A new user is enabled, in the default group.
Fresh(role) == [status |-> "enabled", role |-> role, group |-> "default"]

Nothing == [who |-> 0, late |-> FALSE, copy |-> Fresh(RoleCommonUser), whole |-> FALSE, meant |-> FALSE]

AccInit ==
    /\ user = [u \in Users |-> IF u \in NewUsers THEN [Fresh(Role[u]) EXCEPT !.status = "absent"]
                               ELSE Fresh(Role[u])]
    /\ want = user /\ given = [u \in Users |-> {Role[u]}]
    /\ work = [h \in Handlers |-> Nothing]
    /\ session = [u \in Users |-> 0]
    /\ overtaken = {} /\ changes = 0

AccTypeOK ==
    /\ user \in [Users -> [status : {"absent", "enabled", "disabled", "deleted"}, role : Roles, group : {"default", "vip"}]]
    /\ session \in [Users -> Roles \cup {0}]
    /\ overtaken \subseteq Users /\ changes \in 0..MaxChanges

Exists(u) == user[u].status \notin {"absent", "deleted"}

Free(h) == work[h].who = 0

\* Handler h has read u and will save the copy; meant: the request is about what
\* it changed in it.
Begin(h, u, copy, meant) ==
    /\ Free(h) /\ Exists(u)
    /\ work' = [work EXCEPT ![h] = [who |-> u, late |-> FALSE, copy |-> copy, whole |-> TRUE, meant |-> meant]]

-----------------------------------------------------------------------------
(* Registering and logging in *)

\* User.Insert gives status and group their defaults; the name is unique.
Insert(u, role) ==
    /\ user[u].status = "absent"
    /\ user' = [user EXCEPT ![u] = Fresh(role)]
    /\ want' = [want EXCEPT ![u] = Fresh(role)]
    /\ given' = [given EXCEPT ![u] = @ \cup {role}]
    /\ UNCHANGED <<work, session, overtaken, changes>>

Register(u) == Insert(u, RoleCommonUser)

\* The role of the form is tested, and not stored.
CreateUser(a, u) == session[a] >= RoleAdminUser /\ Insert(u, RoleCommonUser)

ValidateAndFill(u) == user[u].status = "enabled"

\* setupLogin up to its Update.
SetupLogin(h, u) ==
    /\ Begin(h, u, user[u], FALSE)
    /\ session[u] = 0
    /\ session' = [session EXCEPT ![u] = user[u].role]
    /\ UNCHANGED <<user, given, want, overtaken, changes>>

Login(h, u) == ValidateAndFill(u) /\ SetupLogin(h, u)

\* By what another service says of the user: who is unknown is registered, by
\* OAuth2 as a reliable user.
GitHubOAuth(h, u) == Insert(u, RoleCommonUser) \/ (user[u].status = "enabled" /\ SetupLogin(h, u))
LarkOAuth(h, u) == Insert(u, RoleCommonUser) \/ (user[u].status = "enabled" /\ SetupLogin(h, u))
OIDCAuth(h, u) == Insert(u, RoleCommonUser) \/ (user[u].status = "enabled" /\ SetupLogin(h, u))
WeChatAuth(h, u) == Insert(u, RoleCommonUser) \/ (user[u].status = "enabled" /\ SetupLogin(h, u))
OAuth2Auth(h, u) == Insert(u, RoleReliableUser) \/ (user[u].status = "enabled" /\ SetupLogin(h, u))

\* By a key the user registered before.
WebauthnFinishLogin(h, u) == user[u].status = "enabled" /\ SetupLogin(h, u)

SignIn(h, u) ==
    \/ Login(h, u) \/ WebauthnFinishLogin(h, u)
    \/ GitHubOAuth(h, u) \/ LarkOAuth(h, u) \/ OIDCAuth(h, u) \/ WeChatAuth(h, u) \/ OAuth2Auth(h, u)

Logout(u) ==
    /\ session[u] # 0
    /\ session' = [session EXCEPT ![u] = 0]
    /\ UNCHANGED <<user, work, given, want, overtaken, changes>>

(* What users do to their own row *)

\* The session names the user; the whole row is read, to be saved.
Touch(h, u) ==
    /\ session[u] # 0
    /\ Begin(h, u, user[u], FALSE)
    /\ UNCHANGED <<user, session, given, want, overtaken, changes>>

EmailBind(h, u) == Touch(h, u)
GenerateAccessToken(h, u) == Touch(h, u)
GetAffCode(h, u) == Touch(h, u)
GitHubBind(h, u) == Touch(h, u)
LarkBind(h, u) == Touch(h, u)
WeChatBind(h, u) == Touch(h, u)
OAuth2Bind(h, u) == Touch(h, u)

OwnRow(h, u) ==
    \/ EmailBind(h, u) \/ GenerateAccessToken(h, u) \/ GetAffCode(h, u)
    \/ GitHubBind(h, u) \/ LarkBind(h, u) \/ WeChatBind(h, u) \/ OAuth2Bind(h, u)

\* The fields that UpdateSelf takes from the form are not among these.
UpdateSelf_Form(h, u) ==   \* Mutant: the user of the form is saved as it came
    /\ session[u] # 0
    /\ \E role \in Roles : Begin(h, u, [user[u] EXCEPT !.role = role], FALSE)
    /\ UNCHANGED <<user, session, given, want, overtaken, changes>>
UpdateSelf(h, u) ==
    /\ session[u] # 0
    /\ Free(h) /\ Exists(u)
    /\ work' = [work EXCEPT ![h] = [Nothing EXCEPT !.who = u]]
    /\ UNCHANGED <<user, session, given, want, overtaken, changes>>

(* What administrators do to the rows of others *)

\* AdminAuth, and the test against the role of the row that was read.
Outranks(a, u) ==
    /\ session[a] >= RoleAdminUser
    /\ session[a] > user[u].role \/ session[a] = RoleRootUser

\* What ManageUser makes of the copy it read.
Managed(a, u, action) ==
    CASE action = "disable" -> [user[u] EXCEPT !.status = "disabled"]
      [] action = "enable" -> [user[u] EXCEPT !.status = "enabled"]
      [] action = "promote" -> [user[u] EXCEPT !.role = RoleAdminUser]
      [] action = "set_reliable" -> [user[u] EXCEPT !.role = RoleReliableUser]
      [] action = "demote" -> [user[u] EXCEPT !.role = RoleCommonUser]

ManageUser(h, a, u) ==
    /\ Exists(u) /\ Outranks(a, u) /\ changes < MaxChanges
    /\ \E action \in {"disable", "enable", "promote", "demote", "set_reliable"} :
          /\ action # "enable" => user[u].role # RoleRootUser
          /\ action = "promote" => session[a] = RoleRootUser
          /\ Begin(h, u, Managed(a, u, action), TRUE)
    /\ changes' = changes + 1
    /\ UNCHANGED <<user, session, given, want, overtaken>>

\* The form carries role, status and group; the row is read for the test only.
UpdateUser(h, a, u) ==
    /\ Exists(u) /\ Outranks(a, u) /\ changes < MaxChanges
    /\ \E form \in UserForms :
          /\ session[a] > form.role \/ session[a] = RoleRootUser
          /\ Begin(h, u, form, TRUE)
    /\ changes' = changes + 1
    /\ UNCHANGED <<user, session, given, want, overtaken>>

\* DeleteUser and the "delete" of ManageUser: a soft delete.
DeleteUser(a, u) ==
    /\ Exists(u) /\ session[a] >= RoleAdminUser /\ session[a] > user[u].role
    /\ changes < MaxChanges /\ changes' = changes + 1
    /\ user' = [user EXCEPT ![u].status = "deleted"]
    /\ want' = [want EXCEPT ![u].status = "deleted"]
    /\ work' = [h \in Handlers |-> [work[h] EXCEPT !.late = @ \/ work[h].who = u]]
    /\ UNCHANGED <<session, given, overtaken>>

\* The write of CheckAndUpgradeUserGroup, a statement about one field.
UpgradeGroup(u) ==
    /\ Exists(u) /\ user[u].group = "default"
    /\ changes < MaxChanges /\ changes' = changes + 1
    /\ LET row == [user[u] EXCEPT !.group = "vip"]
       IN  /\ user' = [user EXCEPT ![u] = row]
           /\ want' = [want EXCEPT ![u].group = "vip"]
    /\ work' = [h \in Handlers |-> [work[h] EXCEPT !.late = @ \/ work[h].who = u]]
    /\ UNCHANGED <<session, given, overtaken>>

\* User.Update; a deleted row is not written.
Save(h) ==
    LET u == work[h].who
        row == IF work[h].whole THEN work[h].copy ELSE user[u]
        changed == Exists(u) /\ row # user[u]
    IN  /\ ~Free(h)
        /\ IF ~Exists(u) THEN UNCHANGED <<user, want, given, overtaken>>
           ELSE /\ user' = [user EXCEPT ![u] = row]
                /\ want' = IF work[h].meant THEN [want EXCEPT ![u] = row] ELSE want
                /\ given' = IF work[h].meant THEN [given EXCEPT ![u] = @ \cup {row.role}] ELSE given
                /\ overtaken' = IF work[h].late /\ changed THEN overtaken \cup {u}
                                ELSE IF work[h].meant THEN overtaken \ {u} ELSE overtaken
        /\ work' = [g \in Handlers |->
                       IF g = h THEN Nothing
                       ELSE [work[g] EXCEPT !.late = @ \/ (changed /\ work[g].who = u)]]
        /\ UNCHANGED <<session, changes>>

AccNext ==
    \/ \E h \in Handlers, u \in Users : SignIn(h, u) \/ OwnRow(h, u) \/ UpdateSelf(h, u)
    \/ \E h \in Handlers, a, u \in Users : ManageUser(h, a, u) \/ UpdateUser(h, a, u)
    \/ \E a, u \in Users : CreateUser(a, u) \/ DeleteUser(a, u)
    \/ \E u \in Users : Register(u) \/ Logout(u) \/ UpgradeGroup(u)
    \/ \E h \in Handlers : Save(h)

AccSpec == AccInit /\ [][AccNext]_accVars

-----------------------------------------------------------------------------
(* Properties *)

\* Status, role and group of a user are what an administrator or an upgrade
\* last made them.  The only handlers to undo that are those that read the row
\* before and save it after: a login that overlaps with the disabling of the
\* user enables him again.  Even then the role is one he was once given.
DecisionsStand ==
    \A u \in Users :
        /\ u \notin overtaken => user[u] = want[u]
        /\ user[u].role \in given[u]
=============================================================================
