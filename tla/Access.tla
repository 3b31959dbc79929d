------------------------------- MODULE Access -------------------------------
(***************************************************************************)
(* Who may do what: accounts, sessions, API tokens and mailed links        *)
(* (internal/auth), workspaces and their members (internal/projects), and  *)
(* the permission matrix (internal/policy).                                *)
(*                                                                         *)
(* A request reads what it needs, then writes in one transaction; between  *)
(* the two anything may happen.  The requests in flight occupy slots: the  *)
(* operations whose reads matter take one, the others are one action.      *)
(***************************************************************************)
EXTENDS Naturals

CONSTANTS
    Users,       \* email addresses, each the account it may become
    Workspaces,  \* workspace ids
    CredIds,     \* sessions and API tokens
    LinkIds,     \* user_tokens: mailed links
    Slots,       \* requests that may be in flight at once
    Roles,       \* the roles considered
    Settings     \* the values of the two registration switches considered

Nobody == "nobody"
Nothing == 0

ASSUME AccessAssumption ==
    /\ Settings \subseteq BOOLEAN \X BOOLEAN
    /\ "owner" \in Roles /\ Roles \subseteq {"owner", "admin", "member", "viewer"}
    /\ Nobody \notin Users
    /\ Nothing \notin Workspaces \cup LinkIds \cup Slots
    /\ Workspaces \cup LinkIds \subseteq Nat

VARIABLES
    open,      \* PLORIGO_ALLOW_OPEN_REGISTRATION
    strict,    \* PLORIGO_REQUIRE_EMAIL_VERIFICATION
    account,   \* users: whether the row exists, and email_verified
    cred,      \* sessions and api_tokens
    link,      \* user_tokens
    creator,   \* the user who created a workspace, Nobody without a row
    member,    \* workspace_members.role
    lock,      \* the slot that holds the registration lock
    call       \* the requests in flight

config == <<open, strict>>
vars == <<config, account, cred, link, creator, member, lock, call>>

-----------------------------------------------------------------------------

\* Permissions: the matrix, for the actions this module has.
Permissions == [owner |-> {"invite", "remove", "change"}, admin |-> {"invite", "remove"},
                member |-> {}, viewer |-> {}]

\* GetMembershipRole: "none" when the user has no row.
RoleForUser(u, w) == member[w][u]

\* Authorize: a missing membership denies.
Authorize(u, action, w) ==
    LET role == RoleForUser(u, w) IN role # "none" /\ action \in Permissions[role]

\* A session's row, or an API token's.  One that has ended gives its id to a later one.
Cred == [kind : {"none", "session", "api"}, user : Users \cup {Nobody}]
NoCred == [kind |-> "none", user |-> Nobody]

\* A link, until it has been consumed or has expired.
Link == [purpose : {"none", "email_verify", "password_reset", "consumed", "expired"},
         user : Users \cup {Nobody}]
NoLink == [purpose |-> "none", user |-> Nobody]
Consumed == [purpose |-> "consumed", user |-> Nobody]
Expired == [purpose |-> "expired", user |-> Nobody]

\* A request after its reads: the account it is about, and what it is going to write.
Call == [op : {"idle", "register", "mail", "login", "reset", "change", "remove"},
         who : Users \cup {Nobody}, ws : Workspaces \cup {Nothing},
         role : Roles \cup {"none"}, no : Nat]
Idle == [op |-> "idle", who |-> Nobody, ws |-> Nothing, role |-> "none", no |-> 0]

TypeOK ==
    /\ open \in BOOLEAN /\ strict \in BOOLEAN
    /\ account \in [Users -> [row : BOOLEAN, verified : BOOLEAN]]
    /\ cred \in [CredIds -> Cred]
    /\ link \in [LinkIds -> Link]
    /\ creator \in [Workspaces -> Users \cup {Nobody}]
    /\ member \in [Workspaces -> [Users -> Roles \cup {"none"}]]
    /\ lock \in Slots \cup {Nothing}
    /\ call \in [Slots -> Call]

Init ==
    /\ \E set \in Settings : open = set[1] /\ strict = set[2]
    /\ account = [u \in Users |-> [row |-> FALSE, verified |-> FALSE]]
    /\ cred = [k \in CredIds |-> NoCred]
    /\ link = [l \in LinkIds |-> NoLink]
    /\ creator = [w \in Workspaces |-> Nobody]
    /\ member = [w \in Workspaces |-> [u \in Users |-> "none"]]
    /\ lock = Nothing
    /\ call = [c \in Slots |-> Idle]

\* Links and workspaces take the ids in order.
Fresh(k) == cred[k] = NoCred
FreshLink(l) == link[l] = NoLink /\ \A j \in LinkIds : j < l => link[j] # NoLink
FreshWorkspace(w) == creator[w] = Nobody /\ \A v \in Workspaces : v < w => creator[v] # Nobody

Begin(c, op, u, w, r, n) ==
    /\ call[c] = Idle
    /\ call' = [call EXCEPT ![c] = [op |-> op, who |-> u, ws |-> w, role |-> r, no |-> n]]
End(c) == call' = [call EXCEPT ![c] = Idle]

\* The row a cookie or a bearer token names, when it is neither revoked nor expired.
ResolveSession(k, u) == cred[k].kind = "session" /\ cred[k].user = u
ResolveAPIToken(k, u) == cred[k].kind = "api" /\ cred[k].user = u

\* The interceptor: the principal of a request.
CallerIs(k, u) == ResolveSession(k, u) \/ ResolveAPIToken(k, u)

-----------------------------------------------------------------------------
(* Workspaces *)

InsertWorkspace(w, u) ==
    /\ FreshWorkspace(w)
    /\ creator' = [creator EXCEPT ![w] = u]

\* createWorkspaceTx: the workspace and its owner, in the caller's transaction.
CreateWorkspaceTx(w, u) ==
    /\ InsertWorkspace(w, u)
    /\ member' = [member EXCEPT ![w][u] = "owner"]

CreateWorkspace(k, u, w) ==
    /\ CallerIs(k, u)
    /\ CreateWorkspaceTx(w, u)
    /\ UNCHANGED <<config, account, cred, link, lock, call>>

\* Mutant: the role is left to the column's default, which it does not have.
MutantAddMember(w, t, r) ==
    member' = [member EXCEPT ![w][t] = IF @ = "none" THEN "" ELSE @]

\* AddMember: the table's primary key refuses a second row of the user.
AddMember(w, t, r) ==
    member' = [member EXCEPT ![w][t] = IF @ = "none" THEN r ELSE @]

\* InviteMember: checked, the invited account looked up, and added; never as an owner.
InviteMember(k, u, w, t, r) ==
    /\ CallerIs(k, u) /\ Authorize(u, "invite", w)
    /\ r # "owner"
    /\ account[t].row
    /\ AddMember(w, t, r)
    /\ UNCHANGED <<config, account, cred, link, creator, lock, call>>

\* Mutant: an owner may be demoted like anyone else.
MutantMayChange(w, t, r) == member[w][t] # "none"

\* ChangeMemberRole reads the target's role first: a member, and no owner to demote.
MayChange(w, t, r) == member[w][t] # "none" /\ (member[w][t] = "owner" => r = "owner")

ChangeMemberRole(c, k, u, w, t, r) ==
    /\ CallerIs(k, u) /\ Authorize(u, "change", w)
    /\ MayChange(w, t, r)
    /\ Begin(c, "change", t, w, r, 0)
    /\ UNCHANGED <<config, account, cred, link, creator, member, lock>>

\* Mutant: the role is upserted.
MutantUpdateMemberRole(c) ==
    /\ call[c].op = "change"
    /\ member' = [member EXCEPT ![call[c].ws][call[c].who] = call[c].role]
    /\ End(c)
    /\ UNCHANGED <<config, account, cred, link, creator, lock>>

\* UpdateMemberRole matches no row when the member is gone meanwhile.
UpdateMemberRole(c) ==
    /\ call[c].op = "change"
    /\ member' = [member EXCEPT ![call[c].ws][call[c].who] =
                      IF @ = "none" THEN @ ELSE call[c].role]
    /\ End(c)
    /\ UNCHANGED <<config, account, cred, link, creator, lock>>

RemoveMember(c, k, u, w, t) ==
    /\ CallerIs(k, u) /\ Authorize(u, "remove", w)
    /\ member[w][t] \notin {"none", "owner"}
    /\ Begin(c, "remove", t, w, "none", 0)
    /\ UNCHANGED <<config, account, cred, link, creator, member, lock>>

DeleteMember(c) ==
    /\ call[c].op = "remove"
    /\ member' = [member EXCEPT ![call[c].ws][call[c].who] = "none"]
    /\ End(c)
    /\ UNCHANGED <<config, account, cred, link, creator, lock>>

-----------------------------------------------------------------------------
(* Accounts *)

\* CountUsers = 0.
NoUsers == \A v \in Users : ~account[v].row

\* pg_advisory_xact_lock: waits for the transaction that has it, which frees it at its end.
AcquireRegistrationLock(c) == lock = Nothing /\ lock' = c

\* Mutant: the users are counted without the lock.
MutantRegister(c, u) ==
    /\ Begin(c, "register", u, Nothing, "none", 0)
    /\ open \/ NoUsers
    /\ UNCHANGED <<config, account, cred, link, creator, member, lock>>

\* Register's transaction up to the insert: with registration closed it takes the lock
\* and counts the users under it.
Register(c, u) ==
    /\ Begin(c, "register", u, Nothing, "none", 0)
    /\ \/ open /\ UNCHANGED lock
       \/ ~open /\ AcquireRegistrationLock(c) /\ NoUsers
    /\ UNCHANGED <<config, account, cred, link, creator, member>>

InsertUser(u) ==
    /\ ~account[u].row
    /\ account' = [account EXCEPT ![u].row = TRUE]

\* The user and the personal workspace, and the commit, which frees the lock; an
\* address that is taken, or any error, rolls everything back.  In strict mode the new
\* account's verification mail follows.
CreateUser(c) ==
    LET u == call[c].who
    IN  /\ call[c].op = "register"
        /\ \/ /\ InsertUser(u)
              /\ \E w \in Workspaces : CreateWorkspaceTx(w, u)
              /\ IF strict THEN call' = [call EXCEPT ![c].op = "mail"] ELSE End(c)
           \/ End(c) /\ UNCHANGED <<account, creator, member>>
        /\ lock' = IF lock = c THEN Nothing ELSE lock
        /\ UNCHANGED <<config, cred, link>>

NewLink(l, u, purpose) ==
    /\ FreshLink(l) /\ account[u].row
    /\ link' = [link EXCEPT ![l] = [purpose |-> purpose, user |-> u]]
    /\ UNCHANGED <<config, account, cred, creator, member, lock>>

IssueVerification(l, u) ==
    /\ ~account[u].verified
    /\ NewLink(l, u, "email_verify")

\* After the registration, in a transaction of its own that may fail unnoticed.
MaybeSendVerification(c) ==
    /\ call[c].op = "mail"
    /\ \/ \E l \in LinkIds : IssueVerification(l, call[c].who)
       \/ UNCHANGED <<config, account, cred, link, creator, member, lock>>
    /\ End(c)

\* For a caller who is signed in.
RequestEmailVerification(l, k, u) ==
    CallerIs(k, u) /\ IssueVerification(l, u) /\ UNCHANGED call

RequestPasswordReset(l, u) == NewLink(l, u, "password_reset") /\ UNCHANGED call

\* The link expires (resetTTL, verifyTTL).
ExpireLink(l) ==
    /\ link[l] \notin {NoLink, Consumed, Expired}
    /\ link' = [link EXCEPT ![l] = Expired]
    /\ UNCHANGED <<config, account, cred, creator, member, lock, call>>

\* GetUserToken: neither consumed nor expired, and of the purpose asked for.
GetUserToken(l, purpose) == link[l].purpose = purpose

ResetPassword(c, l) ==
    /\ GetUserToken(l, "password_reset")
    /\ Begin(c, "reset", link[l].user, Nothing, "none", l)
    /\ UNCHANGED <<config, account, cred, link, creator, member, lock>>

\* ConsumeUserToken looks at neither consumed_at nor expires_at.
Consume(l) == link' = [link EXCEPT ![l] = Consumed]

\* The user's sessions; the API tokens stay.
RevokeAllSessions(u) ==
    cred' = [k \in CredIds |-> IF ResolveSession(k, u) THEN NoCred ELSE cred[k]]

\* ResetPassword's transaction: SetPassword, ConsumeUserToken, RevokeAllSessions.
SetPassword(c) ==
    /\ call[c].op = "reset"
    /\ Consume(call[c].no)
    /\ RevokeAllSessions(call[c].who)
    /\ End(c)
    /\ UNCHANGED <<config, account, creator, member, lock>>

SetEmailVerified(u) == account' = [account EXCEPT ![u].verified = TRUE]

\* VerifyEmail: SetEmailVerified and ConsumeUserToken.
VerifyEmail(l) ==
    /\ GetUserToken(l, "email_verify")
    /\ SetEmailVerified(link[l].user)
    /\ Consume(l)
    /\ UNCHANGED <<config, cred, creator, member, lock, call>>

-----------------------------------------------------------------------------
(* Sessions and API tokens *)

\* Login with the right password, up to its transaction.
Login(c, u) ==
    /\ account[u].row
    /\ strict => account[u].verified
    /\ Begin(c, "login", u, Nothing, "none", 0)
    /\ UNCHANGED <<config, account, cred, link, creator, member, lock>>

\* CreateSession looks at the account no more: the password may have been reset, and the
\* sessions of the time revoked, since it was checked.
CreateSession(c, k) ==
    /\ call[c].op = "login" /\ Fresh(k)
    /\ cred' = [cred EXCEPT ![k] = [kind |-> "session", user |-> call[c].who]]
    /\ End(c)
    /\ UNCHANGED <<config, account, link, creator, member, lock>>

InsertAPIToken(k, u) ==
    /\ Fresh(k)
    /\ cred' = [cred EXCEPT ![k] = [kind |-> "api", user |-> u]]

\* CreateAPIToken: a reset leaves it alone.
CreateAPIToken(j, u, k) ==
    /\ CallerIs(j, u)
    /\ InsertAPIToken(k, u)
    /\ UNCHANGED <<config, account, link, creator, member, lock, call>>

Revoke(k) ==
    /\ cred' = [cred EXCEPT ![k] = NoCred]
    /\ UNCHANGED <<config, account, link, creator, member, lock, call>>

\* Logout, or the session's absolute expiry.
Logout(k) == cred[k].kind = "session" /\ Revoke(k)

\* RevokeAPIToken: only its owner's.
RevokeAPIToken(j, u, k) == CallerIs(j, u) /\ ResolveAPIToken(k, u) /\ Revoke(k)

-----------------------------------------------------------------------------
Public(c) ==
    \/ \E u \in Users : Register(c, u) \/ Login(c, u)
    \/ CreateUser(c) \/ MaybeSendVerification(c)
    \/ \E l \in LinkIds : ResetPassword(c, l)
    \/ SetPassword(c)
    \/ \E k \in CredIds : CreateSession(c, k)

Members(c) ==
    \/ \E k \in CredIds, u, t \in Users, w \in Workspaces :
           \/ RemoveMember(c, k, u, w, t)
           \/ \E r \in Roles : ChangeMemberRole(c, k, u, w, t, r)
    \/ UpdateMemberRole(c) \/ DeleteMember(c)

Next ==
    \/ \E c \in Slots : Public(c) \/ Members(c)
    \/ \E l \in LinkIds, u \in Users :
           \/ RequestPasswordReset(l, u)
           \/ \E k \in CredIds : RequestEmailVerification(l, k, u)
    \/ \E l \in LinkIds : VerifyEmail(l) \/ ExpireLink(l)
    \/ \E j, k \in CredIds, u \in Users : CreateAPIToken(j, u, k) \/ RevokeAPIToken(j, u, k)
    \/ \E k \in CredIds : Logout(k)
    \/ \E k \in CredIds, u \in Users, w \in Workspaces :
           \/ CreateWorkspace(k, u, w)
           \/ \E t \in Users, r \in Roles : InviteMember(k, u, w, t, r)

Spec == Init /\ [][Next]_vars

-----------------------------------------------------------------------------
(* Properties *)

\* Closed registration admits the first user and nobody else, however many first
\* registrations run at once: the count is taken under the lock that the commit frees.
OneBootstrap ==
    ~open => \A u, v \in Users : account[u].row /\ account[v].row => u = v

\* Nobody is locked out: every account has created a workspace, and a workspace's
\* creator is its owner for ever.  The owner check of ChangeMemberRole and RemoveMember
\* is made before their transactions, but the creator was an owner all the time.
AlwaysOwned ==
    /\ \A w \in Workspaces : creator[w] # Nobody => member[w][creator[w]] = "owner"
    /\ \A u \in Users : account[u].row => \E w \in Workspaces : creator[w] = u

\* Who is not a member of a workspace becomes one by creating it or by an invitation, and
\* by an invitation never as an owner: a role change (ChangeMemberRole) that was checked
\* before its target was removed does not bring the target back.
NoWayBack ==
    [][\A w \in Workspaces, t \in Users :
           member[w][t] = "none" /\ member'[w][t] # "none" =>
               \/ creator[w] = Nobody /\ creator'[w] = t
               \/ /\ member'[w][t] # "owner" /\ call' = call
                  /\ \E u \in Users : Authorize(u, "invite", w)]_vars

-----------------------------------------------------------------------------
(* What the documentation says and the code does not do *)

\* docs/architecture/auth.md: ownership only accumulates, an owner can't be demoted or
\* removed.  A promotion that commits between the check and the write of another request
\* is undone by it.
OwnershipAccumulates ==
    [][\A w \in Workspaces, u \in Users :
           member[w][u] = "owner" => member'[w][u] = "owner"]_vars
=============================================================================
