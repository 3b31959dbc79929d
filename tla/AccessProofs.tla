---------------------------- MODULE AccessProofs ----------------------------
(***************************************************************************)
(* Theorems about module Access, for any number of people, workspaces,     *)
(* credentials, links and requests in flight.                              *)
(***************************************************************************)
EXTENDS Access, TLAPS

\* What a request in flight carries: most are about an account, a change and a removal
\* about a workspace.
CallsOK ==
    \A c \in Slots :
        /\ call[c].op \in {"register", "login", "change", "remove"} => call[c].who \in Users
        /\ call[c].op \in {"change", "remove"} => call[c].ws \in Workspaces
        /\ call[c].op = "change" => call[c].role \in Roles

TypeInv == TypeOK /\ CallsOK

\* A row of the matrix for every role, and distinct placeholders.
LEMMA Placeholders ==
  /\ Nobody \notin Users
  /\ Nothing \notin Workspaces /\ Nothing \notin LinkIds /\ Nothing \notin Slots
  /\ "none" \notin Roles
  /\ "owner" \in Roles
BY AccessAssumption

LEMMA InitialTypes == Init => TypeInv
BY AccessAssumption DEF Init, TypeInv, TypeOK, CallsOK, Cred, NoCred, Link, NoLink, Call, Idle

\* Beginning and ending a request keep the calls well typed.
LEMMA BeginTypes ==
  ASSUME TypeInv, NEW c \in Slots, NEW op \in {"register", "login", "reset", "change", "remove"},
         NEW u \in Users \cup {Nobody}, NEW w \in Workspaces \cup {Nothing},
         NEW r \in Roles \cup {"none"}, NEW n \in Nat, Begin(c, op, u, w, r, n),
         op \in {"register", "login", "change", "remove"} => u \in Users,
         op \in {"change", "remove"} => w \in Workspaces,
         op = "change" => r \in Roles
  PROVE  call' \in [Slots -> Call] /\ CallsOK'
<1>1. call' = [call EXCEPT ![c] = [op |-> op, who |-> u, ws |-> w, role |-> r, no |-> n]]
  BY DEF Begin
<1>2. call' \in [Slots -> Call]
  BY <1>1 DEF TypeInv, TypeOK, Call
<1>3. CallsOK'
  BY <1>1 DEF TypeInv, TypeOK, CallsOK, Call
<1> QED
  BY <1>2, <1>3

LEMMA EndTypes ==
  ASSUME TypeInv, NEW c \in Slots, End(c)
  PROVE  call' \in [Slots -> Call] /\ CallsOK'
<1>1. Idle \in Call
  BY AccessAssumption DEF Idle, Call
<1>2. call' \in [Slots -> Call]
  BY <1>1 DEF End, TypeInv, TypeOK
<1>3. CallsOK'
  BY DEF End, TypeInv, TypeOK, CallsOK, Idle
<1> QED
  BY <1>2, <1>3

\* What createWorkspaceTx does to the two tables.
LEMMA WorkspaceTypes ==
  ASSUME TypeInv, NEW w \in Workspaces, NEW u \in Users, CreateWorkspaceTx(w, u)
  PROVE  /\ creator' \in [Workspaces -> Users \cup {Nobody}]
         /\ member' \in [Workspaces -> [Users -> Roles \cup {"none"}]]
BY Placeholders DEF CreateWorkspaceTx, InsertWorkspace, TypeInv, TypeOK

\* The actions on workspaces keep the types.
LEMMA MemberTypes ==
  ASSUME TypeInv, NEW c \in Slots, Members(c)
  PROVE  TypeInv'
<1>1. ASSUME NEW k \in CredIds, NEW u \in Users, NEW t \in Users, NEW w \in Workspaces,
             RemoveMember(c, k, u, w, t)
      PROVE  TypeInv'
  <2>1. Begin(c, "remove", t, w, "none", 0)
    BY <1>1 DEF RemoveMember
  <2>2. call' \in [Slots -> Call] /\ CallsOK'
    BY <2>1, BeginTypes
  <2> QED
    BY <1>1, <2>2 DEF RemoveMember, TypeInv, TypeOK, config
<1>2. ASSUME NEW k \in CredIds, NEW u \in Users, NEW t \in Users, NEW w \in Workspaces,
             NEW r \in Roles, ChangeMemberRole(c, k, u, w, t, r)
      PROVE  TypeInv'
  <2>1. Begin(c, "change", t, w, r, 0)
    BY <1>2 DEF ChangeMemberRole
  <2>2. call' \in [Slots -> Call] /\ CallsOK'
    BY <2>1, BeginTypes
  <2> QED
    BY <1>2, <2>2 DEF ChangeMemberRole, TypeInv, TypeOK, config
<1>3. CASE UpdateMemberRole(c)
  <2>1. call' \in [Slots -> Call] /\ CallsOK'
    BY <1>3, EndTypes DEF UpdateMemberRole
  <2>2. call[c].ws \in Workspaces /\ call[c].who \in Users /\ call[c].role \in Roles
    BY <1>3 DEF UpdateMemberRole, TypeInv, CallsOK
  <2>3. member' \in [Workspaces -> [Users -> Roles \cup {"none"}]]
    BY <1>3, <2>2 DEF UpdateMemberRole, TypeInv, TypeOK
  <2> QED
    BY <1>3, <2>1, <2>3 DEF UpdateMemberRole, TypeInv, TypeOK, config
<1>4. CASE DeleteMember(c)
  <2>1. call' \in [Slots -> Call] /\ CallsOK'
    BY <1>4, EndTypes DEF DeleteMember
  <2>2. call[c].ws \in Workspaces /\ call[c].who \in Users
    BY <1>4 DEF DeleteMember, TypeInv, CallsOK
  <2>3. member' \in [Workspaces -> [Users -> Roles \cup {"none"}]]
    BY <1>4, <2>2 DEF DeleteMember, TypeInv, TypeOK
  <2> QED
    BY <1>4, <2>1, <2>3 DEF DeleteMember, TypeInv, TypeOK, config
<1> QED
  BY <1>1, <1>2, <1>3, <1>4 DEF Members

\* A new link is well typed.
LEMMA LinkTypes ==
  ASSUME TypeInv, NEW l \in LinkIds, NEW u \in Users,
         NEW purpose \in {"email_verify", "password_reset"}, NewLink(l, u, purpose)
  PROVE  link' \in [LinkIds -> Link]
BY DEF NewLink, TypeInv, TypeOK, Link

LEMMA ConsumedTypes ==
  ASSUME TypeInv, NEW l, Consume(l)
  PROVE  link' \in [LinkIds -> Link]
<1>1. Consumed \in Link
  BY DEF Consumed, Link
<1> QED
  BY <1>1 DEF Consume, TypeInv, TypeOK

\* The actions of people who are not signed in keep the types.
LEMMA PublicTypes ==
  ASSUME TypeInv, NEW c \in Slots, Public(c)
  PROVE  TypeInv'
<1>1. ASSUME NEW u \in Users, Register(c, u) PROVE TypeInv'
  <2>1. Begin(c, "register", u, Nothing, "none", 0)
    BY <1>1 DEF Register
  <2>2. call' \in [Slots -> Call] /\ CallsOK'
    BY <2>1, BeginTypes
  <2>3. lock' \in Slots \cup {Nothing}
    BY <1>1 DEF Register, AcquireRegistrationLock, TypeInv, TypeOK
  <2> QED
    BY <1>1, <2>2, <2>3 DEF Register, TypeInv, TypeOK, config
<1>2. ASSUME NEW u \in Users, Login(c, u) PROVE TypeInv'
  <2>1. Begin(c, "login", u, Nothing, "none", 0)
    BY <1>2 DEF Login
  <2>2. call' \in [Slots -> Call] /\ CallsOK'
    BY <2>1, BeginTypes
  <2> QED
    BY <1>2, <2>2 DEF Login, TypeInv, TypeOK, config
<1>3. CASE CreateUser(c)
  <2> DEFINE u == call[c].who
  <2>1. call' \in [Slots -> Call] /\ CallsOK'
    <3>1. CASE End(c)
      BY <3>1, EndTypes
    <3>2. CASE call' = [call EXCEPT ![c].op = "mail"]
      <4> DEFINE m == [call[c] EXCEPT !.op = "mail"]
      <4>1. call[c] \in Call
        BY DEF TypeInv, TypeOK
      <4>2. m \in Call /\ m.op = "mail"
        BY <4>1 DEF Call
      <4>3. call \in [Slots -> Call] /\ call' = [call EXCEPT ![c] = m]
        BY <3>2 DEF TypeInv, TypeOK
      <4> HIDE DEF m
      <4>4. call' \in [Slots -> Call]
        BY <4>2, <4>3
      <4>5. call'[c] = m /\ \A b \in Slots : b # c => call'[b] = call[b]
        BY <4>3
      <4>6. CallsOK'
        BY <4>2, <4>5 DEF TypeInv, CallsOK
      <4> QED
        BY <4>4, <4>6
    <3> QED
      BY <1>3, <3>1, <3>2 DEF CreateUser
  <2>2. account' \in [Users -> [row : BOOLEAN, verified : BOOLEAN]]
    <3>1. account' = account \/ account' = [account EXCEPT ![u].row = TRUE]
      BY <1>3 DEF CreateUser, InsertUser
    <3>2. CASE account' = account
      BY <3>2 DEF TypeInv, TypeOK
    <3>3. CASE account' = [account EXCEPT ![u].row = TRUE]
      BY <3>3 DEF TypeInv, TypeOK
    <3> QED
      BY <3>1, <3>2, <3>3
  <2>3. /\ creator' \in [Workspaces -> Users \cup {Nobody}]
        /\ member' \in [Workspaces -> [Users -> Roles \cup {"none"}]]
    <3>1. u \in Users \cup {Nobody}
      BY DEF TypeInv, TypeOK, Call
    <3>2. ASSUME NEW w \in Workspaces, CreateWorkspaceTx(w, u) PROVE <2>3!:
      BY <3>1, <3>2, Placeholders DEF CreateWorkspaceTx, InsertWorkspace, TypeInv, TypeOK
    <3> QED
      BY <1>3, <3>2 DEF CreateUser, TypeInv, TypeOK
  <2>4. lock' \in Slots \cup {Nothing}
    BY <1>3 DEF CreateUser, TypeInv, TypeOK
  <2> QED
    BY <1>3, <2>1, <2>2, <2>3, <2>4 DEF CreateUser, TypeInv, TypeOK, config
<1>4. CASE MaybeSendVerification(c)
  <2>1. call' \in [Slots -> Call] /\ CallsOK'
    BY <1>4, EndTypes DEF MaybeSendVerification
  <2>2. ASSUME NEW l \in LinkIds, NewLink(l, call[c].who, "email_verify") PROVE TypeInv'
    <3>1. call[c].who \in Users \cup {Nobody}
      BY DEF TypeInv, TypeOK, Call
    <3>2. link' \in [LinkIds -> Link]
      BY <2>2, <3>1 DEF NewLink, TypeInv, TypeOK, Link
    <3> QED
      BY <2>1, <2>2, <3>2 DEF NewLink, TypeInv, TypeOK, config
  <2> QED
    BY <1>4, <2>1, <2>2 DEF MaybeSendVerification, IssueVerification, TypeInv, TypeOK, config
<1>5. ASSUME NEW l \in LinkIds, ResetPassword(c, l) PROVE TypeInv'
  <2>1. Begin(c, "reset", link[l].user, Nothing, "none", l)
    BY <1>5 DEF ResetPassword
  <2>2. link[l].user \in Users \cup {Nobody} /\ l \in Nat
    BY AccessAssumption DEF TypeInv, TypeOK, Link
  <2>3. call' \in [Slots -> Call] /\ CallsOK'
    BY <2>1, <2>2, BeginTypes
  <2> QED
    BY <1>5, <2>3 DEF ResetPassword, TypeInv, TypeOK, config
<1>6. CASE SetPassword(c)
  <2>1. call' \in [Slots -> Call] /\ CallsOK'
    BY <1>6, EndTypes DEF SetPassword
  <2>3. link' \in [LinkIds -> Link]
    BY <1>6, ConsumedTypes DEF SetPassword
  <2>4. cred' \in [CredIds -> Cred]
    BY <1>6 DEF SetPassword, RevokeAllSessions, TypeInv, TypeOK, Cred, NoCred
  <2> QED
    BY <1>6, <2>1, <2>3, <2>4 DEF SetPassword, TypeInv, TypeOK, config
<1>7. ASSUME NEW k \in CredIds, CreateSession(c, k) PROVE TypeInv'
  <2>1. call' \in [Slots -> Call] /\ CallsOK'
    BY <1>7, EndTypes DEF CreateSession
  <2>2. call[c].who \in Users
    BY <1>7 DEF CreateSession, TypeInv, CallsOK
  <2>4. cred' \in [CredIds -> Cred]
    BY <1>7, <2>2 DEF CreateSession, TypeInv, TypeOK, Cred
  <2> QED
    BY <1>7, <2>1, <2>4 DEF CreateSession, TypeInv, TypeOK, config
<1> QED
  BY <1>1, <1>2, <1>3, <1>4, <1>5, <1>6, <1>7 DEF Public

\* Every step keeps the types.
LEMMA StepTypes == TypeInv /\ [Next]_vars => TypeInv'
<1> SUFFICES ASSUME TypeInv, [Next]_vars PROVE TypeInv'
  OBVIOUS
<1>1. ASSUME NEW c \in Slots, Public(c) \/ Members(c) PROVE TypeInv'
  BY <1>1, PublicTypes, MemberTypes
<1>2. ASSUME NEW l \in LinkIds, NEW u \in Users, RequestPasswordReset(l, u) PROVE TypeInv'
  <2>1. link' \in [LinkIds -> Link]
    BY <1>2, LinkTypes DEF RequestPasswordReset
  <2> QED
    BY <1>2, <2>1 DEF RequestPasswordReset, NewLink, TypeInv, TypeOK, CallsOK, config
<1>3. ASSUME NEW l \in LinkIds, NEW k \in CredIds, NEW u \in Users,
             RequestEmailVerification(l, k, u)
      PROVE  TypeInv'
  <2>1. link' \in [LinkIds -> Link]
    BY <1>3, LinkTypes DEF RequestEmailVerification, IssueVerification
  <2> QED
    BY <1>3, <2>1 DEF RequestEmailVerification, IssueVerification, NewLink, TypeInv, TypeOK,
           CallsOK, config
<1>4. ASSUME NEW l \in LinkIds, VerifyEmail(l) PROVE TypeInv'
  <2>1. link' \in [LinkIds -> Link]
    BY <1>4, ConsumedTypes DEF VerifyEmail
  <2>2. account' \in [Users -> [row : BOOLEAN, verified : BOOLEAN]]
    BY <1>4 DEF VerifyEmail, SetEmailVerified, TypeInv, TypeOK
  <2> QED
    BY <1>4, <2>1, <2>2 DEF VerifyEmail, TypeInv, TypeOK, CallsOK, config
<1>5. ASSUME NEW l \in LinkIds, ExpireLink(l) PROVE TypeInv'
  <2>1. Expired \in Link
    BY DEF Expired, Link
  <2> QED
    BY <1>5, <2>1 DEF ExpireLink, TypeInv, TypeOK, CallsOK, config
<1>6. ASSUME NEW j \in CredIds, NEW k \in CredIds, NEW u \in Users,
             CreateAPIToken(j, u, k) \/ RevokeAPIToken(j, u, k) \/ Logout(k)
      PROVE  TypeInv'
  <2>1. cred' \in [CredIds -> Cred]
    BY <1>6 DEF CreateAPIToken, InsertAPIToken, RevokeAPIToken, Logout, Revoke, TypeInv, TypeOK,
           Cred, NoCred
  <2> QED
    BY <1>6, <2>1 DEF CreateAPIToken, RevokeAPIToken, Logout, Revoke, TypeInv, TypeOK, CallsOK,
           config
<1>7. ASSUME NEW k \in CredIds, Logout(k) PROVE TypeInv'
  <2>1. cred' \in [CredIds -> Cred]
    BY <1>7 DEF Logout, Revoke, TypeInv, TypeOK, Cred, NoCred
  <2> QED
    BY <1>7, <2>1 DEF Logout, Revoke, TypeInv, TypeOK, CallsOK, config
<1>8. ASSUME NEW k \in CredIds, NEW u \in Users, NEW w \in Workspaces, CreateWorkspace(k, u, w)
      PROVE  TypeInv'
  BY <1>8, WorkspaceTypes DEF CreateWorkspace, TypeInv, TypeOK, CallsOK, config
<1>9. ASSUME NEW k \in CredIds, NEW u \in Users, NEW w \in Workspaces, NEW t \in Users,
             NEW r \in Roles, InviteMember(k, u, w, t, r)
      PROVE  TypeInv'
  <2>1. member' \in [Workspaces -> [Users -> Roles \cup {"none"}]]
    BY <1>9 DEF InviteMember, AddMember, TypeInv, TypeOK
  <2> QED
    BY <1>9, <2>1 DEF InviteMember, TypeInv, TypeOK, CallsOK, config
<1>10. CASE UNCHANGED vars
  BY <1>10 DEF vars, config, TypeInv, TypeOK, CallsOK
<1> QED
  BY <1>1, <1>2, <1>3, <1>4, <1>5, <1>6, <1>7, <1>8, <1>9, <1>10 DEF Next

\* The tables and the requests in flight stay well typed.
THEOREM AccessTypeCorrect == Spec => []TypeOK
<1>1. Spec => []TypeInv
  BY InitialTypes, StepTypes, PTL DEF Spec
<1>2. TypeInv => TypeOK
  BY DEF TypeInv
<1> QED
  BY <1>1, <1>2, PTL

-----------------------------------------------------------------------------
(* Closed registration *)

\* With registration closed, a registration in flight holds the lock and has seen no
\* user, and there is none still: so no two of them are in flight.
LockedOut ==
    ~open => \A c \in Slots : call[c].op = "register" => lock = c /\ NoUsers

BootInv == LockedOut /\ OneBootstrap

\* What the steps other than Register and CreateUser leave alone.
KeepsAccounts ==
    /\ open' = open /\ lock' = lock
    /\ \A u \in Users : account'[u].row = account[u].row
    /\ \A c \in Slots : call'[c].op = "register" => call[c].op = "register"

LEMMA OtherStepsKeepAccounts ==
  ASSUME TypeInv, Next
  PROVE  \/ \E c \in Slots, u \in Users : Register(c, u)
         \/ \E c \in Slots : CreateUser(c)
         \/ KeepsAccounts
<1>1. ASSUME NEW c \in Slots, Public(c)
      PROVE  (\E u \in Users : Register(c, u)) \/ CreateUser(c) \/ KeepsAccounts
  <2>1. ASSUME NEW u \in Users, Login(c, u) PROVE KeepsAccounts
    BY <2>1 DEF Login, Begin, config, KeepsAccounts, TypeInv, TypeOK
  <2>2. CASE MaybeSendVerification(c)
    BY <2>2 DEF MaybeSendVerification, IssueVerification, NewLink, End, Idle, config, KeepsAccounts,
           TypeInv, TypeOK
  <2>3. ASSUME NEW l \in LinkIds, ResetPassword(c, l) PROVE KeepsAccounts
    BY <2>3 DEF ResetPassword, Begin, config, KeepsAccounts, TypeInv, TypeOK
  <2>4. CASE SetPassword(c)
    BY <2>4 DEF SetPassword, End, Idle, config, KeepsAccounts, TypeInv, TypeOK
  <2>5. ASSUME NEW k \in CredIds, CreateSession(c, k) PROVE KeepsAccounts
    BY <2>5 DEF CreateSession, End, Idle, config, KeepsAccounts, TypeInv, TypeOK
  <2> QED
    BY <1>1, <2>1, <2>2, <2>3, <2>4, <2>5 DEF Public
<1>2. ASSUME NEW c \in Slots, Members(c) PROVE KeepsAccounts
  <2>1. open' = open /\ lock' = lock /\ account' = account
    BY <1>2 DEF Members, RemoveMember, ChangeMemberRole, UpdateMemberRole, DeleteMember, config
  <2>2. \/ call' = [call EXCEPT ![c] = Idle]
        \/ \E t \in Users, w \in Workspaces, r \in Roles \cup {"none"},
              op \in {"remove", "change"} : Begin(c, op, t, w, r, 0)
    BY <1>2 DEF Members, RemoveMember, ChangeMemberRole, UpdateMemberRole, DeleteMember, End
  <2>3. \A b \in Slots : call'[b].op = "register" => call[b].op = "register"
    BY <2>2 DEF Begin, Idle, TypeInv, TypeOK
  <2> QED
    BY <2>1, <2>3 DEF KeepsAccounts
<1>3. ASSUME NEW l \in LinkIds, VerifyEmail(l) PROVE KeepsAccounts
  BY <1>3 DEF VerifyEmail, SetEmailVerified, config, KeepsAccounts, TypeInv, TypeOK
<1>4. ASSUME UNCHANGED <<config, account, lock, call>> PROVE KeepsAccounts
  BY <1>4 DEF config, KeepsAccounts
<1> QED
  BY <1>1, <1>2, <1>3, <1>4 DEF Next, RequestPasswordReset, RequestEmailVerification,
         IssueVerification, NewLink, ExpireLink, CreateAPIToken, RevokeAPIToken, Logout, Revoke,
         CreateWorkspace, InviteMember

LEMMA BootStep == TypeInv /\ BootInv /\ [Next]_vars => BootInv'
<1> SUFFICES ASSUME TypeInv, BootInv, [Next]_vars PROVE BootInv'
  OBVIOUS
<1>1. ASSUME NEW c \in Slots, NEW u \in Users, Register(c, u) PROVE BootInv'
  <2>1. account' = account /\ open' = open
    BY <1>1 DEF Register, config
  <2>2. OneBootstrap'
    BY <2>1 DEF BootInv, OneBootstrap
  <2>3. ASSUME ~open, NEW b \in Slots, call'[b].op = "register" PROVE lock' = b /\ NoUsers'
    <3>1. lock = Nothing /\ lock' = c /\ NoUsers
      BY <1>1, <2>3 DEF Register, AcquireRegistrationLock
    <3>2. b = c
      BY <1>1, <2>3, <3>1, Placeholders DEF Register, Begin, BootInv, LockedOut, TypeInv, TypeOK
    <3> QED
      BY <2>1, <3>1, <3>2 DEF NoUsers
  <2> QED
    BY <2>1, <2>2, <2>3 DEF BootInv, LockedOut
<1>2. ASSUME NEW c \in Slots, CreateUser(c) PROVE BootInv'
  <2>1. open' = open
    BY <1>2 DEF CreateUser, config
  <2>2. SUFFICES ASSUME ~open PROVE BootInv'
    BY <2>1 DEF BootInv, LockedOut, OneBootstrap
  <2>3. lock = c /\ NoUsers
    BY <1>2, <2>2 DEF CreateUser, BootInv, LockedOut
  <2>4. \A b \in Slots : call'[b].op # "register"
    <3>1. \A b \in Slots : b # c => call[b].op # "register"
      BY <2>2, <2>3 DEF BootInv, LockedOut
    <3>2. \A b \in Slots : b # c => call'[b] = call[b]
      BY <1>2 DEF CreateUser, End, TypeInv, TypeOK
    <3>3. call'[c].op \in {"idle", "mail"}
      BY <1>2 DEF CreateUser, End, Idle, TypeInv, TypeOK, Call
    <3> QED
      BY <3>1, <3>2, <3>3
  <2>5. \A x \in Users : account'[x].row => x = call[c].who
    <3>1. account' = account \/ account' = [account EXCEPT ![call[c].who].row = TRUE]
      BY <1>2 DEF CreateUser, InsertUser
    <3> QED
      BY <2>3, <3>1 DEF NoUsers, TypeInv, TypeOK
  <2> QED
    BY <2>4, <2>5 DEF BootInv, LockedOut, OneBootstrap
<1>3. CASE KeepsAccounts
  BY <1>3 DEF KeepsAccounts, BootInv, LockedOut, OneBootstrap, NoUsers
<1>4. CASE UNCHANGED vars
  BY <1>4 DEF vars, config, BootInv, LockedOut, OneBootstrap, NoUsers
<1> QED
  BY <1>1, <1>2, <1>3, <1>4, OtherStepsKeepAccounts

\* Closed registration admits one user, however many registrations overlap
\* (Register's advisory lock and the count it takes under it).
THEOREM OneBootstrapUser == Spec => []OneBootstrap
<1>1. Init => BootInv
  BY DEF Init, BootInv, LockedOut, OneBootstrap, Idle
<1>2. BootInv => OneBootstrap
  BY DEF BootInv
<1> QED
  BY <1>1, <1>2, InitialTypes, StepTypes, BootStep, PTL DEF Spec

-----------------------------------------------------------------------------
(* Ownership *)

\* Only a workspace that was created has members, and a change or a removal in flight is
\* about such a workspace and does its creator no harm: the creator was an owner when it
\* was checked.
MembersFounded ==
    \A w \in Workspaces, u \in Users : member[w][u] # "none" => creator[w] # Nobody
Harmless(c) ==
    call[c].op \in {"change", "remove"} =>
        /\ creator[call[c].ws] # Nobody
        /\ call[c].who = creator[call[c].ws] => call[c].op = "change" /\ call[c].role = "owner"

OwnInv == AlwaysOwned /\ MembersFounded /\ \A c \in Slots : Harmless(c)

\* What the steps that are not about workspaces leave alone.
KeepsWorkspaces ==
    /\ creator' = creator /\ member' = member
    /\ \A u \in Users : account'[u].row = account[u].row
    /\ \A c \in Slots : call'[c].op \in {"change", "remove"} => call'[c] = call[c]

LEMMA OtherStepsKeepWorkspaces ==
  ASSUME TypeInv, Next
  PROVE  \/ \E c \in Slots : Members(c) \/ CreateUser(c)
         \/ \E k \in CredIds, u \in Users, w \in Workspaces :
                \/ CreateWorkspace(k, u, w)
                \/ \E t \in Users, r \in Roles : InviteMember(k, u, w, t, r)
         \/ KeepsWorkspaces
<1>1. ASSUME NEW c \in Slots, Public(c) PROVE CreateUser(c) \/ KeepsWorkspaces
  <2>1. ASSUME NEW u \in Users, Register(c, u) \/ Login(c, u) PROVE KeepsWorkspaces
    BY <2>1 DEF Register, Login, Begin, KeepsWorkspaces, TypeInv, TypeOK
  <2>2. CASE MaybeSendVerification(c)
    BY <2>2 DEF MaybeSendVerification, IssueVerification, NewLink, End, Idle, KeepsWorkspaces,
           TypeInv, TypeOK
  <2>3. ASSUME NEW l \in LinkIds, ResetPassword(c, l) PROVE KeepsWorkspaces
    BY <2>3 DEF ResetPassword, Begin, KeepsWorkspaces, TypeInv, TypeOK
  <2>4. CASE SetPassword(c)
    BY <2>4 DEF SetPassword, End, Idle, KeepsWorkspaces, TypeInv, TypeOK
  <2>5. ASSUME NEW k \in CredIds, CreateSession(c, k) PROVE KeepsWorkspaces
    BY <2>5 DEF CreateSession, End, Idle, KeepsWorkspaces, TypeInv, TypeOK
  <2> QED
    BY <1>1, <2>1, <2>2, <2>3, <2>4, <2>5 DEF Public
<1>2. ASSUME NEW l \in LinkIds, VerifyEmail(l) PROVE KeepsWorkspaces
  BY <1>2 DEF VerifyEmail, SetEmailVerified, KeepsWorkspaces, TypeInv, TypeOK
<1>3. ASSUME UNCHANGED <<account, creator, member, call>> PROVE KeepsWorkspaces
  BY <1>3 DEF KeepsWorkspaces
<1> QED
  BY <1>1, <1>2, <1>3 DEF Next, RequestPasswordReset, RequestEmailVerification,
         IssueVerification, NewLink, ExpireLink, CreateAPIToken, RevokeAPIToken, Logout, Revoke

\* A new workspace has its creator for an owner, and nothing was in flight about it.
LEMMA WorkspaceOwned ==
  ASSUME TypeInv, OwnInv, NEW w \in Workspaces, NEW u \in Users, CreateWorkspaceTx(w, u),
         \A x \in Users : account'[x].row => account[x].row \/ x = u,
         \A c \in Slots : call'[c].op \in {"change", "remove"} => call'[c] = call[c]
  PROVE  OwnInv'
<1>1. /\ creator[w] = Nobody
      /\ creator' = [creator EXCEPT ![w] = u]
      /\ member' = [member EXCEPT ![w][u] = "owner"]
  BY DEF CreateWorkspaceTx, InsertWorkspace, FreshWorkspace
<1>2. \A v \in Workspaces : v # w => creator'[v] = creator[v] /\ member'[v] = member[v]
  BY <1>1 DEF TypeInv, TypeOK
<1>3. creator'[w] = u /\ member'[w][u] = "owner" /\ u # Nobody
  BY <1>1, Placeholders DEF TypeInv, TypeOK
<1>4. AlwaysOwned'
  <2>1. ASSUME NEW v \in Workspaces, creator'[v] # Nobody PROVE member'[v][creator'[v]] = "owner"
    BY <1>2, <1>3, <2>1 DEF OwnInv, AlwaysOwned
  <2>2. ASSUME NEW x \in Users, account'[x].row PROVE \E v \in Workspaces : creator'[v] = x
    <3>1. CASE x = u
      BY <1>3, <3>1
    <3>2. CASE account[x].row
      <4>1. PICK v \in Workspaces : creator[v] = x
        BY <3>2 DEF OwnInv, AlwaysOwned
      <4> QED
        BY <1>1, <1>2, <4>1, Placeholders
    <3> QED
      BY <2>2, <3>1, <3>2
  <2> QED
    BY <2>1, <2>2 DEF AlwaysOwned
<1>5. MembersFounded'
  BY <1>2, <1>3 DEF OwnInv, MembersFounded
<1>6. ASSUME NEW c \in Slots PROVE Harmless(c)'
  <2>1. SUFFICES ASSUME call'[c].op \in {"change", "remove"} PROVE Harmless(c)'
    BY DEF Harmless
  <2>2. call'[c] = call[c] /\ call[c].ws \in Workspaces
    BY <2>1 DEF TypeInv, CallsOK
  <2>3. call[c].ws # w
    BY <1>1, <2>1, <2>2 DEF OwnInv, Harmless
  <2> QED
    BY <1>2, <2>2, <2>3 DEF OwnInv, Harmless
<1> QED
  BY <1>4, <1>5, <1>6 DEF OwnInv

\* Writing one member's role, or none, keeps the creators' own.
LEMMA RoleWritten ==
  ASSUME TypeInv, OwnInv, NEW w \in Workspaces, NEW t \in Users, NEW r \in Roles \cup {"none"},
         member' = [member EXCEPT ![w][t] = r],
         t = creator[w] => r = "owner",
         r # "none" => creator[w] # Nobody,
         UNCHANGED <<creator, account>>,
         \A c \in Slots : call'[c].op \in {"change", "remove"} => call'[c] = call[c]
  PROVE  OwnInv'
<1>1. \A v \in Workspaces, x \in Users :
          member'[v][x] = IF v = w /\ x = t THEN r ELSE member[v][x]
  BY DEF TypeInv, TypeOK
<1>2. AlwaysOwned'
  BY <1>1, Placeholders DEF OwnInv, AlwaysOwned, TypeInv, TypeOK
<1>3. MembersFounded'
  BY <1>1 DEF OwnInv, MembersFounded
<1>4. \A c \in Slots : Harmless(c)'
  BY DEF OwnInv, Harmless
<1> QED
  BY <1>2, <1>3, <1>4 DEF OwnInv

\* A request that has passed its checks is harmless.
LEMMA BegunHarmless ==
  ASSUME TypeInv, OwnInv, NEW c \in Slots, NEW w \in Workspaces, NEW t \in Users,
         NEW op \in {"change", "remove"}, NEW r \in Roles \cup {"none"},
         Begin(c, op, t, w, r, 0),
         member[w][t] # "none",
         member[w][t] = "owner" => op = "change" /\ r = "owner",
         UNCHANGED <<creator, member, account>>
  PROVE  OwnInv'
<1>1. AlwaysOwned' /\ MembersFounded'
  BY DEF OwnInv, AlwaysOwned, MembersFounded
<1>2. call' = [call EXCEPT ![c] = [op |-> op, who |-> t, ws |-> w, role |-> r, no |-> 0]]
  BY DEF Begin
<1>3. ASSUME NEW b \in Slots, b # c PROVE Harmless(b)'
  BY <1>2, <1>3 DEF OwnInv, Harmless, TypeInv, TypeOK
<1>4. Harmless(c)'
  <2>1. call'[c] = [op |-> op, who |-> t, ws |-> w, role |-> r, no |-> 0]
    BY <1>2 DEF TypeInv, TypeOK
  <2>2. creator[w] # Nobody
    BY DEF OwnInv, MembersFounded
  <2>3. t = creator[w] => member[w][t] = "owner"
    BY <2>2 DEF OwnInv, AlwaysOwned
  <2> QED
    BY <2>1, <2>2, <2>3 DEF Harmless
<1> QED
  BY <1>1, <1>3, <1>4 DEF OwnInv

LEMMA OwnStep == TypeInv /\ OwnInv /\ [Next]_vars => OwnInv'
<1> SUFFICES ASSUME TypeInv, OwnInv, [Next]_vars PROVE OwnInv'
  OBVIOUS
<1>1. ASSUME NEW c \in Slots, NEW k \in CredIds, NEW u \in Users, NEW t \in Users,
             NEW w \in Workspaces, RemoveMember(c, k, u, w, t)
      PROVE  OwnInv'
  BY <1>1, BegunHarmless DEF RemoveMember
<1>2. ASSUME NEW c \in Slots, NEW k \in CredIds, NEW u \in Users, NEW t \in Users,
             NEW w \in Workspaces, NEW r \in Roles, ChangeMemberRole(c, k, u, w, t, r)
      PROVE  OwnInv'
  BY <1>2, BegunHarmless DEF ChangeMemberRole, MayChange
<1>3. ASSUME NEW c \in Slots, UpdateMemberRole(c) PROVE OwnInv'
  <2> DEFINE w == call[c].ws
             t == call[c].who
             r == IF member[w][t] = "none" THEN "none" ELSE call[c].role
  <2>1. call[c].op = "change" /\ w \in Workspaces /\ t \in Users /\ call[c].role \in Roles
    BY <1>3 DEF UpdateMemberRole, TypeInv, CallsOK
  <2>2. creator[w] # Nobody /\ (t = creator[w] => call[c].role = "owner")
    BY <2>1 DEF OwnInv, Harmless
  <2>3. t = creator[w] => r = "owner"
    BY <2>1, <2>2, Placeholders DEF OwnInv, AlwaysOwned
  <2>4. member' = [member EXCEPT ![w][t] = r]
    BY <1>3 DEF UpdateMemberRole
  <2>5. \A b \in Slots : call'[b].op \in {"change", "remove"} => call'[b] = call[b]
    BY <1>3 DEF UpdateMemberRole, End, Idle, TypeInv, TypeOK
  <2>6. UNCHANGED <<creator, account>>
    BY <1>3 DEF UpdateMemberRole
  <2> HIDE DEF r
  <2>7. r \in Roles \cup {"none"}
    BY <2>1 DEF r
  <2> QED
    BY <2>1, <2>2, <2>3, <2>4, <2>5, <2>6, <2>7, RoleWritten
<1>4. ASSUME NEW c \in Slots, DeleteMember(c) PROVE OwnInv'
  <2>1. call[c].op = "remove" /\ call[c].ws \in Workspaces /\ call[c].who \in Users
    BY <1>4 DEF DeleteMember, TypeInv, CallsOK
  <2>2. call[c].who # creator[call[c].ws]
    BY <2>1 DEF OwnInv, Harmless
  <2>3. \A b \in Slots : call'[b].op \in {"change", "remove"} => call'[b] = call[b]
    BY <1>4 DEF DeleteMember, End, Idle, TypeInv, TypeOK
  <2>4. /\ member' = [member EXCEPT ![call[c].ws][call[c].who] = "none"]
        /\ UNCHANGED <<creator, account>>
    BY <1>4 DEF DeleteMember
  <2> QED
    BY <2>1, <2>2, <2>3, <2>4, RoleWritten
<1>5. ASSUME NEW c \in Slots, CreateUser(c) PROVE OwnInv'
  <2> DEFINE u == call[c].who
  <2>1. u \in Users
    BY <1>5 DEF CreateUser, TypeInv, CallsOK
  <2>2. \A b \in Slots : call'[b].op \in {"change", "remove"} => call'[b] = call[b]
    BY <1>5 DEF CreateUser, End, Idle, TypeInv, TypeOK, Call
  <2>3. ASSUME NEW w \in Workspaces, CreateWorkspaceTx(w, u), InsertUser(u) PROVE OwnInv'
    <3>1. \A x \in Users : account'[x].row => account[x].row \/ x = u
      BY <2>3 DEF InsertUser, TypeInv, TypeOK
    <3> QED
      BY <2>1, <2>2, <2>3, <3>1, WorkspaceOwned
  <2>4. CASE UNCHANGED <<account, creator, member>>
    BY <2>2, <2>4 DEF OwnInv, AlwaysOwned, MembersFounded, Harmless
  <2> QED
    BY <1>5, <2>3, <2>4 DEF CreateUser
<1>6. ASSUME NEW k \in CredIds, NEW u \in Users, NEW w \in Workspaces, CreateWorkspace(k, u, w)
      PROVE  OwnInv'
  BY <1>6, WorkspaceOwned DEF CreateWorkspace
<1>7. ASSUME NEW k \in CredIds, NEW u \in Users, NEW w \in Workspaces, NEW t \in Users,
             NEW r \in Roles, InviteMember(k, u, w, t, r)
      PROVE  OwnInv'
  <2> DEFINE q == IF member[w][t] = "none" THEN r ELSE member[w][t]
  <2>1. member' = [member EXCEPT ![w][t] = q] /\ UNCHANGED <<creator, account, call>>
    BY <1>7 DEF InviteMember, AddMember
  <2>2. creator[w] # Nobody
    BY <1>7 DEF InviteMember, Authorize, RoleForUser, OwnInv, MembersFounded
  <2>3. t = creator[w] => q = "owner"
    BY <2>2 DEF OwnInv, AlwaysOwned
  <2>4. q \in Roles \cup {"none"}
    BY DEF TypeInv, TypeOK
  <2> HIDE DEF q
  <2> QED
    BY <2>1, <2>2, <2>3, <2>4, RoleWritten
<1>8. CASE KeepsWorkspaces
  <2>1. AlwaysOwned' /\ MembersFounded'
    BY <1>8 DEF KeepsWorkspaces, OwnInv, AlwaysOwned, MembersFounded
  <2>2. \A c \in Slots : Harmless(c)'
    BY <1>8 DEF KeepsWorkspaces, OwnInv, Harmless
  <2> QED
    BY <2>1, <2>2 DEF OwnInv
<1>9. CASE UNCHANGED vars
  BY <1>9 DEF vars, OwnInv, AlwaysOwned, MembersFounded, Harmless
<1>10. ASSUME NEW c \in Slots, Members(c) PROVE OwnInv'
  BY <1>1, <1>2, <1>3, <1>4, <1>10 DEF Members
<1> QED
  BY <1>5, <1>6, <1>7, <1>8, <1>9, <1>10, OtherStepsKeepWorkspaces

\* Every account has a workspace of its own, and a workspace's creator is its owner,
\* through any overlap of role changes and removals (their owner check precedes their
\* transaction).
THEOREM AlwaysOwnedHolds == Spec => []AlwaysOwned
<1>1. Init => OwnInv
  BY DEF Init, OwnInv, AlwaysOwned, MembersFounded, Harmless, Idle
<1>2. OwnInv => AlwaysOwned
  BY DEF OwnInv
<1> QED
  BY <1>1, <1>2, InitialTypes, StepTypes, OwnStep, PTL DEF Spec

-----------------------------------------------------------------------------
(* Membership *)

\* NoWayBack for one member of one workspace.
Back(w, t) ==
    member[w][t] = "none" /\ member'[w][t] # "none" =>
        \/ creator[w] = Nobody /\ creator'[w] = t
        \/ /\ member'[w][t] # "owner" /\ call' = call
           /\ \E u \in Users : Authorize(u, "invite", w)

LEMMA CreatedNotBack ==
  ASSUME TypeInv, NEW v \in Workspaces, NEW u \in Users, CreateWorkspaceTx(v, u),
         NEW w \in Workspaces, NEW t \in Users
  PROVE  Back(w, t)
<1>1. /\ creator[v] = Nobody
      /\ creator' = [creator EXCEPT ![v] = u]
      /\ member' = [member EXCEPT ![v][u] = "owner"]
  BY DEF CreateWorkspaceTx, InsertWorkspace, FreshWorkspace
<1>2. w = v => creator'[w] = u
  BY <1>1 DEF TypeInv, TypeOK
<1>3. member'[w][t] # member[w][t] => w = v /\ t = u
  BY <1>1 DEF TypeInv, TypeOK
<1> QED
  BY <1>1, <1>2, <1>3 DEF Back

\* Only createWorkspaceTx and InviteMember add a member: a role change that finds its
\* target removed (ChangeMemberRole checks before its transaction) adds nobody, with any
\* number of requests in flight.
THEOREM NoWayBackHolds == Spec => NoWayBack
<1>1. ASSUME TypeInv, [Next]_vars, NEW w \in Workspaces, NEW t \in Users
      PROVE  Back(w, t)
  <2>1. CASE member' = member
    BY <2>1 DEF Back
  <2>2. ASSUME NEW c \in Slots, UpdateMemberRole(c) PROVE Back(w, t)
    <3> DEFINE v == call[c].ws
               u == call[c].who
    <3>1. v \in Workspaces /\ u \in Users
      BY <1>1, <2>2 DEF UpdateMemberRole, TypeInv, CallsOK
    <3>2. member' = [member EXCEPT ![v][u] =
                         IF member[v][u] = "none" THEN "none" ELSE call[c].role]
      BY <2>2 DEF UpdateMemberRole
    <3> HIDE DEF v, u
    <3>3. member[w][t] = "none" => member'[w][t] = "none"
      BY <1>1, <3>1, <3>2 DEF TypeInv, TypeOK
    <3> QED
      BY <3>3 DEF Back
  <2>3. ASSUME NEW c \in Slots, DeleteMember(c) PROVE Back(w, t)
    <3> DEFINE v == call[c].ws
               u == call[c].who
    <3>1. v \in Workspaces /\ u \in Users
      BY <1>1, <2>3 DEF DeleteMember, TypeInv, CallsOK
    <3>2. member' = [member EXCEPT ![v][u] = "none"]
      BY <2>3 DEF DeleteMember
    <3> HIDE DEF v, u
    <3>3. member'[w][t] \in {member[w][t], "none"}
      BY <1>1, <3>1, <3>2 DEF TypeInv, TypeOK
    <3> QED
      BY <3>3 DEF Back
  <2>4. ASSUME NEW c \in Slots, CreateUser(c) PROVE Back(w, t)
    <3>1. call[c].who \in Users
      BY <1>1, <2>4 DEF CreateUser, TypeInv, CallsOK
    <3> QED
      BY <1>1, <2>1, <2>4, <3>1, CreatedNotBack DEF CreateUser
  <2>5. ASSUME NEW k \in CredIds, NEW u \in Users, NEW v \in Workspaces, CreateWorkspace(k, u, v)
        PROVE  Back(w, t)
    BY <1>1, <2>5, CreatedNotBack DEF CreateWorkspace
  <2>6. ASSUME NEW k \in CredIds, NEW u \in Users, NEW v \in Workspaces, NEW x \in Users,
               NEW r \in Roles, InviteMember(k, u, v, x, r)
        PROVE  Back(w, t)
    <3>1. /\ member' = [member EXCEPT ![v][x] = IF member[v][x] = "none" THEN r ELSE member[v][x]]
          /\ r # "owner" /\ call' = call /\ Authorize(u, "invite", v)
      BY <2>6 DEF InviteMember, AddMember
    <3>2. member'[w][t] # member[w][t] => v = w /\ member'[w][t] = r
      BY <1>1, <3>1 DEF TypeInv, TypeOK
    <3> QED
      BY <3>1, <3>2 DEF Back
  <2>7. ASSUME NEW c \in Slots, Members(c) PROVE Back(w, t)
    BY <2>1, <2>2, <2>3, <2>7 DEF Members, RemoveMember, ChangeMemberRole
  <2>8. CASE UNCHANGED vars
    BY <2>1, <2>8 DEF vars
  <2> QED
    BY <1>1, <2>1, <2>4, <2>5, <2>6, <2>7, <2>8, OtherStepsKeepWorkspaces DEF KeepsWorkspaces
<1>2. TypeInv /\ [Next]_vars =>
        [\A w \in Workspaces, t \in Users :
           member[w][t] = "none" /\ member'[w][t] # "none" =>
               \/ creator[w] = Nobody /\ creator'[w] = t
               \/ /\ member'[w][t] # "owner" /\ call' = call
                  /\ \E u \in Users : Authorize(u, "invite", w)]_vars
  BY <1>1 DEF Back
<1> QED
  BY <1>2, InitialTypes, StepTypes, PTL DEF Spec, NoWayBack
=============================================================================
