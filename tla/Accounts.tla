------------------------------ MODULE Accounts ------------------------------
(***************************************************************************)
(* Users, their login sessions and memberships (services/auth_service,     *)
(* core/tenant, workspace_service), the plan a tenant pays for             *)
(* (billing_service) and the codes and links of Telegram accounts          *)
(* (services/telegram/identity).  The handlers that read in one statement  *)
(* and write in a later one are split where another handler's commit can   *)
(* come between; they live in MeteredRequests with the other requests.     *)
(***************************************************************************)
EXTENDS Integers, Sequences, FiniteSets

CONSTANTS
  Users,
  HomeOf,        \* the tenant and workspace a user's signup creates
  Age,           \* the workspaces by created_at
  Operators,     \* users made by cli/ensure_owner_admin before the service starts
  Invitations,   \* memberships an operator adds by hand, beside the owner's own
  Mailer,        \* RESEND_API_KEY is set
  Checkouts,     \* the event ids of completed checkouts, with the tenant and plan of each
  Codes, TelegramUsers,
  MaxSessions    \* bound on the sessions ever created

ASSUME OperatorsAssumption == Operators \subseteq Users
\* A workspace belongs to one organization.
ASSUME HomesAssumption ==
  \A u, v \in Users : HomeOf[u].workspace = HomeOf[v].workspace => HomeOf[u].tenant = HomeOf[v].tenant
ASSUME AgeAssumption == \A u \in Users : Age[HomeOf[u].workspace] \in Nat
ASSUME InvitationsAssumption ==
  \A m \in Invitations :
    m.user \in Users /\ \E u \in Users : m.tenant = HomeOf[u].tenant /\ m.workspace = HomeOf[u].workspace

VARIABLES user, sessions, tokens, members, plan, events, codes, links
accountVars == <<user, sessions, tokens, members, plan, events, codes, links>>

None == "none"
Tenants    == {HomeOf[u].tenant : u \in Users}
Workspaces == {HomeOf[u].workspace : u \in Users}
Plans      == {"FREE"} \cup {e.plan : e \in Checkouts}
ASSUME CheckoutsAssumption == \A e \in Checkouts : e.plan # None

Member(u, role, home) == [user |-> u, role |-> role, tenant |-> home.tenant, workspace |-> home.workspace]
Context == [user : Users, tenant : Tenants, workspace : Workspaces]

AccountsTypeOK ==
  /\ user \in [Users -> {None, "PENDING_VERIFICATION", "ACTIVE"}]
  /\ sessions \in Seq([user : Users, live : BOOLEAN])
  /\ tokens \subseteq [user : Users, purpose : {"EMAIL_VERIFY", "PASSWORD_RESET"}]
  /\ \A m \in members : m.user \in Users /\ m.tenant \in Tenants /\ m.workspace \in Workspaces
  /\ plan \in [Tenants -> Plans \cup {None}]
  /\ events \subseteq Checkouts
  /\ \A k \in Codes : codes[k].state \in {None, "issued", "expired", "consumed"}
  /\ \A tg \in TelegramUsers : links[tg].live \in BOOLEAN

Unissued == [state |-> None]
Unlinked == [live |-> FALSE]

AccountsInit ==
  /\ user = [u \in Users |-> IF u \in Operators THEN "ACTIVE" ELSE None]
  /\ sessions = <<>>
  /\ tokens = {}
  /\ members = {Member(u, "ORG_OWNER", HomeOf[u]) : u \in Operators}
  /\ plan = [t \in Tenants |-> IF \E u \in Operators : HomeOf[u].tenant = t THEN "FREE" ELSE None]
  /\ events = {}
  /\ codes = [k \in Codes |-> Unissued]
  /\ links = [tg \in TelegramUsers |-> Unlinked]
-----------------------------------------------------------------------------
\* core/tenant: the scope of a request.  A hint is only ever matched against a membership;
\* without one the strongest role decides, then the workspace created first.
RoleOrder == [ORG_OWNER |-> 0, ORG_ADMIN |-> 1, ORG_MEMBER |-> 2]
Memberships(u) == {m \in members : m.user = u}

TenantContexts(u, tenantHint) ==
  {m.tenant : m \in {n \in Memberships(u) :
     IF tenantHint = None THEN \A o \in Memberships(u) : RoleOrder[n.role] =< RoleOrder[o.role]
     ELSE n.tenant = tenantHint}}
WorkspacesIn(u, t) == {m.workspace : m \in {n \in Memberships(u) : n.tenant = t}}
DefaultWorkspace(u, t) ==
  CHOOSE w \in WorkspacesIn(u, t) : \A v \in WorkspacesIn(u, t) : Age[w] =< Age[v]

\* Slip for a mutant run: the workspace named by the client is taken as it is.
ResolveUnchecked(u, tenantHint, workspaceHint) ==
  {[user |-> u, tenant |-> t,
    workspace |-> IF workspaceHint = None THEN DefaultWorkspace(u, t) ELSE workspaceHint] :
   t \in TenantContexts(u, tenantHint)}
Resolve(u, tenantHint, workspaceHint) ==
  {[user |-> u, tenant |-> t,
    workspace |-> IF workspaceHint = None THEN DefaultWorkspace(u, t) ELSE workspaceHint] :
   t \in {s \in TenantContexts(u, tenantHint) :
            workspaceHint = None \/ workspaceHint \in WorkspacesIn(u, s)}}
-----------------------------------------------------------------------------
\* auth_service.  Handlers whose overlap with another cannot be told from running after it
\* are one action.
Room == Len(sessions) < MaxSessions
Open(u) == Append(sessions, [user |-> u, live |-> TRUE])
Live(s) == s \in DOMAIN sessions /\ sessions[s].live
Revoked(which) == [s \in DOMAIN sessions |->
                     IF s \in which THEN [sessions[s] EXCEPT !.live = FALSE] ELSE sessions[s]]

\* A session token is granted at once, before the address is verified.
Signup(u) ==
  /\ user[u] = None /\ Room
  /\ user' = [user EXCEPT ![u] = IF Mailer THEN "PENDING_VERIFICATION" ELSE "ACTIVE"]
  /\ members' = members \cup {Member(u, "ORG_OWNER", HomeOf[u])}
  /\ plan' = [plan EXCEPT ![HomeOf[u].tenant] = IF @ = None THEN "FREE" ELSE @]
  /\ tokens' = IF Mailer THEN tokens \cup {[user |-> u, purpose |-> "EMAIL_VERIFY"]} ELSE tokens
  /\ sessions' = Open(u)
  /\ UNCHANGED <<events, codes, links>>

VerifyEmail(u) ==
  /\ [user |-> u, purpose |-> "EMAIL_VERIFY"] \in tokens
  /\ user' = [user EXCEPT ![u] = "ACTIVE"]
  /\ tokens' = tokens \ {[user |-> u, purpose |-> "EMAIL_VERIFY"]}
  /\ UNCHANGED <<sessions, members, plan, events, codes, links>>

TokenExpires(t) ==
  /\ t \in tokens
  /\ tokens' = tokens \ {t}
  /\ UNCHANGED <<user, sessions, members, plan, events, codes, links>>

\* Also what the end of its thirty days does to a session.
Logout(s) ==
  /\ Live(s)
  /\ sessions' = Revoked({s})
  /\ UNCHANGED <<user, tokens, members, plan, events, codes, links>>

RequestPasswordReset(u) ==
  /\ user[u] # None
  /\ tokens' = tokens \cup {[user |-> u, purpose |-> "PASSWORD_RESET"]}
  /\ UNCHANGED <<user, sessions, members, plan, events, codes, links>>

ConfirmPasswordReset(u) ==
  /\ [user |-> u, purpose |-> "PASSWORD_RESET"] \in tokens
  /\ tokens' = tokens \ {[user |-> u, purpose |-> "PASSWORD_RESET"]}
  /\ sessions' = Revoked({s \in DOMAIN sessions : sessions[s].user = u})
  /\ UNCHANGED <<user, members, plan, events, codes, links>>

\* get_user_for_access_token: the session an access token names, for as long as it lives.
Authenticated(s) == Live(s) /\ user[sessions[s].user] = "ACTIVE"
-----------------------------------------------------------------------------
\* No code adds a member to an existing organization.
Join(m) ==
  /\ m \in Invitations \ members
  /\ user[m.user] # None /\ plan[m.tenant] # None
  /\ members' = members \cup {m}
  /\ UNCHANGED <<user, sessions, tokens, plan, events, codes, links>>

\* The billing webhook: an event id already recorded is answered and changes nothing.
CheckoutCompleted(e) ==
  /\ e \in Checkouts \ events /\ plan[e.tenant] # None
  /\ events' = events \cup {e}
  /\ plan' = [plan EXCEPT ![e.tenant] = e.plan]
  /\ UNCHANGED <<user, sessions, tokens, members, codes, links>>
-----------------------------------------------------------------------------
\* services/telegram/identity, under the scope of a request.
IssueLinkCode(k, cx) ==
  /\ codes[k] = Unissued
  /\ codes' = [codes EXCEPT ![k] = [state |-> "issued", cx |-> cx]]
  /\ UNCHANGED <<user, sessions, tokens, members, plan, events, links>>

\* Ten minutes after it was issued.
LinkCodeExpires(k) ==
  /\ codes[k].state = "issued"
  /\ codes' = [codes EXCEPT ![k].state = "expired"]
  /\ UNCHANGED <<user, sessions, tokens, members, plan, events, links>>

RevokeLink(tg, cx) ==
  /\ links[tg].live
  /\ links[tg].cx.workspace = cx.workspace
  /\ links' = [links EXCEPT ![tg].live = FALSE]
  /\ UNCHANGED <<user, sessions, tokens, members, plan, events, codes>>

\* consume_telegram_link_code and create_telegram_link, as the commit makes them visible.
Linked(tg, k) ==
  /\ codes' = [codes EXCEPT ![k].state = "consumed"]
  /\ links' = [links EXCEPT ![tg] = [live |-> TRUE, cx |-> codes[k].cx, code |-> k]]
  /\ UNCHANGED <<user, sessions, tokens, members, plan, events>>

\* to_tenant_context: of a link only the user is used, and the user's default scope answers.
LinkedContexts(tg) == IF links[tg].live THEN Resolve(links[tg].cx.user, None, None) ELSE {}
=============================================================================
