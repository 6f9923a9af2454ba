------------------------------ MODULE Accounts ------------------------------
(***************************************************************************)
(* Who may act on a port: sign-in through an identity provider and with    *)
(* the local password (server/src/api/sso.rs, admin.rs), provisioning      *)
(* (server/src/api/scim.rs), the rows of principals, tombstones and tokens *)
(* (server/src/store.rs), and the signed cookies that stand for a session  *)
(* (server/src/auth.rs).  Nothing is remembered of a cookie: whether it is *)
(* good is decided from the rows whenever it is used.                      *)
(*                                                                         *)
(* One tenant, with an incarnation each time it is created, and one group, *)
(* which administers it.  A cookie's lifetime is left out: it may be used  *)
(* as long as the rows admit it.                                           *)
(***************************************************************************)
EXTENDS Integers, FiniteSets

CONSTANTS
  Subjects,        \* principals of the identity provider
  Local,           \* the local administrator
  SignIns,         \* sign-ins under way at once
  Visits,          \* requests with a cookie under way at once
  TokenCap,        \* MAX_AUTOMATION_TOKENS_PER_TENANT
  MaxRevocations, MaxIncarnations, MaxPasswords, MaxTokens,
  Topics           \* what a behaviour is about: the features it uses, its
                   \* sign-ins and requests, the claims the provider makes of
                   \* the group, and how many cookies and revocations it has

\* provisioning is the setting require_provisioning; the others are what may
\* happen.
Features == {"keys", "desktop", "password", "tenant", "token", "purge", "restart", "group",
             "provisioning"}

ASSUME AccountsAssumption ==
  /\ Local \notin Subjects
  /\ \A t \in Topics :
       /\ t.about \subseteq Features
       /\ t.signins \subseteq SignIns /\ t.visits \subseteq Visits /\ t.claims \subseteq BOOLEAN
       /\ t.cookies \in Nat /\ t.revocations \in 0 .. MaxRevocations
  /\ {TokenCap, MaxRevocations, MaxPasswords, MaxTokens} \subseteq Nat
  /\ MaxIncarnations \in Nat \ {0}

VARIABLES
  topic,
  principal,  \* per subject: its row in principals
  tomb,       \* per subject: the version its purge left behind, 0 for none
  members,    \* the SCIM group
  tenant,     \* the tenant's incarnation (0 while absent), and the last one
  removal,    \* the step of delete_tenant
  password,   \* the version of the local password
  slot,       \* SsoSlot, with the provider's key it was discovered with
  idpKey,     \* the key the provider signs with
  signin,     \* per sign-in: its progress
  visit,      \* per request: its progress
  handoffs,   \* DesktopSignIns
  cookies,    \* the cookies issued so far
  tokens,     \* automation_tokens
  revoked     \* history, per subject: how often it was revoked

avars == <<topic, principal, tomb, members, tenant, removal, password, slot, idpKey, signin, visit,
           handoffs, cookies, tokens, revoked>>

NoRow == [row |-> FALSE, cv |-> 0, blocked |-> FALSE]
\* AdminIdentity: who it is, its credential version, its role in the default
\* tenant, the incarnation of the tenant it was granted and the tenant it acts
\* in.  Two fields are history: who signed in, and the revocations by then.
LocalAdmin ==
  [subject |-> Local, who |-> Local, cv |-> 1, era |-> 0, role |-> "admin", grant |-> 0, acts |-> "default"]
NotSigning == [pc |-> "idle", then |-> "idle", key |-> 0, desktop |-> FALSE, grouped |-> FALSE, id |-> LocalAdmin]
NotVisiting == [pc |-> "idle", id |-> LocalAdmin]

About(feature) == feature \in topic.about

AccountsInit ==
  /\ topic \in Topics
  /\ principal = [s \in Subjects |-> NoRow] /\ tomb = [s \in Subjects |-> 0]
  /\ members = {} /\ tenant = [now |-> 1, last |-> 1] /\ removal = "none"
  /\ password = 1
  /\ slot = [state |-> IF About("keys") THEN "empty" ELSE "ready", key |-> 1] /\ idpKey = 1
  /\ signin = [f \in SignIns |-> NotSigning] /\ visit = [v \in Visits |-> NotVisiting]
  /\ handoffs = {} /\ cookies = {} /\ tokens = {}
  /\ revoked = [s \in Subjects |-> 0]

At(f, at) == signin[f].pc = at
Proceeds(f, to) == signin' = [signin EXCEPT ![f].pc = to]
GivesUp(f) == signin' = [signin EXCEPT ![f] = NotSigning]

----------------------------------------------------------------------------
\* The provider's client.

\* get_or_discover_with: the client, or the claim to discover one.
NeedsClient(f, then) ==
  \/ /\ slot.state = "ready"
     /\ signin' = [signin EXCEPT ![f].pc = then, ![f].key = slot.key]
     /\ UNCHANGED slot
  \/ /\ slot.state \in {"empty", "cooled"}
     /\ slot' = [slot EXCEPT !.state = "discovering"]
     /\ signin' = [signin EXCEPT ![f].pc = "discover", ![f].then = then]
  \/ /\ slot.state \in {"discovering", "failed"}
     /\ GivesUp(f) /\ UNCHANGED slot

\* Mutant: a claim dropped with its request leaves the slot discovering.
DiscoveredUndropped(f) ==
  /\ At(f, "discover")
  /\ \/ /\ slot' = [state |-> "ready", key |-> idpKey]
        /\ signin' = [signin EXCEPT ![f].pc = signin[f].then, ![f].key = idpKey]
     \/ GivesUp(f) /\ UNCHANGED slot
  /\ UNCHANGED <<topic, principal, tomb, members, tenant, removal, password, idpKey, visit, handoffs,
                 cookies, tokens, revoked>>
\* The answer of the provider, or its failure; a request whose client goes away
\* drops its DiscoveringClaim.
Discovered(f) ==
  /\ At(f, "discover")
  /\ \/ /\ slot' = [state |-> "ready", key |-> idpKey]
        /\ signin' = [signin EXCEPT ![f].pc = signin[f].then, ![f].key = idpKey]
     \/ slot' = [slot EXCEPT !.state = "failed"] /\ GivesUp(f)
  /\ UNCHANGED <<topic, principal, tomb, members, tenant, removal, password, idpKey, visit, handoffs,
                 cookies, tokens, revoked>>
CooldownPasses ==
  /\ slot.state = "failed" /\ slot' = [slot EXCEPT !.state = "cooled"]
  /\ UNCHANGED <<topic, principal, tomb, members, tenant, removal, password, idpKey, signin, visit,
                 handoffs, cookies, tokens, revoked>>
KeyRolls ==
  /\ About("keys") /\ idpKey = 1 /\ idpKey' = 2
  /\ UNCHANGED <<topic, principal, tomb, members, tenant, removal, password, slot, signin, visit,
                 handoffs, cookies, tokens, revoked>>

----------------------------------------------------------------------------
\* Sign-in.

\* sso_start.
SsoStart(f, desktop) ==
  /\ At(f, "idle") /\ desktop => About("desktop")
  /\ \/ /\ slot.state = "ready"
        /\ signin' = [signin EXCEPT ![f] = [NotSigning EXCEPT !.pc = "away", !.desktop = desktop]]
        /\ UNCHANGED slot
     \/ /\ slot.state \in {"empty", "cooled"} /\ slot' = [slot EXCEPT !.state = "discovering"]
        /\ signin' = [signin EXCEPT ![f] =
             [NotSigning EXCEPT !.pc = "discover", !.then = "away", !.desktop = desktop]]
  /\ UNCHANGED <<topic, principal, tomb, members, tenant, removal, password, idpKey, visit, handoffs,
                 cookies, tokens, revoked>>

\* sso_callback: the flow's signed state holds and the client is at hand.
SsoCallback(f) ==
  /\ At(f, "away") /\ NeedsClient(f, "exchange")
  /\ UNCHANGED <<topic, principal, tomb, members, tenant, removal, password, idpKey, visit, handoffs,
                 cookies, tokens, revoked>>

\* The token exchange, the verification of the id token and the user's claims.
\* A token the cached keys cannot verify drops the client in the slot.
TokenExchange(f) ==
  /\ At(f, "exchange")
  /\ \/ /\ signin[f].key = idpKey
        /\ \E s \in Subjects, claimed \in topic.claims :
             signin' = [signin EXCEPT ![f].pc = "claims", ![f].grouped = claimed,
                                      ![f].id = [LocalAdmin EXCEPT !.subject = s, !.who = s]]
        /\ UNCHANGED slot
     \/ /\ signin[f].key # idpKey /\ GivesUp(f)
        /\ slot' = IF slot.state = "ready" THEN [slot EXCEPT !.state = "failed"] ELSE slot
     \/ GivesUp(f) /\ UNCHANGED slot
  /\ UNCHANGED <<topic, principal, tomb, members, tenant, removal, password, idpKey, visit, handoffs,
                 cookies, tokens, revoked>>

\* merge_scim_groups and sso_role.
MergeGroups(f) ==
  /\ At(f, "claims")
  /\ LET grouped == signin[f].grouped \/ signin[f].id.subject \in members IN
     signin' = [signin EXCEPT ![f].pc = IF About("provisioning") THEN "provisioned" ELSE "grants",
                              ![f].grouped = grouped,
                              ![f].id.role = IF grouped THEN "admin" ELSE "viewer"]
  /\ UNCHANGED <<topic, principal, tomb, members, tenant, removal, password, slot, idpKey, visit,
                 handoffs, cookies, tokens, revoked>>

\* finish_sso_login: the provisioning check, the tenants, the row.
CheckProvisioned(f) ==
  /\ At(f, "provisioned")
  /\ IF principal[signin[f].id.subject].row THEN Proceeds(f, "grants") ELSE GivesUp(f)
  /\ UNCHANGED <<topic, principal, tomb, members, tenant, removal, password, slot, idpKey, visit,
                 handoffs, cookies, tokens, revoked>>
ReadTenants(f) ==
  /\ At(f, "grants")
  /\ signin' = [signin EXCEPT ![f].pc = "upsert",
                              ![f].id.grant = IF signin[f].grouped THEN tenant.now ELSE 0]
  /\ UNCHANGED <<topic, principal, tomb, members, tenant, removal, password, slot, idpKey, visit,
                 handoffs, cookies, tokens, revoked>>

\* Mutant: a purged subject starts over.
FreshVersionOne(s) == 1
\* The version a new row of a subject begins with.
FreshVersion(s) == IF tomb[s] # 0 THEN tomb[s] + 1 ELSE 1
\* upsert_sso_principal.
Upserted(s) == IF principal[s].row THEN principal[s] ELSE [NoRow EXCEPT !.row = TRUE, !.cv = FreshVersion(s)]

FinishLogin(f) ==
  /\ At(f, "upsert")
  /\ LET s == signin[f].id.subject
         id == [signin[f].id EXCEPT !.cv = Upserted(s).cv, !.era = revoked[s]] IN
     /\ principal' = [principal EXCEPT ![s] = Upserted(s)]
     /\ tomb' = [tomb EXCEPT ![s] = 0]
     /\ \/ Upserted(s).blocked /\ GivesUp(f) /\ UNCHANGED handoffs
        \/ /\ ~Upserted(s).blocked /\ signin[f].desktop
           /\ handoffs' = handoffs \cup {id} /\ GivesUp(f)
        \/ /\ ~Upserted(s).blocked /\ ~signin[f].desktop
           /\ signin' = [signin EXCEPT ![f].pc = "issue", ![f].id = id] /\ UNCHANGED handoffs
  /\ UNCHANGED <<topic, members, tenant, removal, password, slot, idpKey, visit, cookies, tokens, revoked>>

\* issue_admin_cookie: the signature covers the password in force now.
Signed(id) == [id |-> id, password |-> password]
Issue(id) == Cardinality(cookies) < topic.cookies /\ cookies' = cookies \cup {Signed(id)}

SignedIn(f) ==
  /\ At(f, "issue") /\ Issue(signin[f].id) /\ GivesUp(f)
  /\ UNCHANGED <<topic, principal, tomb, members, tenant, removal, password, slot, idpKey, visit,
                 handoffs, tokens, revoked>>
\* sso_exchange: the desktop app redeems its code, once; or it expires.
SsoExchange(id) ==
  /\ id \in handoffs /\ handoffs' = handoffs \ {id}
  /\ Issue(id) \/ UNCHANGED cookies
  /\ UNCHANGED <<topic, principal, tomb, members, tenant, removal, password, slot, idpKey, signin,
                 visit, tokens, revoked>>
\* admin_login: the password was right when it was verified.
AdminLogin(f) ==
  /\ At(f, "idle") /\ About("password")
  /\ signin' = [signin EXCEPT ![f] = [NotSigning EXCEPT !.pc = "issue"]]
  /\ UNCHANGED <<topic, principal, tomb, members, tenant, removal, password, slot, idpKey, visit,
                 handoffs, cookies, tokens, revoked>>

----------------------------------------------------------------------------
\* Principals.

\* provision_principal, of create_user (one created inactive is then revoked).
CreateUser(s) ==
  /\ ~principal[s].row
  /\ principal' = [principal EXCEPT ![s] = [NoRow EXCEPT !.row = TRUE, !.cv = FreshVersion(s)]]
  /\ tomb' = [tomb EXCEPT ![s] = 0]
  /\ UNCHANGED <<topic, members, tenant, removal, password, slot, idpKey, signin, visit, handoffs,
                 cookies, tokens, revoked>>

EndTokens(S) == tokens' = {[t EXCEPT !.live = t.live /\ t.by \notin S] : t \in tokens}
\* Mutant: the tokens of a revoked principal go on.
RevokePrincipalOnly(s) ==
  /\ principal[s].row /\ revoked[s] < topic.revocations
  /\ principal' = [principal EXCEPT ![s].cv = @ + 1, ![s].blocked = TRUE]
  /\ revoked' = [revoked EXCEPT ![s] = @ + 1]
  /\ UNCHANGED <<topic, tomb, members, tenant, removal, password, slot, idpKey, signin, visit, handoffs,
                 cookies, tokens>>
\* revoke_principal, of the administrator and of SCIM (active = false, DELETE).
RevokePrincipal(s) ==
  /\ principal[s].row /\ revoked[s] < topic.revocations
  /\ principal' = [principal EXCEPT ![s].cv = @ + 1, ![s].blocked = TRUE]
  /\ EndTokens({s})
  /\ revoked' = [revoked EXCEPT ![s] = @ + 1]
  /\ UNCHANGED <<topic, tomb, members, tenant, removal, password, slot, idpKey, signin, visit, handoffs,
                 cookies>>
\* unblock_principal, of the administrator and of SCIM (active = true).
UnblockPrincipal(s) ==
  /\ principal[s].row /\ principal[s].blocked
  /\ principal' = [principal EXCEPT ![s].blocked = FALSE]
  /\ UNCHANGED <<topic, tomb, members, tenant, removal, password, slot, idpKey, signin, visit, handoffs,
                 cookies, tokens, revoked>>
\* purge_principal.
PurgePrincipal(s) ==
  /\ About("purge") /\ principal[s].row /\ principal[s].blocked
  /\ tomb' = [tomb EXCEPT ![s] = principal[s].cv]
  /\ principal' = [principal EXCEPT ![s] = NoRow]
  /\ members' = members \ {s}
  /\ UNCHANGED <<topic, tenant, removal, password, slot, idpKey, signin, visit, handoffs, cookies,
                 tokens, revoked>>
\* Every transaction on the group leaves some set of members.
ChangeGroup(S) ==
  /\ About("group") /\ S # members /\ members' = S
  /\ UNCHANGED <<topic, principal, tomb, tenant, removal, password, slot, idpKey, signin, visit,
                 handoffs, cookies, tokens, revoked>>

\* A restart forgets what was under way.  With another issuer,
\* migrate_oidc_subjects revokes every principal.
Restart(issuer) ==
  /\ About("restart") /\ slot' = [state |-> "empty", key |-> 0] /\ handoffs' = {}
  /\ signin' = [f \in SignIns |-> NotSigning] /\ visit' = [v \in Visits |-> NotVisiting]
  /\ removal' = "none"
  /\ IF issuer
     THEN /\ \A s \in Subjects : revoked[s] < topic.revocations
          /\ EndTokens({s \in Subjects : principal[s].row})
          /\ principal' = [s \in Subjects |->
               IF principal[s].row THEN [principal[s] EXCEPT !.cv = @ + 1, !.blocked = TRUE] ELSE NoRow]
          /\ revoked' = [s \in Subjects |-> IF principal[s].row THEN revoked[s] + 1 ELSE revoked[s]]
     ELSE UNCHANGED <<principal, tokens, revoked>>
  /\ UNCHANGED <<topic, tomb, members, tenant, password, idpKey, cookies>>

----------------------------------------------------------------------------
\* Requests with a cookie.

\* Mutant: the tombstone of a purged principal is not asked.
PrincipalAllowsMissing(s, cv) ==
  IF principal[s].row THEN cv = principal[s].cv /\ ~principal[s].blocked ELSE cv = 1
\* principal_allows.
PrincipalAllows(s, cv) ==
  IF principal[s].row THEN cv = principal[s].cv /\ ~principal[s].blocked ELSE cv = 1 /\ tomb[s] = 0
\* verify_admin_token, and the row behind the identity.
Admits(c) ==
  /\ c.password = password
  /\ c.id.subject # Local => PrincipalAllows(c.id.subject, c.id.cv)

InVisit(v, at) == visit[v].pc = at
Goes(v, to) == visit' = [visit EXCEPT ![v].pc = to]
\* Drop of the AdminSession, with its operation.
Leaves(v) == visit' = [visit EXCEPT ![v] = NotVisiting]
VisitUnchanged ==
  UNCHANGED <<topic, principal, tomb, members, tenant, removal, slot, idpKey, signin, handoffs, revoked>>

\* require_admin_session: the cookie, then an operation of the tenant, then the
\* incarnations.
VisitBegins(v, c) ==
  /\ InVisit(v, "idle") /\ Admits(c)
  /\ visit' = [visit EXCEPT ![v] = [pc |-> "admitted", id |-> c.id]]
  /\ VisitUnchanged /\ UNCHANGED <<password, cookies, tokens>>
\* Mutant: the request acts without an operation of its tenant.
TenantOperationLate(v) ==
  /\ InVisit(v, "admitted") /\ Goes(v, "operating")
  /\ VisitUnchanged /\ UNCHANGED <<password, cookies, tokens>>
TenantOperation(v) ==
  /\ InVisit(v, "admitted")
  /\ IF visit[v].id.acts = "tenant" /\ removal # "none" THEN Leaves(v) ELSE Goes(v, "operating")
  /\ VisitUnchanged /\ UNCHANGED <<password, cookies, tokens>>
\* The grants that still hold; a local session whose tenant is gone acts in the
\* default one.
Retained(id) ==
  IF id.subject = Local
  THEN [id EXCEPT !.grant = tenant.now, !.acts = IF tenant.now = 0 THEN "default" ELSE @]
  ELSE [id EXCEPT !.grant = IF @ = tenant.now THEN @ ELSE 0]
CheckGrants(v) ==
  /\ InVisit(v, "operating")
  /\ LET id == Retained(visit[v].id) IN
     IF id.acts = "tenant" /\ id.grant = 0
     THEN Leaves(v)
     ELSE visit' = [visit EXCEPT ![v] = [pc |-> "acting", id |-> id]]
  /\ VisitUnchanged /\ UNCHANGED <<password, cookies, tokens>>
\* Mutant: the new cookie carries the version of now.
SwitchTenantAnew(v) ==
  /\ InVisit(v, "acting") /\ visit[v].id.subject # Local
  /\ Issue([visit[v].id EXCEPT !.acts = "default", !.cv = principal[visit[v].id.subject].cv])
  /\ Leaves(v) /\ VisitUnchanged /\ UNCHANGED <<password, tokens>>
\* switch_tenant: a cookie for the other tenant, with the identity verified at
\* the start.
SwitchTenant(v) ==
  /\ About("tenant") /\ InVisit(v, "acting")
  /\ \/ /\ visit[v].id.acts = "default" /\ visit[v].id.grant # 0
        /\ removal = "none" /\ visit[v].id.grant = tenant.now
        /\ Issue([visit[v].id EXCEPT !.acts = "tenant"])
     \/ visit[v].id.acts = "tenant" /\ Issue([visit[v].id EXCEPT !.acts = "default"])
  /\ Leaves(v) /\ VisitUnchanged /\ UNCHANGED <<password, tokens>>
\* The role in the tenant acted in.
Administers(id) == id.acts = "tenant" \/ id.role = "admin"
\* admin_change_password: the current one verified, the new one set, the cookie
\* issued again for the same identity.
VerifyCurrent(v) ==
  /\ About("password") /\ InVisit(v, "acting") /\ visit[v].id.acts = "default" /\ Administers(visit[v].id)
  /\ Goes(v, "changing") /\ VisitUnchanged /\ UNCHANGED <<password, cookies, tokens>>
SetPassword(v) ==
  /\ InVisit(v, "changing") /\ password < MaxPasswords /\ password' = password + 1
  /\ Goes(v, "changed") /\ VisitUnchanged /\ UNCHANGED <<cookies, tokens>>
\* Mutant: whoever changes the password goes on as the local administrator.
ReissuedLocal(id) == [LocalAdmin EXCEPT !.who = id.who, !.era = id.era]
Reissued(id) == IF id.subject = Local THEN LocalAdmin ELSE id
PasswordChanged(v) ==
  /\ InVisit(v, "changed") /\ Issue(Reissued(visit[v].id))
  /\ Leaves(v) /\ VisitUnchanged /\ UNCHANGED <<password, tokens>>

LiveTokens == {t \in tokens : t.live}
\* create_automation_token: the count, then the insert, which counts again.
CountTokens(v) ==
  /\ About("token") /\ InVisit(v, "acting") /\ Administers(visit[v].id) /\ Cardinality(LiveTokens) < TokenCap
  /\ Goes(v, "minting") /\ VisitUnchanged /\ UNCHANGED <<password, cookies, tokens>>
\* The row of a token.  Two fields are history: the revocations by the time its
\* minter signed in, and by the time of the insert.
Minted(n, id) ==
  [n |-> n, by |-> id.subject, live |-> TRUE, era |-> id.era,
   born |-> IF id.subject = Local THEN 0 ELSE revoked[id.subject]]
\* Mutant: the insert relies on the count before it.
InsertTokenUncounted(v) ==
  /\ InVisit(v, "minting") /\ Cardinality(tokens) < MaxTokens
  /\ \E n \in 1 .. MaxTokens :
       /\ \A t \in tokens : t.n # n
       /\ tokens' = tokens \cup {Minted(n, visit[v].id)}
  /\ Leaves(v) /\ VisitUnchanged /\ UNCHANGED <<password, cookies>>
InsertToken(v) ==
  /\ InVisit(v, "minting") /\ Cardinality(tokens) < MaxTokens
  /\ \/ /\ Cardinality(LiveTokens) < TokenCap
        /\ \E n \in 1 .. MaxTokens :
             /\ \A t \in tokens : t.n # n
             /\ tokens' = tokens \cup {Minted(n, visit[v].id)}
     \/ Cardinality(LiveTokens) >= TokenCap /\ UNCHANGED tokens
  /\ Leaves(v) /\ VisitUnchanged /\ UNCHANGED <<password, cookies>>
\* delete_automation_token.
DeleteToken(t) ==
  /\ t \in LiveTokens /\ tokens' = (tokens \ {t}) \cup {[t EXCEPT !.live = FALSE]}
  /\ VisitUnchanged /\ UNCHANGED <<password, cookies, visit>>
\* Every other end of a request, its client gone included.
VisitEnds(v) ==
  /\ ~InVisit(v, "idle") /\ Leaves(v)
  /\ VisitUnchanged /\ UNCHANGED <<password, cookies, tokens>>

----------------------------------------------------------------------------
\* The tenant.

Operations == {v \in Visits : visit[v].id.acts = "tenant" /\ ~InVisit(v, "idle") /\ ~InVisit(v, "admitted")}
TenantUnchanged ==
  UNCHANGED <<topic, principal, tomb, members, password, slot, idpKey, signin, visit, handoffs, cookies,
              tokens, revoked>>
\* create_tenant.
CreateTenant ==
  /\ removal = "none" /\ tenant.now = 0 /\ tenant.last < MaxIncarnations
  /\ tenant' = [now |-> tenant.last + 1, last |-> tenant.last + 1]
  /\ TenantUnchanged /\ UNCHANGED removal
\* delete_tenant: the pin, the operations under way, the row, the subtrees.
PinTenant ==
  /\ About("tenant") /\ removal = "none" /\ tenant.now # 0 /\ removal' = "pinned"
  /\ TenantUnchanged /\ UNCHANGED tenant
CheckOperations ==
  /\ removal = "pinned" /\ removal' = IF Operations = {} THEN "idle" ELSE "none"
  /\ TenantUnchanged /\ UNCHANGED tenant
RemoveTenant ==
  /\ removal = "idle" /\ tenant' = [tenant EXCEPT !.now = 0] /\ removal' = "purging"
  /\ TenantUnchanged
PurgeEnds ==
  /\ removal = "purging" /\ removal' = "none"
  /\ TenantUnchanged /\ UNCHANGED tenant

----------------------------------------------------------------------------
AccountsNext ==
  \/ CooldownPasses \/ KeyRolls
  \/ \E f \in topic.signins :
       \/ \E d \in BOOLEAN : SsoStart(f, d)
       \/ Discovered(f) \/ SsoCallback(f) \/ TokenExchange(f) \/ MergeGroups(f)
       \/ CheckProvisioned(f) \/ ReadTenants(f) \/ FinishLogin(f) \/ SignedIn(f) \/ AdminLogin(f)
  \/ \E id \in handoffs : SsoExchange(id)
  \/ \E s \in Subjects :
       CreateUser(s) \/ RevokePrincipal(s) \/ UnblockPrincipal(s) \/ PurgePrincipal(s)
  \/ \E S \in SUBSET Subjects : ChangeGroup(S)
  \/ \E b \in BOOLEAN : Restart(b)
  \/ \E v \in topic.visits :
       \/ \E c \in cookies : VisitBegins(v, c)
       \/ TenantOperation(v) \/ CheckGrants(v) \/ SwitchTenant(v)
       \/ VerifyCurrent(v) \/ SetPassword(v) \/ PasswordChanged(v)
       \/ CountTokens(v) \/ InsertToken(v) \/ VisitEnds(v)
  \/ \E t \in LiveTokens : DeleteToken(t)
  \/ CreateTenant \/ PinTenant \/ CheckOperations \/ RemoveTenant \/ PurgeEnds
AccountsSpec == AccountsInit /\ [][AccountsNext]_avars

----------------------------------------------------------------------------
Versions == 0 .. 2 * MaxRevocations + 2
Identities ==
  [subject : Subjects \cup {Local}, who : Subjects \cup {Local}, cv : Versions, era : 0 .. MaxRevocations,
   role : {"admin", "viewer"}, grant : 0 .. MaxIncarnations, acts : {"default", "tenant"}]
\* The type invariant.
AccountsTypeOK ==
  /\ principal \in [Subjects -> [row : BOOLEAN, cv : Versions, blocked : BOOLEAN]]
  /\ tomb \in [Subjects -> Versions] /\ members \subseteq Subjects
  /\ tenant \in [now : 0 .. MaxIncarnations, last : 0 .. MaxIncarnations]
  /\ removal \in {"none", "pinned", "idle", "purging"}
  /\ password \in 1 .. MaxPasswords \cup {1}
  /\ slot \in [state : {"empty", "discovering", "ready", "failed", "cooled"}, key : 0 .. 2]
  /\ idpKey \in 1 .. 2
  /\ \A f \in SignIns : signin[f].id \in Identities
  /\ \A v \in Visits : visit[v].id \in Identities
  /\ handoffs \subseteq Identities
  /\ \A c \in cookies : c.id \in Identities
  /\ \A t \in tokens : t.by \in Subjects \cup {Local} /\ t.live \in BOOLEAN
  /\ revoked \in [Subjects -> 0 .. MaxRevocations]

\* create_automation_token: a token of a request that its cookie authorized
\* before the last revocation and that inserted the token after it.  Nothing
\* looks at the principal between the two, so the token is good until it expires.
MintedLate(t) == t.era < t.born /\ t.born = revoked[t.by]

\* revoke_principal, purge_principal, principal_allows: no cookie outlives the
\* revocation of the subject that signed in for it, whatever it was reissued
\* as, handed over to, or purged and created again since; a revocation ends
\* every token its principal has, and the only ones its principal has later
\* without signing in again are those of requests already under way.
RevocationHolds ==
  /\ \A c \in cookies : Admits(c) /\ c.id.who # Local => c.id.era = revoked[c.id.who]
  /\ \A t \in LiveTokens : t.by # Local => t.era = revoked[t.by] \/ MintedLate(t)
  /\ Cardinality(LiveTokens) <= TokenCap

\* tenant_operation, tenant_incarnations: a request acts in a tenant only while
\* that tenant, in the incarnation it was granted, exists and is not purged.
ActsInItsTenant ==
  \A v \in Visits :
    visit[v].pc \in {"acting", "minting"} /\ visit[v].id.acts = "tenant" =>
      visit[v].id.grant = tenant.now /\ removal # "purging"

\* DiscoveringClaim: the slot says discovering only while a sign-in discovers.
DiscoveryClaimed ==
  slot.state = "discovering" => \E f \in SignIns : At(f, "discover")

\* store.rs, auth.rs, sso.rs: a revocation ends every cookie and every token its
\* principal has by then, a request acts in the tenant it was granted, and the
\* slot of the provider is never left discovering.
AccountsHold == AccountsTypeOK /\ RevocationHolds /\ ActsInItsTenant /\ DiscoveryClaimed
=============================================================================
