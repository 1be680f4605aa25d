----------------------------- MODULE AgentAccess -----------------------------
(***************************************************************************)
(* Who may act for which agent: the host adapters that place an operator   *)
(* in an installation (apps/api/integrations/db_adapter.py, jwt_adapter.py, *)
(* capabilities.py), the registry of agents and their credentials          *)
(* (agent_control/registry/service.py), the check of a credential          *)
(* (agent_control/ingest/auth.py) and the webhook that suspends an         *)
(* installation (routers/integrations_sgi.py).                             *)
(*                                                                         *)
(* An operator's request resolves its context and reads its rows in one    *)
(* step and writes them in another; a request of an agent checks its       *)
(* credential once and then lasts, as a long poll does.                    *)
(***************************************************************************)
EXTENDS Updates, Integers, FiniteSets, FiniteSetsExt, StateMachines

CONSTANTS Users,          \* operators
          Installations,  \* tenants, numbered by created_at
          Mapped,         \* mc_user_mappings that are active: pairs user, installation
          Company,        \* [Users -> installation]: company_id of the host's token
          Role,           \* [Users -> role of the account, and of the token]
          Agents,         \* agent keys
          Home,           \* [Agents -> installation], the prefix of the key
          Scopes,         \* the sets of scopes a credential may be given
          Deadlines,      \* the moments a credential may expire at
          MaxCred,        \* bound on the credentials issued
          MaxTime,        \* bound on the clock
          Operators,      \* requests of operators in flight
          Sessions        \* requests of agents in flight

ASSUME AccessAssumption ==
    /\ Installations \subseteq Nat
    /\ Mapped \subseteq Users \X Installations
    /\ Company \in [Users -> Installations]
    /\ Home \in [Agents -> Installations]
    /\ Scopes \subseteq SUBSET {"ingest", "commands"}
    /\ Deadlines \subseteq Nat
    /\ {MaxCred, MaxTime} \subseteq Nat

VARIABLES host,          \* MC_HOST_ADAPTER, never changes
          installation,  \* mc_installations.status
          agent,         \* agents: status of the registry and revoked_at
          cred,          \* agent_credentials
          op,            \* what each operator's request has read
          session,       \* the credential each agent's request was let in with
          now            \* the clock

vars == <<host, installation, agent, cred, op, session, now>>

Creds == 1..MaxCred

-----------------------------------------------------------------------------
\* Capabilities.

Capability == {"view", "operate", "manage_agents", "manage_projects", "approve",
               "view_costs", "admin"}

Roles == {"viewer", "developer", "pm", "cto", "admin"}

ROLE_CAPABILITIES ==
    [viewer    |-> {"view"},
     developer |-> {"view", "operate"},
     pm        |-> {"view", "operate", "manage_projects", "approve", "view_costs"},
     cto       |-> {"view", "operate", "manage_projects", "manage_agents", "approve", "view_costs"},
     admin     |-> Capability]

\* An unknown role has no capability.
capabilities_for_role(role) == IF role \in Roles THEN ROLE_CAPABILITIES[role] ELSE {}

\* _SGI_ROLE_TO_MC_ROLE.
SGI_ROLE(role) == CASE role = "agent"   -> "developer"
                    [] role = "manager" -> "pm"
                    [] role = "admin"   -> "admin"
                    [] OTHER            -> "none"

capabilities_for(user) ==
    capabilities_for_role(IF host = "jwt" THEN SGI_ROLE(Role[user]) ELSE Role[user])

-----------------------------------------------------------------------------
\* The tenant of an operator.

\* Where a user belongs, by its mappings or by the company of its token.
Belongs(user, i) == IF host = "jwt" THEN Company[user] = i ELSE <<user, i>> \in Mapped

\* resolve_tenant: the oldest active installation of the user.
Resolvable(user) == {i \in Installations : Belongs(user, i) /\ installation[i] = "active"}

Resolves(user, i) == Resolvable(user) # {} /\ i = Min(Resolvable(user))

-----------------------------------------------------------------------------
\* Credentials.

Unissued == [agent |-> "none", scopes |-> {}, expires_at |-> 0, revoked |-> FALSE,
             rotates |-> 0]

Issued == {c \in Creds : cred[c].agent # "none"}

\* The row an insert creates.
Fresh == Min(Creds \ Issued)

\* Mutant: the revocation is left to the expiry.
UsableUntilExpiry(c) == c \in Issued /\ cred[c].expires_at > now

\* AgentCredential.is_usable.
is_usable(c) == c \in Issued /\ ~cred[c].revoked /\ cred[c].expires_at > now

\* AgentCredential.status: no column holds it.
Status(c) ==
    CASE c \notin Issued                                     -> "absent"
      [] c \in Issued /\ cred[c].revoked                     -> "revoked"
      [] c \in Issued /\ ~cred[c].revoked /\ ~is_usable(c)   -> "expired"
      [] is_usable(c)                                        -> "active"

-----------------------------------------------------------------------------
\* Operators.

Idle == [pc |-> "idle"]

\* Mutant: the agent is looked up by its id alone.
ScopedAnywhere(user, a) == Resolvable(user) # {}

\* get_host_context, require_capability(manage_agents), and the agent of the path
\* or of the key to register: it must be of the installation resolved.
Scoped(user, a) ==
    /\ "manage_agents" \in capabilities_for(user)
    /\ Resolves(user, Home[a])

Enter(o, request) ==
    /\ op[o] = Idle
    /\ op' = [op EXCEPT ![o] = request]
    /\ UNCHANGED <<host, installation, agent, cred, session, now>>

Leave(o) ==
    /\ op' = [op EXCEPT ![o] = Idle]
    /\ UNCHANGED <<host, session, now>>

Drop(o) ==
    /\ op[o] # Idle
    /\ op' = [op EXCEPT ![o] = Idle]
    /\ UNCHANGED <<host, installation, agent, cred, session, now>>

\* register_agent: the key is looked up, and unique.
ReadRegister(o, user, a) ==
    /\ Scoped(user, a)
    /\ agent[a].status = "absent"
    /\ Enter(o, [pc |-> "registering", user |-> user, agent |-> a])

CommitRegister(o) ==
    /\ op[o].pc = "registering"
    /\ agent[op[o].agent].status = "absent"
    /\ agent' = [agent EXCEPT ![op[o].agent] = [status |-> "active", revoked |-> FALSE]]
    /\ Leave(o)
    /\ UNCHANGED <<installation, cred>>

\* revoked_at of the agent after the request.
RevokedAt(read, status) ==
    CASE status = "archived" -> TRUE [] status = "active" -> FALSE [] OTHER -> read.revoked

\* set_status, called with the three statuses of the routes.
ReadStatus(o, user, a, status) ==
    /\ Scoped(user, a)
    /\ agent[a].status # "absent"
    /\ Enter(o, [pc |-> "setting", user |-> user, agent |-> a,
                 status |-> Changed(agent[a].status, status),
                 revoked |-> Changed(agent[a].revoked, RevokedAt(agent[a], status))])

CommitStatus(o) ==
    LET t == op[o]
    IN  /\ t.pc = "setting"
        /\ agent' = [agent EXCEPT ![t.agent] =
               [status  |-> Written(@.status, t.status), revoked |-> Written(@.revoked, t.revoked)]]
        /\ Leave(o)
        /\ UNCHANGED <<installation, cred>>

\* create_credential: refused to an agent revoked or archived when it is read.
ReadCreate(o, user, a, scopes, deadline) ==
    /\ Scoped(user, a)
    /\ agent[a].status \in {"active", "suspended"}
    /\ Enter(o, [pc |-> "creating", user |-> user, agent |-> a,
                 scopes |-> scopes, expires_at |-> deadline])

CommitCreate(o) ==
    LET t == op[o]
    IN  /\ t.pc = "creating"
        /\ Issued # Creds
        /\ cred' = [cred EXCEPT ![Fresh] =
               [Unissued EXCEPT !.agent = t.agent, !.scopes = t.scopes,
                                !.expires_at = t.expires_at]]
        /\ Leave(o)
        /\ UNCHANGED <<installation, agent>>

\* Mutant: a rotation revokes what can still be used, and clears the others.
SupersededUsable(c) == is_usable(c)

\* What a rotation leaves of the old credential.
Superseded(c) == TRUE

\* rotate_credential and revoke_credential read the credential of the agent,
\* whatever the status of either.
ReadCred(o, user, c, pc) ==
    /\ c \in Issued
    /\ Scoped(user, cred[c].agent)
    /\ Enter(o, [pc |-> pc, user |-> user, agent |-> cred[c].agent, cred |-> c,
                 revoked |-> IF pc = "revoking" THEN Changed(cred[c].revoked, TRUE)
                             ELSE Changed(cred[c].revoked, Superseded(c))])

CommitRevoke(o) ==
    LET t == op[o]
    IN  /\ t.pc = "revoking"
        /\ cred' = [cred EXCEPT ![t.cred].revoked = Written(@, t.revoked)]
        /\ Leave(o)
        /\ UNCHANGED <<installation, agent>>

\* The new credential has the scopes and the deadline of the old one.
CommitRotate(o) ==
    LET t == op[o]
    IN  /\ t.pc = "rotating"
        /\ Issued # Creds
        /\ cred' = [cred EXCEPT
               ![t.cred].revoked = Written(@, t.revoked),
               ![Fresh] = [cred[t.cred] EXCEPT !.revoked = FALSE, !.rotates = t.cred]]
        /\ Leave(o)
        /\ UNCHANGED <<installation, agent>>

\* activate_installation: an administrator names the installation it is placed
\* in, which is active then.
ReadActivate(o, user, i) ==
    /\ "admin" \in capabilities_for(user)
    /\ Resolves(user, i)
    /\ Enter(o, [pc |-> "activating", user |-> user, installation |-> i,
                 status |-> Changed(installation[i], "active")])

CommitActivate(o) ==
    LET t == op[o]
    IN  /\ t.pc = "activating"
        /\ installation' = [installation EXCEPT ![t.installation] = Written(@, t.status)]
        /\ Leave(o)
        /\ UNCHANGED <<agent, cred>>

-----------------------------------------------------------------------------
\* Agents, the host and the clock.

\* resolve_agent_credential, require_scope: neither the status of the agent nor
\* that of its installation is looked at.
Authenticate(s, c, scope) ==
    /\ session[s] = 0
    /\ is_usable(c)
    /\ scope \in cred[c].scopes
    /\ session' = [session EXCEPT ![s] = c]
    /\ UNCHANGED <<host, installation, agent, cred, op, now>>

\* A batch, a heartbeat or a long poll ends.
Answer(s) ==
    /\ session[s] # 0
    /\ session' = [session EXCEPT ![s] = 0]
    /\ UNCHANGED <<host, installation, agent, cred, op, now>>

\* sgi_subscription_event: the events carry no order, the last one wins.
sgi_subscription_event(i, enabled) ==
    /\ installation' = [installation EXCEPT ![i] = IF enabled THEN "active" ELSE "suspended"]
    /\ UNCHANGED <<host, agent, cred, op, session, now>>

Tick ==
    /\ now < MaxTime
    /\ now' = now + 1
    /\ UNCHANGED <<host, installation, agent, cred, op, session>>

Init ==
    /\ host \in {"local", "jwt"}
    /\ installation = [i \in Installations |-> "active"]
    /\ agent = [a \in Agents |-> [status |-> "absent", revoked |-> FALSE]]
    /\ cred = [c \in Creds |-> Unissued]
    /\ op = [o \in Operators |-> Idle]
    /\ session = [s \in Sessions |-> 0]
    /\ now = 0

OperatorStep(o) ==
    \/ CommitRegister(o) \/ CommitStatus(o) \/ CommitCreate(o) \/ CommitRevoke(o)
    \/ CommitRotate(o) \/ CommitActivate(o) \/ Drop(o)
    \/ \E user \in Users :
           \/ \E a \in Agents :
                  \/ ReadRegister(o, user, a)
                  \/ \E status \in {"active", "suspended", "archived"} : ReadStatus(o, user, a, status)
                  \/ \E scopes \in Scopes, deadline \in Deadlines :
                         ReadCreate(o, user, a, scopes, deadline)
           \/ \E i \in Installations : ReadActivate(o, user, i)
           \/ \E c \in Creds, pc \in {"rotating", "revoking"} : ReadCred(o, user, c, pc)

Next ==
    \/ \E o \in Operators : OperatorStep(o)
    \/ \E s \in Sessions :
           \/ \E c \in Creds, scope \in {"ingest", "commands"} : Authenticate(s, c, scope)
           \/ Answer(s)
    \/ \E i \in Installations, enabled \in BOOLEAN : sgi_subscription_event(i, enabled)
    \/ Tick

Spec == Init /\ [][Next]_vars

\* A request of an agent ends: a long poll by its timeout, the others by their commit.
FairSpec == Spec /\ \A s \in Sessions : WF_vars(Answer(s))

-----------------------------------------------------------------------------
(***************************************************************************)
(* Properties.                                                             *)
(***************************************************************************)

AgentRow == [status : {"absent", "active", "suspended", "archived"}, revoked : BOOLEAN]

CredRow == [agent : Agents \cup {"none"}, scopes : SUBSET {"ingest", "commands"},
            expires_at : Deadlines \cup {0}, revoked : BOOLEAN, rotates : 0..MaxCred]

Request ==
    {Idle}
      \cup [pc : {"registering"}, user : Users, agent : Agents]
      \cup [pc : {"setting"}, user : Users, agent : Agents,
            status : Column({"active", "suspended", "archived"}), revoked : Column(BOOLEAN)]
      \cup [pc : {"creating"}, user : Users, agent : Agents,
            scopes : SUBSET {"ingest", "commands"}, expires_at : Deadlines]
      \cup [pc : {"activating"}, user : Users, installation : Installations,
            status : Column({"active"})]
      \cup [pc : {"rotating", "revoking"}, user : Users, agent : Agents, cred : Creds,
            revoked : Column({TRUE})]

\* Every variable ranges over what the code can store.
TypeOK ==
    /\ host \in {"local", "jwt"}
    /\ installation \in [Installations -> {"active", "suspended"}]
    /\ agent \in [Agents -> AgentRow]
    /\ cred \in [Creds -> CredRow]
    /\ op \in [Operators -> Request]
    /\ session \in [Sessions -> 0..MaxCred]
    /\ now \in 0..MaxTime

\* Whoever is about to change an agent, its credentials or an installation
\* belongs to the installation concerned, though the one a user is placed in moves
\* as the host suspends and resumes them.
TenantsIsolated ==
    \A o \in Operators : op[o] # Idle =>
        /\ "manage_agents" \in capabilities_for(op[o].user)
        /\ Belongs(op[o].user, IF op[o].pc = "activating" THEN op[o].installation
                               ELSE Home[op[o].agent])

\* A rotation leaves no way in through the credential it replaced, whether that
\* one was expired, revoked or being rotated by somebody else.
RotationRevokes == \A c \in Creds : cred[c].rotates # 0 => cred[cred[c].rotates].revoked

\* A credential acts for the agent it was issued to, and so does what replaces it.
LineageKept ==
    \A c \in Creds : cred[c].rotates # 0 =>
        /\ cred[c].rotates \in Issued
        /\ cred[cred[c].rotates].agent = cred[c].agent
        /\ cred[cred[c].rotates].scopes = cred[c].scopes

\* What makes them inductive: what a request read of a credential lasts, so that
\* one that leaves the revocation unwritten found it done; an activation found the
\* installation active and has nothing to write.
ReadsLast ==
    \A o \in Operators :
        /\ op[o].pc = "activating" => op[o].status = <<>>
        /\ op[o].pc \in {"rotating", "revoking"} =>
               /\ op[o].cred \in Issued
               /\ op[o].agent = cred[op[o].cred].agent
               /\ op[o].revoked = <<>> => cred[op[o].cred].revoked

AccessInv == TypeOK /\ TenantsIsolated /\ RotationRevokes /\ LineageKept /\ ReadsLast

\* No request of an operator lifts a suspension: activate_installation needs an
\* active installation, and one that is suspended meanwhile stays so.
SuspensionHolds ==
    [][\A i \in Installations :
          installation[i] = "suspended" /\ op' # op => installation'[i] = "suspended"]_vars

\* The machine of the credentials.  It is not the frozen one: a credential that has
\* expired may be revoked, and a rotation gives the new one the deadline of the old
\* one, which may have passed.
CredentialLife == INSTANCE Lifecycle
    WITH Entities <- Creds, States <- CredentialStates, Births <- {"active", "expired"},
         Moves <- CREDENTIAL_TRANSITIONS \cup {<<"expired", "revoked">>},
         state <- [c \in Creds |-> Status(c)]

\* A step that touches a credential or the clock, which are all a status is read off,
\* moves every status along that machine, though requests write the columns of what
\* they read long ago: once revoked or expired, a credential is never usable again.
CredentialsFollowMachine ==
    CredentialLife!Init /\ [][UNCHANGED <<cred, now>> \/ CredentialLife!Next]_vars

\* Once a credential is revoked no new request enters with it, and the requests
\* under way end: from some moment on nobody acts with it.
RevokedFallsSilent ==
    \A c \in Creds : [](cred[c].revoked => <>[](\A s \in Sessions : session[s] # c))
=============================================================================
