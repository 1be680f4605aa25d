-------------------------- MODULE AgentAccessProofs --------------------------
(***************************************************************************)
(* Access for any number of users, installations, agents, credentials and  *)
(* requests: tenants stay apart, a rotation leaves one way in and never    *)
(* widens it, and no request of an operator lifts a suspension.  Then the  *)
(* live agents of V0: nobody who enrolled undisturbed is locked out, and   *)
(* no agent without a status file is deleted.                              *)
(***************************************************************************)
EXTENDS AgentAccess, AgentPresence, Orders, TLAPS

\* A user placed in an installation belongs to it, and it is active.
LEMMA ResolvedBelongs ==
    ASSUME NEW user, NEW i, Resolves(user, i)
    PROVE  i \in Installations /\ Belongs(user, i) /\ installation[i] = "active"
<1>1. Resolvable(user) \in SUBSET Nat /\ Resolvable(user) # {}
  BY AccessAssumption DEF AccessAssumption, Resolves, Resolvable
<1>2. \E n \in Resolvable(user) : \A m \in Resolvable(user) : n <= m
  BY <1>1, LeastNumber
<1>3. i \in Resolvable(user)
  BY <1>2 DEF Resolves, Min
<1> QED
  BY <1>3 DEF Resolvable

\* The row an insert creates is a new one.
LEMMA FreshIsNew ==
    ASSUME Issued # Creds
    PROVE  Fresh \in Creds /\ Fresh \notin Issued /\ Fresh # 0
<1>1. Creds \ Issued \in SUBSET Nat /\ Creds \ Issued # {}
  BY AccessAssumption DEF AccessAssumption, Creds, Issued
<1>2. \E n \in Creds \ Issued : \A m \in Creds \ Issued : n <= m
  BY <1>1, LeastNumber
<1>3. Fresh \in Creds \ Issued
  BY <1>2 DEF Fresh, Min
<1> QED
  BY <1>3, AccessAssumption DEF AccessAssumption, Creds

\* The one role that may activate an installation may manage its agents.
LEMMA AdminManages ==
    ASSUME NEW user, "admin" \in capabilities_for(user)
    PROVE  "manage_agents" \in capabilities_for(user)
BY DEF capabilities_for, capabilities_for_role, ROLE_CAPABILITIES, Roles, Capability

LEMMA InitAccess == Init => AccessInv
<1> SUFFICES ASSUME Init PROVE AccessInv
  OBVIOUS
<1>1. TypeOK
  BY AccessAssumption DEF AccessAssumption, Init, TypeOK, AgentRow, CredRow, Unissued, Request, Idle, Creds
<1> QED
  BY <1>1 DEF Init, AccessInv, TenantsIsolated, RotationRevokes, LineageKept, ReadsLast, Idle, Unissued

\* A request that enters for an agent or an installation its user is placed in.
LEMMA EnterStep ==
    ASSUME AccessInv, NEW o \in Operators, NEW user \in Users, NEW entry \in Request,
           Enter(o, entry), entry # Idle, entry.user = user,
           "manage_agents" \in capabilities_for(user),
           Resolves(user, IF entry.pc = "activating" THEN entry.installation
                          ELSE Home[entry.agent]),
           entry.pc \in {"rotating", "revoking"} =>
               /\ entry.cred \in Issued
               /\ entry.agent = cred[entry.cred].agent
               /\ entry.revoked = <<>> => cred[entry.cred].revoked,
           entry.pc = "activating" => entry.status = <<>>
    PROVE  AccessInv'
<1>1. /\ op' = [op EXCEPT ![o] = entry]
      /\ UNCHANGED <<host, installation, agent, cred, session, now>>
  BY DEF Enter
<1>2. TypeOK'
  BY <1>1 DEF AccessInv, TypeOK
<1>3. Belongs(user, IF entry.pc = "activating" THEN entry.installation ELSE Home[entry.agent])
  BY ResolvedBelongs
<1>4. \A p \in Operators : op'[p] = IF p = o THEN entry ELSE op[p]
  BY <1>1 DEF AccessInv, TypeOK
<1>5. \A u, i : Belongs(u, i) <=> Belongs(u, i)'
  BY <1>1 DEF Belongs
<1>6. \A u : capabilities_for(u) = capabilities_for(u)'
  BY <1>1 DEF capabilities_for
<1>7. TenantsIsolated'
  BY <1>3, <1>4, <1>5, <1>6 DEF AccessInv, TenantsIsolated
<1>8. RotationRevokes' /\ LineageKept'
  BY <1>1 DEF AccessInv, RotationRevokes, LineageKept, Issued
<1>9. ReadsLast'
  BY <1>1, <1>4 DEF AccessInv, ReadsLast, Issued
<1> QED
  BY <1>2, <1>7, <1>8, <1>9 DEF AccessInv

\* A request that ends, having changed no credential.
LEMMA LeaveStep ==
    ASSUME AccessInv, NEW o \in Operators,
           op' = [op EXCEPT ![o] = Idle],
           installation' \in [Installations -> {"active", "suspended"}],
           agent' \in [Agents -> AgentRow],
           UNCHANGED <<host, cred, session, now>>
    PROVE  AccessInv'
<1>1. TypeOK'
  BY DEF AccessInv, TypeOK, Request
<1>2. \A p \in Operators : op'[p] = IF p = o THEN Idle ELSE op[p]
  BY DEF AccessInv, TypeOK
<1>3. TenantsIsolated'
  BY <1>2 DEF AccessInv, TenantsIsolated, Belongs, capabilities_for
<1>4. RotationRevokes' /\ LineageKept'
  BY DEF AccessInv, RotationRevokes, LineageKept, Issued
<1>5. ReadsLast'
  BY <1>2 DEF AccessInv, ReadsLast, Issued, Idle
<1> QED
  BY <1>1, <1>3, <1>4, <1>5 DEF AccessInv

\* What an UPDATE leaves of a column: what it writes, if it writes it.
LEMMA WrittenColumn ==
    ASSUME NEW S, NEW current, NEW column \in Column(S)
    PROVE  /\ Written(current, column) \in S \cup {current}
           /\ column # <<>> => Written(current, column) \in S
           /\ column = <<>> => Written(current, column) = current
BY DEF Column, Written

LEMMA RegisterStep ==
    ASSUME AccessInv, NEW o \in Operators,
           CommitRegister(o) \/ CommitStatus(o) \/ CommitActivate(o) \/ Drop(o)
    PROVE  AccessInv'
<1>1. op[o] \in Request
  BY DEF AccessInv, TypeOK
<1>2. CASE CommitRegister(o)
  <2>1. /\ op' = [op EXCEPT ![o] = Idle]
        /\ UNCHANGED <<host, installation, cred, session, now>>
    BY <1>2 DEF CommitRegister, Leave
  <2>2. agent' \in [Agents -> AgentRow]
    BY <1>2 DEF CommitRegister, AccessInv, TypeOK, AgentRow
  <2>3. installation' \in [Installations -> {"active", "suspended"}]
    BY <2>1 DEF AccessInv, TypeOK
  <2> QED
    BY <2>1, <2>2, <2>3, LeaveStep
<1>3. CASE CommitStatus(o)
  <2>1. /\ op' = [op EXCEPT ![o] = Idle]
        /\ UNCHANGED <<host, installation, cred, session, now>>
    BY <1>3 DEF CommitStatus, Leave
  <2>2. /\ op[o].status \in Column({"active", "suspended", "archived"})
        /\ op[o].revoked \in Column(BOOLEAN)
    BY <1>1, <1>3 DEF CommitStatus, Request, Idle
  <2>3. agent' = [agent EXCEPT ![op[o].agent] =
                      [status  |-> Written(agent[op[o].agent].status, op[o].status),
                       revoked |-> Written(agent[op[o].agent].revoked, op[o].revoked)]]
    BY <1>3 DEF CommitStatus
  <2>4. ASSUME op[o].agent \in Agents
        PROVE  /\ Written(agent[op[o].agent].status, op[o].status)
                      \in {"absent", "active", "suspended", "archived"}
               /\ Written(agent[op[o].agent].revoked, op[o].revoked) \in BOOLEAN
    <3>1. /\ agent[op[o].agent].status \in {"absent", "active", "suspended", "archived"}
          /\ agent[op[o].agent].revoked \in BOOLEAN
      BY <2>4 DEF AccessInv, TypeOK, AgentRow
    <3>2. op[o].status \in Column({"absent", "active", "suspended", "archived"})
      BY <2>2 DEF Column
    <3> QED
      BY <2>2, <3>1, <3>2, WrittenColumn
  <2>5. agent' \in [Agents -> AgentRow]
    BY <2>3, <2>4 DEF AccessInv, TypeOK, AgentRow
  <2>6. installation' \in [Installations -> {"active", "suspended"}]
    BY <2>1 DEF AccessInv, TypeOK
  <2> QED
    BY <2>1, <2>5, <2>6, LeaveStep
<1>4. CASE CommitActivate(o)
  <2>1. /\ op' = [op EXCEPT ![o] = Idle]
        /\ UNCHANGED <<host, agent, cred, session, now>>
    BY <1>4 DEF CommitActivate, Leave
  <2>2. op[o].status \in Column({"active"})
    BY <1>1, <1>4 DEF CommitActivate, Request, Idle
  <2>3. installation' \in [Installations -> {"active", "suspended"}]
    <3>1. \A i \in Installations :
              Written(installation[i], op[o].status) \in {"active", "suspended"}
      <4> SUFFICES ASSUME NEW i \in Installations
                   PROVE  Written(installation[i], op[o].status) \in {"active", "suspended"}
        OBVIOUS
      <4>1. Written(installation[i], op[o].status) \in {"active"} \cup {installation[i]}
        BY <2>2, WrittenColumn
      <4> QED
        BY <4>1 DEF AccessInv, TypeOK
    <3> QED
      BY <1>4, <3>1 DEF CommitActivate, AccessInv, TypeOK
  <2>4. agent' \in [Agents -> AgentRow]
    BY <2>1 DEF AccessInv, TypeOK
  <2> QED
    BY <2>1, <2>3, <2>4, LeaveStep
<1>5. CASE Drop(o)
  <2>1. /\ op' = [op EXCEPT ![o] = Idle]
        /\ UNCHANGED <<host, installation, agent, cred, session, now>>
    BY <1>5 DEF Drop
  <2>2. agent' \in [Agents -> AgentRow] /\ installation' \in [Installations -> {"active", "suspended"}]
    BY <2>1 DEF AccessInv, TypeOK
  <2> QED
    BY <2>1, <2>2, LeaveStep
<1> QED
  BY <1>2, <1>3, <1>4, <1>5

\* A request that writes a column of a credential, or adds one.
LEMMA CredStep ==
    ASSUME AccessInv, NEW o \in Operators,
           CommitCreate(o) \/ CommitRevoke(o) \/ CommitRotate(o)
    PROVE  AccessInv'
<1>1. /\ op[o] \in Request
      /\ op' = [op EXCEPT ![o] = Idle]
      /\ UNCHANGED <<host, installation, agent, session, now>>
  BY DEF AccessInv, TypeOK, CommitCreate, CommitRevoke, CommitRotate, Leave
<1>2. \A p \in Operators : op'[p] = IF p = o THEN Idle ELSE op[p]
  BY <1>1 DEF AccessInv, TypeOK
<1>3. TenantsIsolated'
  BY <1>1, <1>2 DEF AccessInv, TenantsIsolated, Belongs, capabilities_for
<1>4. ASSUME cred' \in [Creds -> CredRow],
             \A c \in Issued : /\ cred'[c].agent = cred[c].agent
                               /\ cred[c].revoked => cred'[c].revoked
      PROVE  TypeOK' /\ ReadsLast'
  <2>1. TypeOK'
    BY <1>1, <1>4 DEF AccessInv, TypeOK, Request
  <2>2. \A c \in Issued : c \in Issued'
    BY <1>4 DEF Issued
  <2>3. ReadsLast'
    BY <1>2, <1>4, <2>2 DEF AccessInv, ReadsLast, Idle
  <2> QED
    BY <2>1, <2>3
<1>5. CASE CommitCreate(o)
  <2>1. Fresh \in Creds /\ Fresh \notin Issued /\ Fresh # 0
    BY <1>5, FreshIsNew DEF CommitCreate
  <2>2. cred' = [cred EXCEPT ![Fresh] =
                    [Unissued EXCEPT !.agent = op[o].agent, !.scopes = op[o].scopes,
                                     !.expires_at = op[o].expires_at]]
    BY <1>5 DEF CommitCreate
  <2>3. /\ op[o].agent \in Agents /\ op[o].scopes \in SUBSET {"ingest", "commands"}
        /\ op[o].expires_at \in Deadlines
    BY <1>1, <1>5 DEF CommitCreate, Request, Idle
  <2>4. [Unissued EXCEPT !.agent = op[o].agent, !.scopes = op[o].scopes,
                         !.expires_at = op[o].expires_at] \in CredRow
    <3>1. 0 \in 0..MaxCred
      BY AccessAssumption DEF AccessAssumption
    <3>2. Unissued \in CredRow
      BY <3>1 DEF CredRow, Unissued
    <3> QED
      BY <2>3, <3>2 DEF CredRow
  <2>5. cred' \in [Creds -> CredRow]
    BY <2>2, <2>4 DEF AccessInv, TypeOK
  <2>6. \A c \in Creds : c # Fresh => cred'[c] = cred[c]
    BY <2>2 DEF AccessInv, TypeOK
  <2>7. cred'[Fresh].rotates = 0
    BY <2>1, <2>2 DEF AccessInv, TypeOK, Unissued
  <2>8. Issued \subseteq Creds
    BY DEF Issued
  <2>9. RotationRevokes' /\ LineageKept'
    <3>1. ASSUME NEW c \in Creds, cred'[c].rotates # 0
          PROVE  /\ cred'[c] = cred[c] /\ cred[c].rotates \in Issued
                 /\ cred'[cred[c].rotates] = cred[cred[c].rotates]
      BY <3>1, <2>1, <2>6, <2>7, <2>8 DEF AccessInv, LineageKept
    <3> QED
      BY <3>1 DEF AccessInv, RotationRevokes, LineageKept, Issued
  <2> QED
    BY <1>3, <1>4, <2>1, <2>5, <2>6, <2>8, <2>9 DEF AccessInv
<1>6. CASE CommitRevoke(o)
  <2>1. /\ op[o].cred \in Creds /\ op[o].revoked \in Column({TRUE})
        /\ cred' = [cred EXCEPT ![op[o].cred].revoked = Written(@, op[o].revoked)]
    BY <1>1, <1>6 DEF CommitRevoke, Request, Idle
  <2>2. /\ Written(cred[op[o].cred].revoked, op[o].revoked) \in BOOLEAN
        /\ cred[op[o].cred].revoked => Written(cred[op[o].cred].revoked, op[o].revoked)
    <3>1. cred[op[o].cred].revoked \in BOOLEAN
      BY <2>1 DEF AccessInv, TypeOK, CredRow
    <3>2. CASE op[o].revoked = <<>>
      <4>1. Written(cred[op[o].cred].revoked, op[o].revoked) = cred[op[o].cred].revoked
        BY ZenonT(60), <2>1, <3>2, WrittenColumn
      <4> QED
        BY <3>1, <4>1
    <3>3. CASE op[o].revoked # <<>>
      <4>1. Written(cred[op[o].cred].revoked, op[o].revoked) \in {TRUE}
        BY <2>1, <3>3, WrittenColumn
      <4> QED
        BY <4>1
    <3> QED
      BY <3>2, <3>3
  <2>3. cred' \in [Creds -> CredRow]
    BY <2>1, <2>2 DEF AccessInv, TypeOK, CredRow
  <2>4. \A c \in Creds : /\ cred'[c].agent = cred[c].agent /\ cred'[c].scopes = cred[c].scopes
                         /\ cred'[c].rotates = cred[c].rotates
                         /\ cred[c].revoked => cred'[c].revoked
    BY <2>1, <2>2 DEF AccessInv, TypeOK, CredRow
  <2>5. Issued \subseteq Creds /\ Issued \subseteq Issued'
    BY <2>4 DEF Issued
  <2>6. RotationRevokes' /\ LineageKept'
    BY <2>4, <2>5 DEF AccessInv, RotationRevokes, LineageKept
  <2> QED
    BY <1>3, <1>4, <2>3, <2>4, <2>5, <2>6 DEF AccessInv
<1>7. CASE CommitRotate(o)
  <2>1. Fresh \in Creds /\ Fresh \notin Issued /\ Fresh # 0
    BY <1>7, FreshIsNew DEF CommitRotate
  <2> DEFINE old == op[o].cred
             revoked == Written(cred[old].revoked, op[o].revoked)
  <2>2. /\ old \in Issued /\ old \in Creds /\ old # 0 /\ op[o].revoked \in Column({TRUE})
        /\ op[o].revoked = <<>> => cred[old].revoked
    <3>1. op[o].pc = "rotating"
      BY <1>7 DEF CommitRotate
    <3>2. op[o].cred \in Creds /\ op[o].revoked \in Column({TRUE})
      BY <1>1, <3>1 DEF Request, Idle
    <3>3. op[o].cred # 0
      BY <3>2, AccessAssumption DEF AccessAssumption, Creds
    <3> QED
      BY <3>1, <3>2, <3>3 DEF AccessInv, ReadsLast
  <2>3. cred' = [cred EXCEPT ![old].revoked = Written(@, op[o].revoked),
                             ![Fresh] = [cred[old] EXCEPT !.revoked = FALSE, !.rotates = old]]
    BY <1>7 DEF CommitRotate
  <2>4. revoked = TRUE
    <3>1. CASE op[o].revoked = <<>>
      <4>1. revoked = cred[old].revoked
        BY <2>2, <3>1, WrittenColumn
      <4>2. cred[old].revoked \in BOOLEAN
        BY <2>2 DEF AccessInv, TypeOK, CredRow
      <4> QED
        BY <2>2, <3>1, <4>1, <4>2
    <3>2. CASE op[o].revoked # <<>>
      <4>1. revoked \in {TRUE}
        BY <2>2, <3>2, WrittenColumn
      <4> QED
        BY <4>1
    <3> QED
      BY <3>1, <3>2
  <2>5. cred[old] \in CredRow
    BY <2>2 DEF AccessInv, TypeOK
  <2>6. \A c \in Creds : cred'[c] = IF c = Fresh THEN [cred[old] EXCEPT !.revoked = FALSE, !.rotates = old]
                                   ELSE IF c = old THEN [cred[old] EXCEPT !.revoked = TRUE]
                                   ELSE cred[c]
    BY <2>1, <2>2, <2>3, <2>4 DEF AccessInv, TypeOK
  <2>7. /\ [cred[old] EXCEPT !.revoked = FALSE, !.rotates = old] \in CredRow
        /\ [cred[old] EXCEPT !.revoked = TRUE] \in CredRow
    <3>1. old \in 0..MaxCred
      BY <2>2, AccessAssumption DEF AccessAssumption, Creds
    <3> QED
      BY <2>5, <3>1 DEF CredRow
  <2>8. cred' \in [Creds -> CredRow]
    BY <2>3, <2>6, <2>7 DEF AccessInv, TypeOK
  <2>9. /\ cred'[Fresh].rotates = old /\ cred'[Fresh].agent = cred[old].agent
        /\ cred'[Fresh].scopes = cred[old].scopes
        /\ cred'[old].revoked
    BY ZenonT(60), <2>1, <2>2, <2>5, <2>6 DEF CredRow
  <2>10. \A c \in Issued : /\ c \in Creds /\ c # Fresh
                           /\ cred'[c].agent = cred[c].agent /\ cred'[c].scopes = cred[c].scopes
                           /\ cred'[c].rotates = cred[c].rotates
                           /\ cred[c].revoked => cred'[c].revoked
    BY <2>1, <2>5, <2>6 DEF Issued, CredRow
  <2>11. Issued \subseteq Issued'
    BY <2>10 DEF Issued
  <2>12. ASSUME NEW c \in Creds, cred'[c].rotates # 0
         PROVE  /\ cred'[c].rotates \in Issued'
                /\ cred'[cred'[c].rotates].revoked
                /\ cred'[cred'[c].rotates].agent = cred'[c].agent
                /\ cred'[cred'[c].rotates].scopes = cred'[c].scopes
    <3>1. CASE c = Fresh
      BY <2>2, <2>9, <2>10, <2>11, <3>1
    <3>2. CASE c # Fresh
      <4>1. cred'[c].agent = cred[c].agent /\ cred'[c].scopes = cred[c].scopes
            /\ cred'[c].rotates = cred[c].rotates
        BY <2>5, <2>6, <3>2 DEF CredRow
      <4>2. /\ cred[c].rotates \in Issued /\ cred[cred[c].rotates].revoked
            /\ cred[cred[c].rotates].agent = cred[c].agent
            /\ cred[cred[c].rotates].scopes = cred[c].scopes
        BY <2>12, <4>1 DEF AccessInv, RotationRevokes, LineageKept
      <4> QED
        BY <2>10, <2>11, <4>1, <4>2
    <3> QED
      BY <3>1, <3>2
  <2>13. RotationRevokes' /\ LineageKept'
    BY <2>12 DEF RotationRevokes, LineageKept
  <2> QED
    BY <1>3, <1>4, <2>8, <2>10, <2>13 DEF AccessInv
<1> QED
  BY <1>5, <1>6, <1>7

\* The requests that read what they need and enter.
LEMMA ReadStep ==
    ASSUME AccessInv, NEW o \in Operators, NEW user \in Users,
           \/ \E a \in Agents : ReadRegister(o, user, a)
           \/ \E a \in Agents, status \in {"active", "suspended", "archived"} :
                  ReadStatus(o, user, a, status)
           \/ \E a \in Agents, scopes \in Scopes, deadline \in Deadlines :
                  ReadCreate(o, user, a, scopes, deadline)
           \/ \E i \in Installations : ReadActivate(o, user, i)
           \/ \E c \in Creds, pc \in {"rotating", "revoking"} : ReadCred(o, user, c, pc)
    PROVE  AccessInv'
<1>1. ASSUME NEW read, NEW S, NEW new \in S PROVE Changed(read, new) \in Column(S)
  BY <1>1 DEF Changed, Column
<1>2. ASSUME NEW a \in Agents, ReadRegister(o, user, a) PROVE AccessInv'
  <2> DEFINE entry == [pc |-> "registering", user |-> user, agent |-> a]
  <2>1. entry \in Request /\ entry # Idle /\ entry.user = user /\ entry.pc = "registering"
    BY DEF Request, Idle
  <2>2. /\ Enter(o, entry) /\ "manage_agents" \in capabilities_for(user)
        /\ Resolves(user, Home[entry.agent])
    BY <1>2 DEF ReadRegister, Scoped
  <2> HIDE DEF entry
  <2> QED
    BY <2>1, <2>2, EnterStep
<1>3. ASSUME NEW a \in Agents, NEW status \in {"active", "suspended", "archived"},
             ReadStatus(o, user, a, status)
      PROVE  AccessInv'
  <2> DEFINE entry == [pc |-> "setting", user |-> user, agent |-> a,
                         status |-> Changed(agent[a].status, status),
                         revoked |-> Changed(agent[a].revoked, RevokedAt(agent[a], status))]
  <2>1. RevokedAt(agent[a], status) \in BOOLEAN
    BY DEF RevokedAt, AccessInv, TypeOK, AgentRow
  <2>2. /\ Changed(agent[a].status, status) \in Column({"active", "suspended", "archived"})
        /\ Changed(agent[a].revoked, RevokedAt(agent[a], status)) \in Column(BOOLEAN)
    BY <1>1, <2>1
  <2>3. entry \in Request /\ entry # Idle /\ entry.user = user /\ entry.pc = "setting"
    BY <2>2 DEF Request, Idle
  <2>4. /\ Enter(o, entry) /\ "manage_agents" \in capabilities_for(user)
        /\ Resolves(user, Home[entry.agent])
    BY <1>3 DEF ReadStatus, Scoped
  <2> HIDE DEF entry
  <2> QED
    BY <2>3, <2>4, EnterStep
<1>4. ASSUME NEW a \in Agents, NEW scopes \in Scopes, NEW deadline \in Deadlines,
             ReadCreate(o, user, a, scopes, deadline)
      PROVE  AccessInv'
  <2> DEFINE entry == [pc |-> "creating", user |-> user, agent |-> a,
                         scopes |-> scopes, expires_at |-> deadline]
  <2>1. entry \in Request /\ entry # Idle /\ entry.user = user /\ entry.pc = "creating"
    BY AccessAssumption DEF AccessAssumption, Request, Idle
  <2>2. /\ Enter(o, entry) /\ "manage_agents" \in capabilities_for(user)
        /\ Resolves(user, Home[entry.agent])
    BY <1>4 DEF ReadCreate, Scoped
  <2> HIDE DEF entry
  <2> QED
    BY <2>1, <2>2, EnterStep
<1>5. ASSUME NEW i \in Installations, ReadActivate(o, user, i) PROVE AccessInv'
  <2> DEFINE entry == [pc |-> "activating", user |-> user, installation |-> i,
                         status |-> Changed(installation[i], "active")]
  <2>1. Changed(installation[i], "active") \in Column({"active"})
    BY <1>1
  <2>2. /\ entry \in Request /\ entry # Idle /\ entry.user = user
        /\ entry.pc = "activating"
    BY <2>1 DEF Request, Idle
  <2>3. /\ Enter(o, entry) /\ "manage_agents" \in capabilities_for(user)
        /\ Resolves(user, entry.installation)
    BY <1>5, AdminManages DEF ReadActivate
  <2>4. entry.status = <<>>
    <3>1. installation[i] = "active"
      BY <1>5, ResolvedBelongs DEF ReadActivate
    <3> QED
      BY <3>1 DEF Changed
  <2> HIDE DEF entry
  <2> QED
    BY <2>2, <2>3, <2>4, EnterStep
<1>6. ASSUME NEW c \in Creds, NEW pc \in {"rotating", "revoking"}, ReadCred(o, user, c, pc)
      PROVE  AccessInv'
  <2> DEFINE entry == [pc |-> pc, user |-> user, agent |-> cred[c].agent, cred |-> c,
                         revoked |-> Changed(cred[c].revoked, TRUE)]
  <2>1. c \in Issued /\ cred[c].agent \in Agents
    BY <1>6 DEF ReadCred, Issued, AccessInv, TypeOK, CredRow
  <2>2. Changed(cred[c].revoked, TRUE) \in Column({TRUE})
    BY <1>1
  <2>3. Changed(cred[c].revoked, TRUE) = <<>> => cred[c].revoked
    BY DEF Changed
  <2>4. /\ entry \in Request /\ entry # Idle /\ entry.user = user
        /\ entry.pc \in {"rotating", "revoking"}
        /\ entry.cred = c /\ entry.agent = cred[c].agent
        /\ entry.revoked = Changed(cred[c].revoked, TRUE)
    BY <2>1, <2>2 DEF Request, Idle
  <2>5. /\ Enter(o, entry) /\ "manage_agents" \in capabilities_for(user)
        /\ Resolves(user, Home[entry.agent])
    BY <1>6 DEF ReadCred, Scoped, Superseded
  <2> HIDE DEF entry
  <2>6. /\ entry.cred \in Issued /\ entry.agent = cred[entry.cred].agent
        /\ entry.revoked = <<>> => cred[entry.cred].revoked
    BY <2>1, <2>3, <2>4
  <2>7. Resolves(user, IF entry.pc = "activating" THEN entry.installation
                       ELSE Home[entry.agent])
    BY <2>4, <2>5
  <2> QED
    BY <2>4, <2>5, <2>6, <2>7, EnterStep
<1> QED
  BY <1>2, <1>3, <1>4, <1>5, <1>6

\* Agents, the host and the clock touch no row of the operators.
LEMMA OutsideStep ==
    ASSUME AccessInv, UNCHANGED <<host, agent, cred, op>>,
           installation' \in [Installations -> {"active", "suspended"}],
           session' \in [Sessions -> 0..MaxCred], now' \in 0..MaxTime
    PROVE  AccessInv'
<1>1. TypeOK'
  BY DEF AccessInv, TypeOK
<1>2. TenantsIsolated'
  BY DEF AccessInv, TenantsIsolated, Belongs, capabilities_for
<1>3. RotationRevokes' /\ LineageKept' /\ ReadsLast'
  BY DEF AccessInv, RotationRevokes, LineageKept, ReadsLast, Issued
<1> QED
  BY <1>1, <1>2, <1>3 DEF AccessInv

LEMMA NextAccess == AccessInv /\ [Next]_vars => AccessInv'
<1> SUFFICES ASSUME AccessInv, [Next]_vars PROVE AccessInv'
  OBVIOUS
<1>1. ASSUME NEW o \in Operators, OperatorStep(o) PROVE AccessInv'
  <2>1. ASSUME NEW user \in Users,
               \/ \E a \in Agents :
                      \/ ReadRegister(o, user, a)
                      \/ \E status \in {"active", "suspended", "archived"} :
                             ReadStatus(o, user, a, status)
                      \/ \E scopes \in Scopes, deadline \in Deadlines :
                             ReadCreate(o, user, a, scopes, deadline)
               \/ \E i \in Installations : ReadActivate(o, user, i)
               \/ \E c \in Creds, pc \in {"rotating", "revoking"} : ReadCred(o, user, c, pc)
        PROVE  AccessInv'
    BY <2>1, ReadStep
  <2> QED
    BY <1>1, <2>1, RegisterStep, CredStep DEF OperatorStep
<1>2. ASSUME \/ \E s \in Sessions :
                    \/ \E c \in Creds, scope \in {"ingest", "commands"} : Authenticate(s, c, scope)
                    \/ Answer(s)
             \/ \E i \in Installations, enabled \in BOOLEAN : sgi_subscription_event(i, enabled)
             \/ Tick
             \/ UNCHANGED vars
      PROVE  AccessInv'
  <2>1. UNCHANGED <<host, agent, cred, op>>
    BY <1>2 DEF Authenticate, Answer, sgi_subscription_event, Tick, vars
  <2>2. installation' \in [Installations -> {"active", "suspended"}]
    BY <1>2 DEF Authenticate, Answer, sgi_subscription_event, Tick, vars, AccessInv, TypeOK
  <2>3. session' \in [Sessions -> 0..MaxCred]
    <3>1. Creds \subseteq 0..MaxCred /\ 0 \in 0..MaxCred
      BY AccessAssumption DEF AccessAssumption, Creds
    <3> QED
      BY <1>2, <3>1 DEF Authenticate, Answer, sgi_subscription_event, Tick, vars, AccessInv, TypeOK
  <2>4. now' \in 0..MaxTime
    BY <1>2, AccessAssumption DEF AccessAssumption, Authenticate, Answer, sgi_subscription_event,
       Tick, vars, AccessInv, TypeOK
  <2> QED
    BY <2>1, <2>2, <2>3, <2>4, OutsideStep
<1> QED
  BY <1>1, <1>2 DEF Next

\* Tenants isolated, rotations that revoke and lineages kept, for every number of
\* installations, users, agents, credentials and requests in flight.
THEOREM AccessKept == Spec => []AccessInv
<1> QED
  BY InitAccess, NextAccess, PTL DEF Spec

\* No request of an operator lifts a suspension, whatever the host does between
\* what it read and what it writes.
THEOREM SuspensionStands == Spec => SuspensionHolds
<1>1. AccessInv /\ [Next]_vars =>
          [\A i \in Installations :
              installation[i] = "suspended" /\ op' # op => installation'[i] = "suspended"]_vars
  <2> SUFFICES ASSUME AccessInv, [Next]_vars, NEW i \in Installations,
                      installation[i] = "suspended", op' # op
               PROVE  installation'[i] = "suspended"
    OBVIOUS
  <2> QED
    <3>1. ASSUME NEW o \in Operators, CommitActivate(o) PROVE installation'[i] = "suspended"
      BY <3>1 DEF CommitActivate, AccessInv, TypeOK, ReadsLast, Written
    <3>2. ASSUME UNCHANGED installation PROVE installation'[i] = "suspended"
      BY <3>2
    <3>3. \/ \E o \in Operators : CommitActivate(o)
          \/ UNCHANGED installation
      <4>1. ASSUME NEW o \in Operators, OperatorStep(o)
            PROVE  CommitActivate(o) \/ UNCHANGED installation
        BY <4>1 DEF OperatorStep, CommitRegister, CommitStatus, CommitCreate, CommitRevoke,
           CommitRotate, Drop, ReadRegister, ReadStatus, ReadCreate, ReadActivate, ReadCred, Enter
      <4>2. ASSUME NEW s \in Sessions,
                   \/ \E c \in Creds, scope \in {"ingest", "commands"} : Authenticate(s, c, scope)
                   \/ Answer(s)
            PROVE  UNCHANGED installation
        BY <4>2 DEF Authenticate, Answer
      <4>3. CASE Tick \/ UNCHANGED vars
        BY <4>3 DEF Tick, vars
      <4>4. ~ \E j \in Installations, enabled \in BOOLEAN : sgi_subscription_event(j, enabled)
        BY DEF sgi_subscription_event
      <4> QED
        BY <4>1, <4>2, <4>3, <4>4 DEF Next
    <3> QED
      BY <3>1, <3>2, <3>3
<1> QED
  BY <1>1, AccessKept, PTL DEF Spec, SuspensionHolds

\* A revoked credential is revoked for good, though a request may write the columns
\* of a credential it read long ago, and no request enters with it.
RevocationStands ==
    [][\A c \in Issued : cred[c].revoked =>
          /\ cred'[c].revoked
          /\ \A s \in Sessions : session[s] # c => session'[s] # c]_vars

LEMMA WritesKeepRevoked ==
    ASSUME AccessInv, NEW o \in Operators, CommitCreate(o) \/ CommitRevoke(o) \/ CommitRotate(o),
           NEW c \in Issued, cred[c].revoked
    PROVE  cred'[c].revoked
<1>1. c \in Creds /\ cred \in [Creds -> CredRow] /\ cred[c] \in CredRow /\ op[o] \in Request
  BY DEF Issued, AccessInv, TypeOK
<1>2. CASE CommitCreate(o)
  <2>1. c # Fresh
    BY <1>2, FreshIsNew DEF CommitCreate
  <2>2. cred'[c] = cred[c]
    BY <1>1, <1>2, <2>1 DEF CommitCreate
  <2> QED
    BY <2>2
<1>3. CASE CommitRevoke(o) \/ CommitRotate(o)
  <2> DEFINE t == op[o]
             revoked == Written(cred[t.cred].revoked, t.revoked)
  <2>1. t.cred \in Creds /\ t.revoked \in Column({TRUE})
    BY <1>1, <1>3 DEF CommitRevoke, CommitRotate, Request, Idle
  <2>2. c = t.cred => revoked = TRUE
    <3>1. CASE t.revoked = <<>>
      <4>1. revoked = cred[t.cred].revoked
        BY <3>1 DEF Written
      <4>2. cred[c].revoked \in BOOLEAN
        BY <1>1 DEF CredRow
      <4> QED
        BY <4>1, <4>2
    <3>2. CASE t.revoked # <<>>
      <4>1. revoked \in {TRUE}
        BY <2>1, <3>2, WrittenColumn
      <4> QED
        BY <4>1
    <3> QED
      BY <3>1, <3>2
  <2> HIDE DEF revoked
  <2>3. CASE CommitRevoke(o)
    <3>1. cred' = [cred EXCEPT ![t.cred].revoked = revoked]
      BY <2>3 DEF CommitRevoke, revoked
    <3> QED
      BY <1>1, <2>1, <2>2, <3>1 DEF CredRow
  <2>4. CASE CommitRotate(o)
    <3>1. c # Fresh /\ Fresh \in Creds
      BY <2>4, FreshIsNew DEF CommitRotate
    <3>2. cred' = [cred EXCEPT ![t.cred].revoked = revoked,
                               ![Fresh] = [cred[t.cred] EXCEPT !.revoked = FALSE, !.rotates = t.cred]]
      BY <2>4 DEF CommitRotate, revoked
    <3> QED
      BY <1>1, <2>1, <2>2, <3>1, <3>2 DEF CredRow
  <2> QED
    BY <1>3, <2>3, <2>4
<1> QED
  BY <1>2, <1>3

\* What a rotation or a revocation took from a credential stays taken: the safety in
\* RevokedFallsSilent, whose requests under way end by the fairness of the sessions.
THEOREM RevokedForGood == Spec => RevocationStands
<1>1. AccessInv /\ [Next]_vars =>
          [\A c \in Issued : cred[c].revoked =>
              /\ cred'[c].revoked
              /\ \A s \in Sessions : session[s] # c => session'[s] # c]_vars
  <2> SUFFICES ASSUME AccessInv, Next, NEW c \in Issued, cred[c].revoked
               PROVE  /\ cred'[c].revoked
                      /\ \A s \in Sessions : session[s] # c => session'[s] # c
    BY DEF vars
  <2>1. ASSUME NEW o \in Operators, OperatorStep(o)
        PROVE  cred'[c].revoked /\ UNCHANGED session
    <3>1. CASE CommitCreate(o) \/ CommitRevoke(o) \/ CommitRotate(o)
      BY <3>1, WritesKeepRevoked DEF CommitCreate, CommitRevoke, CommitRotate, Leave
    <3>2. CASE ~(CommitCreate(o) \/ CommitRevoke(o) \/ CommitRotate(o))
      <4>1. UNCHANGED <<cred, session>>
        BY <2>1, <3>2 DEF OperatorStep, CommitRegister, CommitStatus, CommitActivate, Leave, Drop,
           ReadRegister, ReadStatus, ReadCreate, ReadActivate, ReadCred, Enter
      <4> QED
        BY <4>1
    <3> QED
      BY <3>1, <3>2
  <2>2. ASSUME NEW r \in Sessions, NEW k \in Creds, NEW scope, Authenticate(r, k, scope)
        PROVE  cred'[c].revoked /\ \A s \in Sessions : session[s] # c => session'[s] # c
    <3>1. k # c /\ session' = [session EXCEPT ![r] = k] /\ UNCHANGED cred
      BY <2>2 DEF Authenticate, is_usable
    <3> QED
      BY <3>1 DEF AccessInv, TypeOK
  <2>3. ASSUME NEW r \in Sessions, Answer(r)
        PROVE  cred'[c].revoked /\ \A s \in Sessions : session[s] # c => session'[s] # c
    <3>1. c # 0
      BY AccessAssumption DEF AccessAssumption, Issued, Creds
    <3> QED
      BY <2>3, <3>1 DEF Answer, AccessInv, TypeOK
  <2>4. ASSUME \/ \E i \in Installations, enabled \in BOOLEAN : sgi_subscription_event(i, enabled)
               \/ Tick
        PROVE  UNCHANGED <<cred, session>>
    BY <2>4 DEF sgi_subscription_event, Tick
  <2> QED
    BY <2>1, <2>2, <2>3, <2>4 DEF Next
<1> QED
  BY <1>1, AccessKept, PTL DEF Spec, RevocationStands

-----------------------------------------------------------------------------
\* What becomes of a credential.

\* The writes of an operator: the rows issued stay, with their deadline, and a new
\* one is not revoked.
LEMMA WritesKeepIssued ==
    ASSUME AccessInv, NEW o \in Operators, CommitCreate(o) \/ CommitRevoke(o) \/ CommitRotate(o),
           NEW c \in Creds
    PROVE  /\ c \in Issued => c \in Issued' /\ cred'[c].expires_at = cred[c].expires_at
           /\ c \notin Issued /\ c \in Issued' => cred'[c].revoked = FALSE
<1>1. cred \in [Creds -> CredRow] /\ cred[c] \in CredRow /\ op[o] \in Request
  BY DEF AccessInv, TypeOK
<1>2. CASE CommitCreate(o)
  <2> DEFINE entry == [Unissued EXCEPT !.agent = op[o].agent, !.scopes = op[o].scopes,
                                       !.expires_at = op[o].expires_at]
  <2>1. Fresh \in Creds /\ Fresh \notin Issued
    BY <1>2, FreshIsNew DEF CommitCreate
  <2>2. cred' = [cred EXCEPT ![Fresh] = entry]
    BY <1>2 DEF CommitCreate
  <2>3. entry.revoked = FALSE
    BY DEF Unissued
  <2> HIDE DEF entry
  <2>4. cred'[c] = IF c = Fresh THEN entry ELSE cred[c]
    BY <1>1, <2>2
  <2> HIDE DEF Fresh
  <2> QED
    BY <2>1, <2>3, <2>4 DEF Issued
<1>3. ASSUME CommitRevoke(o) \/ CommitRotate(o)
      PROVE  op[o].cred \in Issued /\ op[o].cred \in Creds
  BY <1>3 DEF CommitRevoke, CommitRotate, AccessInv, ReadsLast, Issued
<1>4. CASE CommitRevoke(o)
  <2>1. cred' = [cred EXCEPT ![op[o].cred] =
                     [cred[op[o].cred] EXCEPT !.revoked = Written(@, op[o].revoked)]]
    BY <1>4 DEF CommitRevoke
  <2>2. cred[op[o].cred] \in CredRow
    BY <1>1, <1>3, <1>4
  <2>3. /\ cred'[c].agent = cred[c].agent /\ cred'[c].expires_at = cred[c].expires_at
    BY <1>1, <2>1, <2>2 DEF CredRow
  <2> QED
    BY <2>3 DEF Issued
<1>5. CASE CommitRotate(o)
  <2> DEFINE old == [cred[op[o].cred] EXCEPT !.revoked = Written(@, op[o].revoked)]
             entry == [cred[op[o].cred] EXCEPT !.revoked = FALSE, !.rotates = op[o].cred]
  <2>1. Fresh \in Creds /\ Fresh \notin Issued
    BY <1>5, FreshIsNew DEF CommitRotate
  <2>2. op[o].cred # Fresh
    BY <1>3, <1>5, <2>1
  <2>3. cred' = [cred EXCEPT ![op[o].cred] = old, ![Fresh] = entry]
    BY <1>5 DEF CommitRotate
  <2>4. cred[op[o].cred] \in CredRow
    BY <1>1, <1>3, <1>5
  <2>5. /\ old.agent = cred[op[o].cred].agent /\ old.expires_at = cred[op[o].cred].expires_at
        /\ entry.revoked = FALSE
    BY <2>4 DEF CredRow
  <2> HIDE DEF old, entry, Fresh
  <2>6. cred'[c] = IF c = Fresh THEN entry ELSE IF c = op[o].cred THEN old ELSE cred[c]
    BY <1>1, <1>3, <1>5, <2>1, <2>2, <2>3
  <2> QED
    BY <2>1, <2>2, <2>5, <2>6 DEF Issued
<1> QED
  BY <1>2, <1>4, <1>5

\* Time goes on, and only those writes touch the credentials.
LEMMA CredentialKept ==
    ASSUME AccessInv, [Next]_vars, NEW c \in Creds
    PROVE  /\ now \in Nat /\ now' \in Nat /\ now <= now'
           /\ c \in Issued => /\ c \in Issued' /\ cred'[c].expires_at = cred[c].expires_at
                              /\ cred[c].revoked => cred'[c].revoked
           /\ c \notin Issued /\ c \in Issued' => cred'[c].revoked = FALSE
<1>1. now \in Nat /\ now' \in Nat /\ now <= now'
  <2>1. now \in Nat
    BY AccessAssumption DEF AccessAssumption, AccessInv, TypeOK
  <2>2. now' = now \/ now' = now + 1
    <3>1. ASSUME NEW o \in Operators, OperatorStep(o) PROVE now' = now
      BY <3>1 DEF OperatorStep, CommitRegister, CommitStatus, CommitCreate, CommitRevoke,
         CommitRotate, CommitActivate, Leave, Drop, ReadRegister, ReadStatus, ReadCreate,
         ReadActivate, ReadCred, Enter
    <3> QED
      BY <3>1 DEF Next, Authenticate, Answer, sgi_subscription_event, Tick, vars
  <2> QED
    BY <2>1, <2>2
<1>2. \/ UNCHANGED cred
      \/ \E o \in Operators : CommitCreate(o) \/ CommitRevoke(o) \/ CommitRotate(o)
  <2>1. ASSUME NEW o \in Operators, OperatorStep(o)
        PROVE  UNCHANGED cred \/ CommitCreate(o) \/ CommitRevoke(o) \/ CommitRotate(o)
    BY <2>1 DEF OperatorStep, CommitRegister, CommitStatus, CommitActivate, Drop,
       ReadRegister, ReadStatus, ReadCreate, ReadActivate, ReadCred, Enter
  <2> QED
    BY <2>1 DEF Next, Authenticate, Answer, sgi_subscription_event, Tick, vars
<1>3. CASE UNCHANGED cred
  BY <1>1, <1>3 DEF Issued
<1>4. CASE \E o \in Operators : CommitCreate(o) \/ CommitRevoke(o) \/ CommitRotate(o)
  BY <1>1, <1>4, WritesKeepIssued, WritesKeepRevoked
<1> QED
  BY <1>2, <1>3, <1>4

LEMMA StatusAdvances ==
    ASSUME AccessInv, AccessInv', [Next]_vars, NEW c \in Creds
    PROVE  /\ Status(c)' \in CredentialStates \cup {"absent"}
           /\ CredentialLife!Advances(Status(c), Status(c)')
<1>0. now \in Nat /\ now' \in Nat
  BY CredentialKept
<1>1. /\ cred[c].revoked \in BOOLEAN /\ cred[c].expires_at \in Nat
      /\ cred'[c].revoked \in BOOLEAN /\ cred'[c].expires_at \in Nat
  <2>1. cred[c] \in CredRow /\ cred'[c] \in CredRow
    BY DEF AccessInv, TypeOK
  <2>2. Deadlines \cup {0} \subseteq Nat
    BY AccessAssumption DEF AccessAssumption
  <2> QED
    BY <2>1, <2>2 DEF CredRow
<1>2. Status(c) = IF c \notin Issued THEN "absent" ELSE IF cred[c].revoked THEN "revoked"
                  ELSE IF cred[c].expires_at <= now THEN "expired" ELSE "active"
  BY <1>0, <1>1 DEF Status, is_usable
<1>3. Status(c)' = IF c \notin Issued' THEN "absent" ELSE IF cred'[c].revoked THEN "revoked"
                   ELSE IF cred'[c].expires_at <= now' THEN "expired" ELSE "active"
  BY <1>0, <1>1 DEF Status, is_usable
<1>4. CASE c \notin Issued
  BY <1>1, <1>2, <1>3, <1>4, CredentialKept DEF CredentialLife!Advances, CredentialStates
<1>5. CASE c \in Issued
  <2>1. /\ c \in Issued' /\ cred'[c].expires_at = cred[c].expires_at
        /\ cred[c].revoked => cred'[c].revoked
        /\ now \in Nat /\ now' \in Nat /\ now <= now'
    BY <1>5, CredentialKept
  <2>2. CASE cred[c].revoked
    BY <1>2, <1>3, <1>5, <2>1, <2>2 DEF CredentialLife!Advances, CredentialStates
  <2>3. CASE ~cred[c].revoked /\ cred[c].expires_at <= now
    <3>1. Status(c) = "expired" /\ Status(c)' \in {"expired", "revoked"}
      BY <1>1, <1>2, <1>3, <1>5, <2>1, <2>3
    <3> QED
      BY <3>1 DEF CredentialLife!Advances, CredentialStates
  <2>4. CASE ~cred[c].revoked /\ ~(cred[c].expires_at <= now)
    <3>1. Status(c) = "active" /\ Status(c)' \in {"active", "expired", "revoked"}
      BY <1>2, <1>3, <1>5, <2>1, <2>4
    <3> QED
      BY <3>1 DEF CredentialLife!Advances, CredentialStates, CREDENTIAL_TRANSITIONS, Arrows
  <2> QED
    BY <2>2, <2>3, <2>4
<1> QED
  BY <1>4, <1>5

\* In every history of rotations, revocations and deadlines a credential that was
\* revoked or has expired is never usable again, whatever a request writes of what it
\* read long ago: it moves along the frozen machine and from expired to revoked.
THEOREM CredentialsImplementMachine == Spec => CredentialLife!Spec /\ CredentialsFollowMachine
<1>1. Init => CredentialLife!Init
  <2> SUFFICES ASSUME Init PROVE CredentialLife!Init
    OBVIOUS
  <2>1. \A c \in Creds : c \notin Issued
    BY DEF Init, Issued, Unissued
  <2>2. \A c \in Creds : Status(c) = "absent"
    BY <2>1 DEF Status, is_usable
  <2> QED
    BY <2>2 DEF CredentialLife!Init
<1>2. AccessInv /\ AccessInv' /\ [Next]_vars => CredentialLife!Next
  <2> SUFFICES ASSUME AccessInv, AccessInv', [Next]_vars PROVE CredentialLife!Next
    OBVIOUS
  <2> DEFINE after == [c \in Creds |-> Status(c)']
  <2>1. \A c \in Creds : /\ Status(c)' \in CredentialStates \cup {"absent"}
                         /\ CredentialLife!Advances(Status(c), Status(c)')
    BY StatusAdvances
  <2>2. after \in [Creds -> CredentialStates \cup {"absent"}]
    BY <2>1
  <2> QED
    BY <2>1, <2>2 DEF CredentialLife!Next
<1> QED
  BY <1>1, <1>2, AccessKept, PTL DEF Spec, CredentialsFollowMachine, CredentialLife!Spec

-----------------------------------------------------------------------------
\* The live agents: heartbeats, the scanner and the watcher of the status files.

\* The column of an UPDATE.
LEMMA WrittenFrom ==
    ASSUME NEW S, NEW current, NEW column \in Column(S)
    PROVE  /\ Written(current, column) \in S \cup {current}
           /\ column # <<>> => Written(current, column) \in S
           /\ column = <<>> => Written(current, column) = current
BY DEF Column, Written

LEMMA ChangedTo ==
    ASSUME NEW S, NEW read, NEW new, new \in S \/ new = read
    PROVE  /\ Changed(read, new) \in Column(S)
           /\ Changed(read, new) = <<>> <=> read = new
           /\ Changed(read, new) # <<>> => Changed(read, new) = <<new>>
BY DEF Column, Changed

\* A row of the table, and what no row is told apart by.
LEMMA RowFacts ==
    ASSUME PresenceInv, NEW a \in LiveAgents
    PROVE  /\ row[a] \in Row \cup {Absent}
           /\ row[a].token \in 0..issued /\ row[a].token \in 0..MaxToken
           /\ row[a].source \in {"none", "mc-file"}
           /\ row[a].beat \in {"none", "fresh", "old"}
           /\ row[a] = Absent <=> row[a] \notin Row
           /\ row[a] = Absent <=> row[a].state = "absent"
           /\ Absent.token = 0 /\ Absent.source = "none" /\ Absent.beat = "none"
<1>1. row[a] \in Row \cup {Absent} /\ row[a].token <= issued
      /\ issued \in Nat /\ MaxToken \in Nat
      /\ issued <= MaxToken
  BY PresenceAssumption DEF PresenceAssumption, PresenceInv, PresenceTypeOK
<1>2. CASE row[a] \in Row
  BY <1>1, <1>2 DEF Row, Absent
<1>3. CASE row[a] = Absent
  BY <1>1, <1>3 DEF Row, Absent
<1> QED
  BY <1>1, <1>2, <1>3

\* What a heartbeat in flight has read.
LEMMA RequestFacts ==
    ASSUME PresenceInv, NEW q \in Requests
    PROVE  /\ Unsent.pc = "idle" /\ UnderWay(q)
           /\ request[q] \in InFlight
           /\ request[q] = Unsent \/ request[q].agent \in LiveAgents
           /\ request[q].pc = "writing"  => request[q] \in Writing
           /\ request[q].pc = "answered" => request[q] \in Answered
           /\ request[q].pc = "storing"  => request[q] \in Storing
           /\ request[q].pc \in {"answered", "storing"} => request[q].token \in 1..MaxToken
<1>1. request[q] \in InFlight /\ UnderWay(q)
  BY DEF PresenceInv, PresenceTypeOK, EnrolmentUnderWay
<1>2. Unsent.pc = "idle"
  BY DEF Unsent
<1>3. CASE request[q] = Unsent
  BY <1>1, <1>2, <1>3
<1>4. CASE request[q] \in Writing
  BY <1>1, <1>2, <1>4 DEF Writing
<1>5. CASE request[q] \in Answered
  BY <1>1, <1>2, <1>5 DEF Answered
<1>6. CASE request[q] \in Storing
  BY <1>1, <1>2, <1>6 DEF Storing
<1> QED
  BY <1>1, <1>3, <1>4, <1>5, <1>6 DEF InFlight

\* Whatever leaves the requests and the credentials alone, and the tokens of the
\* agents it does not disturb, leaves the enrolments alone.
LEMMA EnrolmentFrame ==
    ASSUME PresenceInv,
           UNCHANGED <<held, request, issued>>, disturbed \subseteq disturbed',
           \A a \in LiveAgents : a \in disturbed' \/ row'[a].token = row[a].token
    PROVE  NoLockout' /\ EnrolmentUnderWay'
<1>1. NoLockout'
  BY DEF PresenceInv, NoLockout, Waits, Admits, Sent
<1>2. ASSUME NEW q \in Requests
      PROVE  UnderWay(q)'
  <2>1. UnderWay(q) /\ (request[q].pc = "idle" \/ request[q].agent \in LiveAgents)
    BY RequestFacts
  <2> QED
    BY <2>1 DEF UnderWay
<1> QED
  BY <1>1, <1>2 DEF EnrolmentUnderWay

\* Whatever creates rows and deletes none leaves what the event loop knows alone.
LEMMA LoopFrame ==
    ASSUME PresenceInv, filed \subseteq filed',
           \A a \in LiveAgents : row[a] # Absent => row'[a] # Absent,
           \/ loop' = loop
           \/ \E a \in LiveAgents : loop.task = "sync" /\ loop' = [loop EXCEPT !.touched = @ \cup {a}]
    PROVE  loop' \in InLoop /\ LoopUnderWay'
<1>1. loop \in InLoop
  BY DEF PresenceInv, PresenceTypeOK
<1>2. CASE loop' = loop
  <2>1. loop.task = "scan" => \A a \in loop.found : a \in LiveAgents
    BY <1>1 DEF InLoop, Free
  <2> QED
    BY <1>1, <1>2, <2>1 DEF PresenceInv, LoopUnderWay
<1>3. ASSUME NEW a \in LiveAgents, loop.task = "sync", loop' = [loop EXCEPT !.touched = @ \cup {a}]
      PROVE  loop' \in InLoop /\ LoopUnderWay'
  <2>1. loop \in [task : {"sync"}, new : [LiveAgents -> Sync], touched : SUBSET LiveAgents]
    BY <1>1, <1>3 DEF InLoop, Free
  <2>2. /\ loop' \in [task : {"sync"}, new : [LiveAgents -> Sync], touched : SUBSET LiveAgents]
        /\ loop'.new = loop.new /\ loop'.task = "sync"
    BY <2>1, <1>3
  <2> QED
    BY <2>1, <2>2 DEF PresenceInv, LoopUnderWay, InLoop
<1> QED
  BY <1>2, <1>3

\* One request changes, and perhaps the credentials file: it keeps the tokens of the
\* agents it does not disturb, or gets the one of the row, and gets it when nobody
\* waits any more.
LEMMA RequestFrame ==
    ASSUME PresenceInv, NEW q \in Requests,
           UNCHANGED <<row, issued, reported, files, tasks>>, faults' \in 0..MaxFaults,
           request' = [request EXCEPT ![q] = request'[q]],
           request'[q] \in InFlight, UnderWay(q)',
           held' \in [LiveAgents -> 0..issued],
           disturbed \subseteq disturbed', disturbed' \subseteq LiveAgents,
           \A a \in LiveAgents \ disturbed' :
               /\ held'[a] \in {held[a], row[a].token}
               /\ Waits(a) => Waits(a)' \/ held'[a] = row[a].token
    PROVE  PresenceInv'
<1>1. \A r \in Requests : r # q => request'[r] = request[r]
  BY DEF PresenceInv, PresenceTypeOK
<1>2. PresenceTypeOK'
  BY DEF PresenceInv, PresenceTypeOK, files, tasks
<1>3. ASSUME NEW r \in Requests, r # q
      PROVE  UnderWay(r)'
  <2>1. UnderWay(r) /\ request'[r] = request[r]
    BY <1>1, <1>3, RequestFacts
  <2> QED
    BY <2>1 DEF UnderWay
<1>4. EnrolmentUnderWay'
  BY <1>3 DEF EnrolmentUnderWay
<1>5. NoLockout'
  <2>1. ASSUME NEW a \in LiveAgents, a \notin disturbed', ~Waits(a)' PROVE row[a].token = held'[a]
    <3>1. CASE Waits(a)
      BY <2>1, <3>1
    <3>2. CASE ~Waits(a)
      BY <2>1, <3>2 DEF PresenceInv, NoLockout, Admits, Sent
    <3> QED
      BY <3>1, <3>2
  <2> QED
    BY <2>1 DEF NoLockout, Admits, Sent
<1>6. LoopUnderWay'
  BY LoopFrame DEF files, tasks
<1>7. FilesKnown'
  BY DEF PresenceInv, FilesKnown, files, tasks
<1> QED
  BY <1>2, <1>4, <1>5, <1>6, <1>7 DEF PresenceInv

\* A heartbeat reads the row of its agent.
LEMMA HeartbeatRead ==
    ASSUME PresenceInv,
           NEW q \in Requests, NEW a \in LiveAgents, NEW report \in Reports,
           ReadHeartbeat(q, a, report)
    PROVE  PresenceInv'
<1> DEFINE state == Changed(row[a].state, report.state)
           source == Changed(row[a].source, Source(row[a].source, report.meta))
           t == [pc |-> "writing", agent |-> a, heard |-> TRUE, insert |-> (row[a] = Absent),
                 state |-> state, source |-> source, issue |-> Issues(a)]
<1>1. /\ request[q] = Unsent
      /\ request' = [request EXCEPT ![q] = t]
      /\ UNCHANGED <<row, held, issued, reported, disturbed, files, tasks, faults>>
  BY DEF ReadHeartbeat
<1>2. /\ state \in Column({"working", "other"})
      /\ row[a] = Absent => state # <<>>
  <2>1. report.state \in {"working", "other"}
    BY PresenceAssumption DEF PresenceAssumption
  <2>2. state \in Column({"working", "other"}) /\ (state = <<>> <=> row[a].state = report.state)
    BY <2>1 DEF Changed, Column
  <2> HIDE DEF state
  <2> QED
    BY <2>1, <2>2, RowFacts
<1>3. source \in Column({"none", "mc-file"}) /\ source # <<"mc-file">>
  <2>1. Source(row[a].source, report.meta) \in {row[a].source, "none"}
    BY DEF Source
  <2>2. source \in Column({"none"})
    BY <2>1, ChangedTo
  <2> HIDE DEF source
  <2>3. source = <<>> \/ source = <<"none">>
    BY <2>2 DEF Column
  <2>4. source \in Column({"none", "mc-file"})
    BY <2>3, Zenon DEF Column
  <2>5. <<>> # <<"mc-file">> /\ <<"none">> # <<"mc-file">>
    OBVIOUS
  <2> QED
    BY <2>3, <2>4, <2>5
<1> HIDE DEF state, source
<1>4. t \in InFlight /\ t.pc = "writing" /\ t.heard /\ t.insert = (row[a] = Absent)
      /\ t.state = state /\ t.source = source
  <2>1. Issues(a) \in BOOLEAN
    BY DEF Issues
  <2> QED
    BY <1>2, <1>3, <2>1 DEF InFlight, Writing
<1> HIDE DEF t
<1>5. request'[q] = t /\ \A r \in Requests : r # q => request'[r] = request[r]
  BY <1>1 DEF PresenceInv, PresenceTypeOK
<1>6. UnderWay(q)'
  BY <1>1, <1>2, <1>3, <1>4, <1>5 DEF UnderWay
<1>7. \A b \in LiveAgents : Waits(b) => Waits(b)'
  BY <1>1, <1>5, RequestFacts DEF Waits
<1>8. held \in [LiveAgents -> 0..issued] /\ disturbed \subseteq LiveAgents /\ faults \in 0..MaxFaults
  BY DEF PresenceInv, PresenceTypeOK
<1> QED
  BY <1>1, <1>4, <1>5, <1>6, <1>7, <1>8, RequestFrame

\* A heartbeat fails, is given up, or loads the file it will write.
LEMMA HeartbeatMoves ==
    ASSUME PresenceInv,
           NEW q \in Requests, FailHeartbeat(q) \/ Timeout(q) \/ LoadTokens(q)
    PROVE  PresenceInv'
<1>1. /\ held \in [LiveAgents -> 0..issued] /\ disturbed \subseteq LiveAgents /\ faults \in 0..MaxFaults
      /\ request \in [Requests -> InFlight] /\ issued \in 0..MaxToken
      /\ MaxFaults \in Nat /\ MaxToken \in Nat
  BY PresenceAssumption DEF PresenceInv, PresenceTypeOK, PresenceAssumption
<1>2. CASE FailHeartbeat(q) \/ (Timeout(q) /\ request[q].pc = "answered")
  <2>1. /\ request[q].pc = "writing" \/ (request[q].pc = "answered" /\ request[q].agent \in disturbed')
        /\ request' = [request EXCEPT ![q] = Unsent]
        /\ UNCHANGED <<row, held, issued, reported, files, tasks>>
        /\ disturbed \subseteq disturbed' /\ disturbed' \subseteq disturbed \cup {request[q].agent}
    BY <1>2 DEF FailHeartbeat, Timeout
  <2>2. faults' \in 0..MaxFaults
    BY <1>1, <1>2 DEF FailHeartbeat, Timeout
  <2>3. request'[q] = Unsent /\ \A r \in Requests : r # q => request'[r] = request[r]
    BY <1>1, <2>1
  <2>4. UnderWay(q)' /\ Unsent \in InFlight
    BY <2>3, RequestFacts DEF UnderWay, InFlight
  <2>5. disturbed' \subseteq LiveAgents
    BY <1>1, <2>1, RequestFacts
  <2>6. \A b \in LiveAgents \ disturbed' : Waits(b) => Waits(b)'
    BY <2>1, <2>3 DEF Waits
  <2> QED
    BY <1>1, <2>1, <2>2, <2>3, <2>4, <2>5, <2>6, RequestFrame
<1>3. CASE Timeout(q) /\ request[q].pc = "writing"
  <2> DEFINE t == [request[q] EXCEPT !.heard = FALSE]
  <2>1. /\ request' = [request EXCEPT ![q] = t]
        /\ UNCHANGED <<row, held, issued, reported, files, tasks>>
        /\ disturbed' = disturbed \cup {request[q].agent}
    BY <1>1, <1>3 DEF Timeout
  <2>2. faults' \in 0..MaxFaults
    BY <1>1, <1>3 DEF Timeout
  <2>3. request[q] \in Writing /\ request[q].agent \in LiveAgents /\ UnderWay(q)
    BY <1>3, RequestFacts DEF Writing
  <2>4. /\ t \in InFlight /\ t.pc = "writing" /\ t.agent = request[q].agent
        /\ t.insert = request[q].insert /\ t.state = request[q].state /\ t.source = request[q].source
    BY <2>3 DEF Writing, InFlight
  <2> HIDE DEF t
  <2>5. request'[q] = t /\ \A r \in Requests : r # q => request'[r] = request[r]
    BY <1>1, <2>1
  <2>6. UnderWay(q)'
    BY <1>3, <2>1, <2>3, <2>4, <2>5 DEF UnderWay
  <2>7. \A b \in LiveAgents : Waits(b) => Waits(b)'
    BY <1>3, <2>5 DEF Waits
  <2> QED
    BY <1>1, <2>1, <2>2, <2>3, <2>4, <2>5, <2>6, <2>7, RequestFrame
<1>4. CASE LoadTokens(q)
  <2>1. /\ request[q].pc = "answered"
        /\ UNCHANGED <<row, held, issued, reported, disturbed, files, tasks, faults>>
    BY <1>4 DEF LoadTokens
  <2>2. PICK copy \in {held, NoTokens} :
            request' = [request EXCEPT ![q] = [pc |-> "storing", agent |-> request[q].agent,
                                               token |-> request[q].token, copy |-> copy]]
    BY <1>1, <1>4 DEF LoadTokens
  <2> DEFINE t == [pc |-> "storing", agent |-> request[q].agent, token |-> request[q].token,
                   copy |-> copy]
  <2>3. request[q] \in Answered /\ UnderWay(q)
    BY <2>1, RequestFacts
  <2>4. copy \in [LiveAgents -> 0..issued] /\ copy \in [LiveAgents -> 0..MaxToken]
    BY <1>1, <2>2 DEF NoTokens
  <2>5. /\ t \in InFlight /\ t.pc = "storing" /\ t.agent = request[q].agent
        /\ t.token = request[q].token /\ t.copy = copy
    BY <2>3, <2>4 DEF Answered, Storing, InFlight
  <2>6. request' = [request EXCEPT ![q] = t]
    BY <2>2
  <2> HIDE DEF t
  <2>7. request'[q] = t /\ \A r \in Requests : r # q => request'[r] = request[r]
    BY <1>1, <2>6
  <2>8. UnderWay(q)'
    <3>1. \A b \in LiveAgents : copy[b] <= issued
      BY <1>1, <2>4
    <3> QED
      BY <2>1, <2>3, <2>5, <2>7, <3>1 DEF UnderWay
  <2>9. \A b \in LiveAgents : Waits(b) => Waits(b)'
    BY <2>1, <2>5, <2>7 DEF Waits
  <2> QED
    BY <1>1, <2>1, <2>5, <2>6, <2>7, <2>8, <2>9, RequestFrame
<1> QED
  BY <1>2, <1>3, <1>4 DEF Timeout

\* A client stores its token, or fails to.
LEMMA HeartbeatStores ==
    ASSUME PresenceInv,
           NEW q \in Requests, StoreToken(q) \/ FailStore(q)
    PROVE  PresenceInv'
<1> DEFINE t == request[q]
           a == request[q].agent
<1>1. /\ held \in [LiveAgents -> 0..issued] /\ disturbed \subseteq LiveAgents /\ faults \in 0..MaxFaults
      /\ request \in [Requests -> InFlight] /\ issued \in 0..MaxToken
      /\ MaxFaults \in Nat /\ MaxToken \in Nat
  BY PresenceAssumption DEF PresenceInv, PresenceTypeOK, PresenceAssumption
<1>2. /\ t.pc = "storing" /\ t \in Storing /\ UnderWay(q) /\ a \in LiveAgents
      /\ t.token \in 0..issued
  <2>1. t.pc = "storing" /\ t \in Storing /\ UnderWay(q)
    BY RequestFacts DEF StoreToken, FailStore
  <2> QED
    BY <1>1, <2>1 DEF Storing, UnderWay
<1>3. /\ request' = [request EXCEPT ![q] = Unsent]
      /\ UNCHANGED <<row, issued, reported, files, tasks>>
  BY DEF StoreToken, FailStore
<1>4. request'[q] = Unsent /\ \A r \in Requests : r # q => request'[r] = request[r]
  BY <1>1, <1>3
<1>5. UnderWay(q)' /\ Unsent \in InFlight
  BY <1>4, RequestFacts DEF UnderWay, InFlight
<1>6. \A b \in LiveAgents : b # a => (Waits(b) => Waits(b)')
  BY <1>4 DEF Waits
<1>7. /\ held' \in [LiveAgents -> 0..issued]
      /\ disturbed \subseteq disturbed' /\ disturbed' \subseteq LiveAgents
      /\ faults' \in 0..MaxFaults
      /\ \A b \in LiveAgents \ disturbed' : b # a => held'[b] = held[b]
      /\ a \in disturbed' \/ held'[a] = row[a].token
  <2>1. CASE StoreToken(q)
    <3>1. /\ held' = [t.copy EXCEPT ![a] = t.token] /\ faults' = faults
          /\ disturbed' = disturbed \cup (Differ(t.copy) \ {a})
      BY <2>1 DEF StoreToken
    <3>2. t.copy \in [LiveAgents -> 0..issued]
      <4>1. t.copy \in [LiveAgents -> 0..MaxToken] /\ \A b \in LiveAgents : t.copy[b] <= issued
        BY <1>2 DEF Storing, UnderWay
      <4> QED
        BY <1>1, <4>1
    <3>3. Differ(t.copy) \subseteq LiveAgents /\ \A b \in LiveAgents : b \notin Differ(t.copy) => t.copy[b] = held[b]
      BY DEF Differ
    <3>4. a \in disturbed \/ row[a].token = t.token
      BY <1>2 DEF UnderWay
    <3> QED
      BY <1>1, <1>2, <3>1, <3>2, <3>3, <3>4
  <2>2. CASE FailStore(q)
    <3>1. /\ held' \in {held, NoTokens} /\ faults' = faults + 1 /\ faults < MaxFaults
          /\ disturbed' = disturbed \cup {a} \cup Differ(held')
      BY <2>2 DEF FailStore
    <3>2. held' \in [LiveAgents -> 0..issued]
      BY <1>1, <3>1 DEF NoTokens
    <3>3. Differ(held') \subseteq LiveAgents /\ \A b \in LiveAgents : b \notin Differ(held') => held'[b] = held[b]
      BY DEF Differ
    <3>4. faults' \in 0..MaxFaults
      BY <1>1, <3>1
    <3> QED
      BY <1>1, <1>2, <3>1, <3>2, <3>3, <3>4
  <2> QED
    BY <2>1, <2>2
<1>8. \A b \in LiveAgents \ disturbed' :
          /\ held'[b] \in {held[b], row[b].token}
          /\ Waits(b) => Waits(b)' \/ held'[b] = row[b].token
  BY <1>6, <1>7
<1> QED
  BY <1>3, <1>4, <1>5, <1>7, <1>8, RequestFrame

\* A heartbeat writes its columns, with a token if it found none.
LEMMA HeartbeatCommits ==
    ASSUME PresenceInv, NEW q \in Requests, CommitHeartbeat(q)
    PROVE  PresenceInv'
<1> DEFINE t == request[q]
           a == request[q].agent
           token == IF t.issue THEN issued + 1 ELSE row[a].token
           new == [state |-> Written(row[a].state, t.state), beat |-> "fresh",
                   source |-> Written(row[a].source, t.source), token |-> token]
<1>1. t \in Writing /\ t.pc = "writing" /\ a \in LiveAgents /\ UnderWay(q)
      /\ t.issue \in BOOLEAN /\ t.heard \in BOOLEAN
      /\ t.state \in Column({"working", "other"}) /\ t.source \in Column({"none", "mc-file"})
  BY RequestFacts DEF CommitHeartbeat, Writing
<1>2. /\ t.insert <=> row[a] = Absent
      /\ t.issue => issued < MaxToken
      /\ issued' = IF t.issue THEN issued + 1 ELSE issued
      /\ row' = [row EXCEPT ![a] = new]
      /\ request' = [request EXCEPT ![q] =
               IF t.issue /\ t.heard
               THEN [pc |-> "answered", agent |-> a, token |-> token]
               ELSE Unsent]
      /\ reported' = [reported EXCEPT ![a] = "since"]
      /\ disturbed' = IF t.issue /\ row[a].token # 0 THEN disturbed \cup {a} ELSE disturbed
      /\ Touched(a)
      /\ UNCHANGED <<held, files, watcher, scanning, changed, faults, missed>>
  <2>1. t.insert \in BOOLEAN
    BY <1>1 DEF Writing
  <2> QED
    BY <1>1, <2>1 DEF CommitHeartbeat, Lost
<1>3. /\ issued \in Nat /\ MaxToken \in Nat /\ issued' \in Nat
      /\ issued' \in 0..MaxToken /\ issued <= issued'
      /\ token \in Nat /\ token \in 0..MaxToken /\ token <= issued'
      /\ t.issue => token \in 1..MaxToken
  <2>1. issued \in 0..MaxToken /\ MaxToken \in Nat /\ row[a].token \in 0..issued /\ t.issue \in BOOLEAN
    BY <1>1, RowFacts, PresenceAssumption DEF PresenceInv, PresenceTypeOK, PresenceAssumption
  <2>2. CASE t.issue
    BY <1>2, <2>1, <2>2
  <2>3. CASE ~t.issue
    BY <1>2, <2>1, <2>3
  <2> QED
    BY <2>2, <2>3
<1>4. new \in Row /\ new # Absent /\ (new.source = "mc-file" => row[a].source = "mc-file")
      /\ new.token = token
  <2>1. Written(row[a].state, t.state) \in {"working", "other", "stale"}
    <3>1. CASE t.state = <<>>
      <4>1. row[a] \in Row
        BY <1>1, <1>2, <3>1, RowFacts DEF UnderWay
      <4>2. Written(row[a].state, t.state) = row[a].state
        BY <3>1 DEF Written
      <4> QED
        BY <4>1, <4>2 DEF Row
    <3>2. CASE t.state # <<>>
      <4>1. t.state \in Column({"working", "other"})
        BY <1>1
      <4>2. Written(row[a].state, t.state) \in {"working", "other"}
        BY <3>2, <4>1 DEF Written, Column
      <4> QED
        BY <4>2
    <3> QED
      BY <3>1, <3>2
  <2>2. /\ Written(row[a].source, t.source) \in {"none", "mc-file"}
        /\ Written(row[a].source, t.source) = "mc-file" => row[a].source = "mc-file"
    <3>1. t.source \in Column({"none", "mc-file"}) /\ t.source # <<"mc-file">>
      BY <1>1 DEF UnderWay
    <3>2. row[a].source \in {"none", "mc-file"}
      BY <1>1, RowFacts
    <3>3. CASE t.source = <<>>
      BY <3>2, <3>3 DEF Written
    <3>4. CASE t.source = <<"none">>
      BY <3>4 DEF Written
    <3> QED
      BY <3>1, <3>3, <3>4 DEF Column
  <2>3. token \in 0..MaxToken
    BY <1>3
  <2> HIDE DEF token
  <2>4. new \in Row
    BY <2>1, <2>2, <2>3 DEF Row
  <2>5. Absent \notin Row
    BY DEF Row, Absent
  <2> QED
    BY <2>2, <2>4, <2>5
<1> HIDE DEF new, token
<1>5. /\ \A b \in LiveAgents : b # a => row'[b] = row[b]
      /\ row'[a] = new
      /\ row' \in [LiveAgents -> Row \cup {Absent}]
  BY <1>1, <1>2, <1>4 DEF PresenceInv, PresenceTypeOK
<1>6. /\ \A r \in Requests : r # q => request'[r] = request[r]
      /\ request' \in [Requests -> InFlight]
      /\ t.issue /\ t.heard =>
            /\ request'[q].pc = "answered" /\ request'[q].agent = a /\ request'[q].token = token
      /\ ~(t.issue /\ t.heard) => request'[q] = Unsent
  <2> DEFINE answer == [pc |-> "answered", agent |-> a, token |-> token]
  <2>1. t.issue => answer \in InFlight
    BY <1>1, <1>3 DEF InFlight, Answered
  <2>2. Unsent \in InFlight /\ answer.agent = a /\ answer.token = token /\ answer.pc = "answered"
    BY DEF Unsent, InFlight
  <2>3. request' = [request EXCEPT ![q] = IF t.issue /\ t.heard THEN answer ELSE Unsent]
    BY <1>2
  <2> HIDE DEF answer
  <2> QED
    BY <2>1, <2>2, <2>3 DEF PresenceInv, PresenceTypeOK
<1>7. PresenceTypeOK'
  <2>1. loop' \in InLoop
    <3>1. \A b \in LiveAgents : row[b] # Absent => row'[b] # Absent
      BY <1>4, <1>5
    <3> QED
      BY <1>1, <1>2, <3>1, LoopFrame DEF Touched, files
  <2>2. \A b \in LiveAgents : row'[b].token <= issued'
    <3>1. \A b \in LiveAgents : row[b].token \in 0..issued
      BY RowFacts
    <3> QED
      BY <1>3, <1>4, <1>5, <3>1
  <2>3. held \in [LiveAgents -> 0..issued']
    BY <1>3 DEF PresenceInv, PresenceTypeOK
  <2>4. /\ reported' \in [LiveAgents -> {"never", "before", "since"}]
        /\ disturbed' \subseteq LiveAgents
    BY <1>1, <1>2 DEF PresenceInv, PresenceTypeOK
  <2> QED
    BY <1>2, <1>3, <1>5, <1>6, <2>1, <2>2, <2>3, <2>4 DEF PresenceInv, PresenceTypeOK, files
\* While the token of an undisturbed agent is on its way no other is issued.
<1>8. ASSUME NEW r \in Requests, r # q
      PROVE  UnderWay(r)'
  <2>1. UnderWay(r) /\ request'[r] = request[r] /\ disturbed \subseteq disturbed'
    BY <1>2, <1>6, <1>8, RequestFacts
  <2>2. ASSUME request[r].pc \in {"answered", "storing"}
        PROVE  /\ request[r].token <= issued'
               /\ request[r].agent \in disturbed' \/ row'[request[r].agent].token = request[r].token
    <3>1. request[r].token \in 1..MaxToken /\ request[r].token <= issued
          /\ (request[r].agent \in disturbed \/ row[request[r].agent].token = request[r].token)
          /\ request[r].agent \in LiveAgents
      BY <2>1, <2>2, RequestFacts DEF UnderWay
    <3>2. CASE request[r].agent # a
      BY <1>3, <1>5, <2>1, <3>1, <3>2
    <3>3. CASE request[r].agent = a
      <4>1. a \in disturbed' \/ ~t.issue \/ (a \notin disturbed /\ row[a].token = 0)
        BY <1>2
      <4>2. a \in disturbed' \/ ~t.issue
        BY <2>1, <3>1, <3>3, <4>1
      <4>3. ~t.issue => row'[a].token = row[a].token
        BY <1>4, <1>5 DEF token
      <4> QED
        BY <1>3, <2>1, <3>1, <3>3, <4>2, <4>3
    <3> QED
      BY <3>2, <3>3
  <2>3. ASSUME request[r].pc = "storing", NEW b \in LiveAgents PROVE request[r].copy[b] <= issued'
    <3>1. request[r].copy[b] \in Nat /\ request[r].copy[b] <= issued
      BY <2>1, <2>3, RequestFacts DEF UnderWay, Storing
    <3> QED
      BY <1>3, <3>1
  <2> QED
    BY <2>1, <2>2, <2>3 DEF UnderWay
<1>9. UnderWay(q)'
  <2>1. CASE t.issue /\ t.heard
    <3>1. token <= issued' /\ row'[a].token = token
      BY <1>3, <1>4, <1>5
    <3> QED
      BY <1>6, <2>1, <3>1 DEF UnderWay
  <2>2. CASE ~(t.issue /\ t.heard)
    BY <1>6, <2>2, RequestFacts DEF UnderWay
  <2> QED
    BY <2>1, <2>2
<1>10. EnrolmentUnderWay'
  BY <1>8, <1>9 DEF EnrolmentUnderWay
<1>11. NoLockout'
  <2>1. \A b \in LiveAgents : Waits(b) => Waits(b)'
    BY <1>1, <1>6 DEF Waits
  <2>2. ASSUME NEW b \in LiveAgents, b \notin disturbed', ~Waits(b)' PROVE row'[b].token = held[b]
    <3>1. row[b].token = held[b] /\ b \notin disturbed
      BY <1>2, <2>1, <2>2 DEF PresenceInv, NoLockout, Admits, Sent
    <3>2. CASE b = a
      <4>1. t.heard
        BY <1>1, <3>1, <3>2 DEF UnderWay
      <4>2. ~t.issue
        BY <1>6, <2>2, <3>2, <4>1 DEF Waits
      <4> QED
        BY <1>4, <1>5, <3>1, <3>2, <4>2 DEF token
    <3>3. CASE b # a
      BY <1>5, <3>1, <3>3
    <3> QED
      BY <3>2, <3>3
  <2> QED
    BY <1>2, <2>2 DEF NoLockout, Admits, Sent
<1>12. LoopUnderWay'
  <2>1. \A b \in LiveAgents : row[b] # Absent => row'[b] # Absent
    BY <1>4, <1>5
  <2> QED
    BY <1>1, <1>2, <2>1, LoopFrame DEF Touched, files
<1>13. FilesKnown'
  BY <1>1, <1>2, <1>4, <1>5 DEF PresenceInv, FilesKnown, files
<1> QED
  BY <1>7, <1>10, <1>11, <1>12, <1>13 DEF PresenceInv

\* Operators, agents and time.
LEMMA PresenceOutside ==
    ASSUME PresenceInv, NEW a \in LiveAgents,
           \/ revoke_agent_token(a) \/ Age(a) \/ Vanish(a)
           \/ \E content \in Contents : WriteFile(a, content)
    PROVE  PresenceInv'
<1>1. CASE revoke_agent_token(a) \/ Age(a)
  <2>1. /\ UNCHANGED <<held, request, issued, reported, files, tasks, faults>>
        /\ disturbed \subseteq disturbed' /\ disturbed' \subseteq LiveAgents
    BY <1>1 DEF revoke_agent_token, Age, PresenceInv, PresenceTypeOK, enrolment
  <2>2. /\ row' \in [LiveAgents -> Row \cup {Absent}]
        /\ \A b \in LiveAgents : /\ row[b] # Absent => row'[b] # Absent
                                 /\ row'[b].source = row[b].source
                                 /\ row'[b].token \in {0, row[b].token}
                                 /\ b \in disturbed' \/ row'[b].token = row[b].token
    <3> DEFINE new == row'[a]
    <3>1. /\ row \in [LiveAgents -> Row \cup {Absent}] /\ row[a] \in Row /\ row[a] # Absent
      <4>1. row[a].token # 0 \/ row[a].beat = "fresh"
        BY <1>1 DEF revoke_agent_token, Age
      <4>2. row[a] # Absent
        BY <4>1 DEF Absent
      <4> QED
        BY <4>2, RowFacts DEF PresenceInv, PresenceTypeOK
    <3>2. /\ row' = [row EXCEPT ![a] = new] /\ new \in Row /\ new.source = row[a].source
          /\ new.token \in {0, row[a].token} /\ (a \in disturbed' \/ new.token = row[a].token)
      <4>1. CASE revoke_agent_token(a)
        <5>1. row' = [row EXCEPT ![a] = [row[a] EXCEPT !.token = 0]] /\ a \in disturbed'
          BY <4>1 DEF revoke_agent_token
        <5>2. 0 \in 0..MaxToken
          BY PresenceAssumption DEF PresenceAssumption
        <5> QED
          BY <3>1, <5>1, <5>2 DEF Row
      <4>2. CASE Age(a)
        <5>1. row' = [row EXCEPT ![a] = [row[a] EXCEPT !.beat = "old"]]
          BY <4>2 DEF Age
        <5> QED
          BY <3>1, <5>1 DEF Row
      <4> QED
        BY <1>1, <4>1, <4>2
    <3>3. Absent \notin Row
      BY DEF Row, Absent
    <3> HIDE DEF new
    <3> QED
      BY <3>1, <3>2, <3>3
  <2>3. ASSUME NEW b \in LiveAgents PROVE row'[b].token <= issued
    <3>1. row[b].token \in 0..issued /\ row'[b].token \in {0, row[b].token}
      BY <2>2, RowFacts
    <3>2. issued \in Nat
      BY DEF PresenceInv, PresenceTypeOK
    <3> QED
      BY <3>1, <3>2
  <2>4. PresenceTypeOK'
    BY <2>1, <2>2, <2>3 DEF PresenceInv, PresenceTypeOK, files, tasks
  <2>5. NoLockout' /\ EnrolmentUnderWay'
    BY <2>1, <2>2, EnrolmentFrame
  <2>6. LoopUnderWay'
    BY <2>1, <2>2, LoopFrame DEF files, tasks
  <2>7. FilesKnown'
    BY <2>1, <2>2 DEF PresenceInv, FilesKnown, files
  <2> QED
    BY <2>4, <2>5, <2>6, <2>7 DEF PresenceInv
<1>2. ASSUME NEW content \in Contents, WriteFile(a, content) \/ (Vanish(a) /\ content = Missing)
      PROVE  PresenceInv'
  <2>1. /\ UNCHANGED <<row, enrolment, loop, scanning, faults>>
        /\ file' = [file EXCEPT ![a] = content]
        /\ filed \subseteq filed' /\ filed' \subseteq LiveAgents
        /\ content.kind = "status" => a \in filed'
        /\ writes' \in 0..MaxWrites /\ {changed', missed'} \subseteq BOOLEAN
        /\ watcher' \in {"starting", "signing", "polling", "dead"}
    <3>1. writes < MaxWrites /\ writes' = writes + 1 /\ writes \in 0..MaxWrites /\ MaxWrites \in Nat
      BY <1>2, PresenceAssumption DEF WriteFile, Vanish, PresenceInv, PresenceTypeOK, PresenceAssumption
    <3>2. writes' \in 0..MaxWrites
      BY <3>1
    <3>3. CASE WriteFile(a, content)
      BY <3>2, <3>3 DEF WriteFile, PresenceInv, PresenceTypeOK
    <3>4. CASE Vanish(a) /\ content = Missing
      BY <3>2, <3>4 DEF Vanish, Missing, PresenceInv, PresenceTypeOK
    <3> QED
      BY <1>2, <3>3, <3>4
  <2>2. PresenceTypeOK'
    BY <2>1 DEF PresenceInv, PresenceTypeOK, enrolment
  <2>3. NoLockout' /\ EnrolmentUnderWay'
    BY <2>1, EnrolmentFrame DEF enrolment
  <2>4. LoopUnderWay'
    BY <2>1, LoopFrame
  <2>5. FilesKnown'
    BY <2>1 DEF PresenceInv, PresenceTypeOK, FilesKnown
  <2> QED
    BY <2>2, <2>3, <2>4, <2>5 DEF PresenceInv
<1>3. Missing \in Contents
  BY DEF Contents
<1> QED
  BY <1>1, <1>2, <1>3

\* What a sync decides for an agent.
LEMMA SyncedFacts ==
    ASSUME PresenceInv, NEW a \in LiveAgents, NEW date \in {"fresh", "old"}
    PROVE  /\ Synced(a, date) \in Sync
           /\ Synced(a, date).do = "update" => row[a] # Absent
           /\ Synced(a, date).do = "insert" => Synced(a, date).row.token = 0
           /\ Synced(a, date).do # "nothing" => a \in filed
<1> DEFINE beat == IF file[a].dated THEN date ELSE row[a].beat
           insert == [state |-> file[a].state, beat |-> beat, source |-> "mc-file", token |-> 0]
<1>1. file[a] \in Contents /\ file[a].state \in {"working", "other"}
      /\ file[a].dated \in BOOLEAN
  <2>1. file[a] \in Contents
    BY DEF PresenceInv, PresenceTypeOK
  <2>2. \A c \in Contents : c.state \in {"working", "other"} /\ c.dated \in BOOLEAN
    <3>1. /\ Missing.state = "other" /\ Missing.dated = FALSE
          /\ Bad.state = "other" /\ Bad.dated = FALSE
      BY DEF Missing, Bad
    <3>2. \A s \in Statuses : s.state \in {"working", "other"} /\ s.dated \in BOOLEAN
      BY PresenceAssumption DEF PresenceAssumption
    <3>3. ASSUME NEW c \in Contents, c # Missing, c # Bad
          PROVE  c.state \in {"working", "other"} /\ c.dated \in BOOLEAN
      <4>1. \E s \in Statuses : c = [kind |-> "status", state |-> s.state, dated |-> s.dated]
        BY <3>3, Zenon DEF Contents
      <4> QED
        BY <3>2, <4>1
    <3> QED
      BY <3>1, <3>3
  <2> QED
    BY <2>1, <2>2
<1>2. CASE file[a].kind = "status" /\ row[a] = Absent
  <2>1. Synced(a, date) = [do |-> "insert", row |-> insert]
    BY <1>2 DEF Synced
  <2>2. beat \in {"none", "fresh", "old"}
    BY <1>1, RowFacts
  <2>3. 0 \in 0..MaxToken
    BY PresenceAssumption DEF PresenceAssumption
  <2> HIDE DEF beat
  <2>4. insert \in Row /\ insert.token = 0
    BY <1>1, <2>2, <2>3 DEF Row
  <2> HIDE DEF insert
  <2> QED
    BY <1>2, <2>1, <2>4 DEF Sync, PresenceInv, FilesKnown
<1>3. CASE file[a].kind = "status" /\ row[a] # Absent
  <2> DEFINE s == Changed(row[a].state, file[a].state)
             b == Changed(row[a].beat, beat)
             m == Changed(row[a].source, "mc-file")
  <2>1. Synced(a, date) = [do |-> "update", state |-> s, beat |-> b, source |-> m]
    BY <1>3 DEF Synced
  <2>2. s \in Column({"working", "other"})
    BY <1>1 DEF Changed, Column
  <2>3. b \in Column({"fresh", "old"})
    BY <1>1 DEF Changed, Column
  <2>4. m \in Column({"mc-file"})
    BY DEF Changed, Column
  <2> HIDE DEF s, b, m
  <2> QED
    BY <1>3, <2>1, <2>2, <2>3, <2>4 DEF Sync, PresenceInv, FilesKnown
<1>4. CASE file[a].kind # "status" /\ row[a].source = "mc-file"
  <2>1. Synced(a, date) = [do |-> "delete"]
    BY <1>4 DEF Synced
  <2> QED
    BY <1>4, <2>1 DEF Sync, PresenceInv, FilesKnown
<1>5. CASE file[a].kind # "status" /\ row[a].source # "mc-file"
  <2>1. Synced(a, date) = [do |-> "nothing"]
    BY <1>5 DEF Synced
  <2> QED
    BY <2>1 DEF Sync
<1> QED
  BY <1>2, <1>3, <1>4, <1>5

\* What the transaction of a sync makes of a row.
LEMMA MergedFacts ==
    ASSUME PresenceInv, loop.task = "sync", ~Refused(loop), NEW a \in LiveAgents
    PROVE  LET new == Merged(row[a], loop.new[a])
           IN  /\ new \in Row \cup {Absent} /\ new.token <= issued
               /\ a \in disturbed \cup Purged(loop) \/ new.token = row[a].token
               /\ new.source = "mc-file" => a \in filed
               /\ row[a] # Absent /\ new = Absent => a \in filed
<1> DEFINE n == loop.new[a]
           new == Merged(row[a], n)
<1>1. /\ n \in Sync
      /\ n.do = "update"  => row[a] # Absent
      /\ n.do = "insert"  => n.row.token = 0
      /\ n.do # "nothing" => a \in filed
  BY DEF PresenceInv, PresenceTypeOK, InLoop, Free, LoopUnderWay
<1>2. /\ row[a] \in Row \cup {Absent} /\ row[a].token <= issued /\ row[a].token \in 0..issued
      /\ issued \in Nat /\ (row[a].source = "mc-file" => a \in filed)
  BY RowFacts DEF PresenceInv, PresenceTypeOK, FilesKnown
<1>3. CASE n.do = "insert"
  <2>1. new = n.row /\ n.row \in Row
    BY <1>1, <1>3 DEF Merged, Sync
  <2>2. row[a] = Absent
    BY <1>3 DEF Refused, Created
  <2> QED
    BY <1>1, <1>2, <1>3, <2>1, <2>2, RowFacts
<1>4. CASE n.do = "delete"
  <2>1. new = Absent /\ a \in Purged(loop) /\ a \in filed
    BY <1>1, <1>4 DEF Merged, Purged
  <2> QED
    BY <1>2, <2>1, RowFacts
<1>5. CASE n.do = "nothing"
  <2>1. new = row[a]
    BY <1>5 DEF Merged
  <2> QED
    BY <1>2, <2>1
<1>6. CASE n.do = "update"
  <2>1. n \in [do : {"update"}, state : Column({"working", "other"}),
               beat : Column({"fresh", "old"}), source : Column({"mc-file"})]
    BY <1>1, <1>6 DEF Sync
  <2>2. row[a] \in Row /\ a \in filed
    BY <1>1, <1>2, <1>6
  <2> DEFINE s == Written(row[a].state, n.state)
             b == Written(row[a].beat, n.beat)
             m == Written(row[a].source, n.source)
  <2>3. new = [state |-> s, beat |-> b, source |-> m, token |-> row[a].token]
    BY <1>6 DEF Merged
  <2>4. s \in {"working", "other", "stale"}
    <3>1. n.state \in Column({"working", "other"}) /\ row[a].state \in {"working", "other", "stale"}
      BY <2>1, <2>2 DEF Row
    <3>2. s \in {"working", "other"} \cup {row[a].state}
      BY <3>1 DEF Written, Column
    <3> QED
      BY <3>1, <3>2
  <2>5. b \in {"none", "fresh", "old"}
    <3>1. n.beat \in Column({"fresh", "old"}) /\ row[a].beat \in {"none", "fresh", "old"}
      BY <2>1, <2>2 DEF Row
    <3>2. b \in {"fresh", "old"} \cup {row[a].beat}
      BY <3>1 DEF Written, Column
    <3> QED
      BY <3>1, <3>2
  <2>6. m \in {"none", "mc-file"}
    <3>1. n.source \in Column({"mc-file"}) /\ row[a].source \in {"none", "mc-file"}
      BY <2>1, <2>2 DEF Row
    <3>2. m \in {"mc-file"} \cup {row[a].source}
      BY <3>1 DEF Written, Column
    <3> QED
      BY <3>1, <3>2
  <2>7. row[a].token \in 0..MaxToken
    BY <2>2 DEF Row
  <2> HIDE DEF s, b, m
  <2>8. new \in Row
    BY <2>3, <2>4, <2>5, <2>6, <2>7 DEF Row
  <2> QED
    BY <1>2, <2>2, <2>3, <2>8
<1>7. n.do \in {"insert", "delete", "nothing", "update"}
  BY <1>1 DEF Sync
<1> QED
  BY <1>3, <1>4, <1>5, <1>6, <1>7

\* The watcher reads the files and rows, then writes what it decided.
LEMMA SyncStep ==
    ASSUME PresenceInv, BeginSync \/ CommitSync
    PROVE  PresenceInv'
<1>1. CASE BeginSync
  <2>1. PICK date \in {"fresh", "old"} :
            loop' = [task |-> "sync", new |-> [a \in LiveAgents |-> Synced(a, date)], touched |-> {}]
    BY <1>1 DEF BeginSync
  <2>2. /\ UNCHANGED <<row, enrolment, files, watcher, scanning, faults, missed>>
        /\ changed' \in BOOLEAN
    BY <1>1 DEF BeginSync
  <2>3. /\ loop'.task = "sync" /\ loop' \in InLoop
        /\ \A a \in LiveAgents : loop'.new[a] = Synced(a, date)
    BY <2>1, SyncedFacts DEF InLoop
  <2>4. PresenceTypeOK'
    BY <2>2, <2>3 DEF PresenceInv, PresenceTypeOK, files, enrolment
  <2>5. NoLockout' /\ EnrolmentUnderWay'
    BY <2>2, EnrolmentFrame DEF enrolment
  <2>6. LoopUnderWay'
    BY <2>2, <2>3, SyncedFacts DEF LoopUnderWay, files
  <2>7. FilesKnown'
    BY <2>2 DEF PresenceInv, FilesKnown, files
  <2> QED
    BY <2>4, <2>5, <2>6, <2>7 DEF PresenceInv
<1>2. CASE CommitSync
  <2>1. /\ loop.task = "sync" /\ ~Refused(loop) /\ loop' = Free
        /\ row' = [a \in LiveAgents |-> Merged(row[a], loop.new[a])]
        /\ disturbed' = disturbed \cup Purged(loop) /\ Purged(loop) \subseteq LiveAgents
        /\ UNCHANGED <<held, request, issued, files, scanning, faults, missed>>
        /\ watcher' \in {"starting", "signing", "polling", "dead"} /\ changed' \in BOOLEAN
        /\ reported' \in [LiveAgents -> {"never", "before", "since"}]
    BY <1>2 DEF CommitSync, PresenceInv, PresenceTypeOK, Purged
  <2>2. \A a \in LiveAgents :
            /\ row'[a] \in Row \cup {Absent} /\ row'[a].token <= issued
            /\ a \in disturbed' \/ row'[a].token = row[a].token
            /\ row'[a].source = "mc-file" => a \in filed
    BY <2>1, MergedFacts
  <2>3. PresenceTypeOK'
    BY <2>1, <2>2 DEF PresenceInv, PresenceTypeOK, files, InLoop
  <2>4. NoLockout' /\ EnrolmentUnderWay'
    BY <2>1, <2>2, EnrolmentFrame
  <2>5. LoopUnderWay'
    BY <2>1 DEF LoopUnderWay, Free
  <2>6. FilesKnown'
    BY <2>1, <2>2 DEF PresenceInv, FilesKnown, files
  <2> QED
    BY <2>3, <2>4, <2>5, <2>6 DEF PresenceInv
<1> QED
  BY <1>1, <1>2

\* The scanner finds the silent, then calls them stale.
LEMMA ScanStep ==
    ASSUME PresenceInv, BeginScan \/ CommitScan
    PROVE  PresenceInv'
<1>1. CASE BeginScan
  <2>1. /\ loop' = [task |-> "scan", found |-> {a \in LiveAgents : Silent(a)}]
        /\ UNCHANGED <<row, enrolment, files, watcher, scanning, changed, faults, missed>>
    BY <1>1 DEF BeginScan
  <2>2. \A a \in LiveAgents : Silent(a) => row[a] # Absent
    BY DEF Silent, Absent
  <2>3. loop' \in InLoop /\ LoopUnderWay'
    BY <2>1, <2>2 DEF LoopUnderWay, InLoop
  <2>4. PresenceTypeOK'
    BY <2>1, <2>3 DEF PresenceInv, PresenceTypeOK, files, enrolment
  <2>5. NoLockout' /\ EnrolmentUnderWay'
    BY <2>1, EnrolmentFrame DEF enrolment
  <2>6. FilesKnown'
    BY <2>1 DEF PresenceInv, FilesKnown, files
  <2> QED
    BY <2>3, <2>4, <2>5, <2>6 DEF PresenceInv
<1>2. CASE CommitScan
  <2>1. /\ loop.task = "scan" /\ loop' = Free
        /\ row' = [a \in LiveAgents |-> IF a \in loop.found THEN [row[a] EXCEPT !.state = "stale"]
                                           ELSE row[a]]
        /\ UNCHANGED <<enrolment, files, watcher, scanning, changed, faults, missed>>
    BY <1>2 DEF CommitScan, Found
  <2>2. ASSUME NEW a \in LiveAgents
        PROVE  /\ row'[a] \in Row \cup {Absent} /\ row'[a].token = row[a].token
               /\ row'[a].source = row[a].source
    <3>1. CASE a \in loop.found
      <4>1. row[a] \in Row
        BY <2>1, <3>1, RowFacts DEF PresenceInv, LoopUnderWay
      <4>2. row'[a] = [row[a] EXCEPT !.state = "stale"]
        BY <2>1, <3>1
      <4> QED
        BY <4>1, <4>2 DEF Row
    <3>2. CASE a \notin loop.found
      BY <2>1, <3>2, RowFacts
    <3> QED
      BY <3>1, <3>2
  <2>3. PresenceTypeOK'
    BY <2>1, <2>2 DEF PresenceInv, PresenceTypeOK, files, enrolment, InLoop
  <2>4. NoLockout' /\ EnrolmentUnderWay'
    BY <2>1, <2>2, EnrolmentFrame DEF enrolment
  <2>5. LoopUnderWay'
    BY <2>1 DEF LoopUnderWay, Free
  <2>6. FilesKnown'
    BY <2>1, <2>2 DEF PresenceInv, FilesKnown, files
  <2> QED
    BY <2>3, <2>4, <2>5, <2>6 DEF PresenceInv
<1> QED
  BY <1>1, <1>2

\* A task of the loop fails, or a signature is taken.
LEMMA LoopEndStep ==
    ASSUME PresenceInv, ReadBadFile \/ FirstSignature \/ FailSync \/ Outage
    PROVE  PresenceInv'
<1>1. /\ UNCHANGED <<row, enrolment, files, missed>>
      /\ {scanning', changed'} \subseteq BOOLEAN
      /\ watcher' \in {"starting", "signing", "polling", "dead"} /\ loop' \in {loop, Free}
      /\ faults' \in 0..MaxFaults
  <2>1. CASE ReadBadFile \/ FirstSignature
    BY <2>1 DEF ReadBadFile, FirstSignature, PresenceInv, PresenceTypeOK
  <2>2. CASE FailSync
    BY <2>2 DEF FailSync, PresenceInv, PresenceTypeOK
  <2>3. CASE Outage
    <3>1. faults < MaxFaults /\ faults' = faults + 1 /\ faults \in 0..MaxFaults
          /\ MaxFaults \in Nat
      BY <2>3, PresenceAssumption DEF Outage, PresenceInv, PresenceTypeOK, PresenceAssumption
    <3>2. faults' \in 0..MaxFaults
      BY <3>1
    <3> QED
      BY <2>3, <3>2 DEF Outage, PresenceInv, PresenceTypeOK
  <2> QED
    BY <2>1, <2>2, <2>3
<1>2. PresenceTypeOK'
  BY <1>1 DEF PresenceInv, PresenceTypeOK, files, enrolment, InLoop
<1>3. NoLockout' /\ EnrolmentUnderWay'
  BY <1>1, EnrolmentFrame DEF enrolment
<1>4. LoopUnderWay'
  BY <1>1 DEF PresenceInv, LoopUnderWay, Free, files
<1>5. FilesKnown'
  BY <1>1 DEF PresenceInv, FilesKnown, files
<1> QED
  BY <1>2, <1>3, <1>4, <1>5 DEF PresenceInv

LEMMA InitPresence ==
    ASSUME PresenceInit
    PROVE  PresenceInv
<1>1. PresenceTypeOK
  <2>1. Missing \in Contents /\ Unsent \in InFlight /\ Free \in InLoop
    BY DEF Contents, InFlight, InLoop
  <2>2. 0 \in 0..MaxToken /\ 0 \in 0..MaxWrites /\ 0 \in 0..MaxFaults /\ 0 \in 0..0
    BY PresenceAssumption DEF PresenceAssumption
  <2>3. Absent.token <= 0
    BY DEF Absent
  <2> QED
    BY <2>1, <2>2, <2>3 DEF PresenceInit, PresenceTypeOK
<1>2. \A a \in LiveAgents : row[a].token = 0 /\ held[a] = 0 /\ row[a].source = "none"
                            /\ file[a].kind = "missing"
  BY DEF PresenceInit, Absent, Missing
<1>3. NoLockout /\ EnrolmentUnderWay /\ FilesKnown
  BY <1>2
  DEF PresenceInit, NoLockout, Admits, Sent, EnrolmentUnderWay, UnderWay, Unsent, FilesKnown
<1>4. LoopUnderWay
  BY DEF PresenceInit, LoopUnderWay, Free
<1> QED
  BY <1>1, <1>3, <1>4 DEF PresenceInv

LEMMA PresenceStep ==
    ASSUME PresenceInv, [PresenceNext]_presence
    PROVE  PresenceInv'
<1>1. CASE UNCHANGED presence
  <2>1. UNCHANGED <<row, held, request, issued, reported, disturbed, files, tasks, faults>>
    BY <1>1 DEF presence, files, tasks
  <2>2. PresenceTypeOK' /\ FilesKnown'
    BY <2>1 DEF PresenceInv, PresenceTypeOK, FilesKnown, files, tasks
  <2>3. NoLockout' /\ EnrolmentUnderWay'
    BY <2>1, EnrolmentFrame
  <2>4. LoopUnderWay'
    BY <2>1, LoopFrame DEF files, tasks
  <2> QED
    BY <2>2, <2>3, <2>4 DEF PresenceInv
<1>2. ASSUME NEW q \in Requests, Heartbeat(q) PROVE PresenceInv'
  BY <1>2, HeartbeatRead, HeartbeatCommits, HeartbeatMoves, HeartbeatStores DEF Heartbeat
<1>3. ASSUME NEW a \in LiveAgents,
             \/ revoke_agent_token(a) \/ Age(a)
             \/ \E content \in Contents : a \in Orchestrated /\ WriteFile(a, content)
             \/ a \in Orchestrated /\ Vanish(a)
      PROVE  PresenceInv'
  BY <1>3, PresenceOutside
<1>4. CASE \/ ReadBadFile \/ BeginSync \/ CommitSync \/ FirstSignature \/ FailSync
           \/ BeginScan \/ CommitScan \/ Outage
  BY <1>4, SyncStep, ScanStep, LoopEndStep
<1> QED
  BY <1>1, <1>2, <1>3, <1>4 DEF PresenceNext

\* In every history of overlapping heartbeats, lost answers, failed and overwritten
\* stores, revocations, syncs and scans an agent that nobody disturbed is let in with the token its client holds
\* (heartbeat.py, client.py): NoLockout, with what makes it inductive.
THEOREM EnrolmentKept == PresenceSpec => []PresenceInv
<1>1. PresenceInit => PresenceInv
  BY InitPresence
<1>2. PresenceInv /\ [PresenceNext]_presence => PresenceInv'
  BY PresenceStep
<1> QED
  BY <1>1, <1>2, PTL DEF PresenceSpec

\* A row goes by a sync, and only if its agent had a file.
LEMMA OnlyFiledDeleted ==
    ASSUME PresenceInv,
           [PresenceNext]_presence, NEW a \in LiveAgents, row[a] # Absent, row'[a] = Absent
    PROVE  a \in filed
<1>1. CASE CommitSync
  BY <1>1, MergedFacts DEF CommitSync
<1>2. CASE CommitScan
  <2>1. row[a] \in Row
    BY RowFacts
  <2>2. row'[a] \in {row[a], [row[a] EXCEPT !.state = "stale"]}
    BY <1>2 DEF CommitScan
  <2> QED
    BY <2>1, <2>2, RowFacts DEF Row, Absent
<1>3. ASSUME NEW b \in LiveAgents, revoke_agent_token(b) \/ Age(b) PROVE FALSE
  <2>1. row' \in [LiveAgents -> Row \cup {Absent}] /\ row \in [LiveAgents -> Row \cup {Absent}]
    BY <1>3, PresenceOutside DEF PresenceInv, PresenceTypeOK
  <2>2. row[a] \in Row /\ row[a].state # "absent" /\ Absent.state = "absent"
    BY RowFacts DEF Row, Absent
  <2>3. row'[a].state = row[a].state
    BY <1>3, <2>1, <2>2 DEF revoke_agent_token, Age, Row
  <2> QED
    BY <2>2, <2>3
<1>4. ASSUME NEW q \in Requests, CommitHeartbeat(q) PROVE FALSE
  <2>1. request[q].agent \in LiveAgents /\ request[q].pc = "writing"
    BY <1>4, RequestFacts DEF CommitHeartbeat
  <2>2. row'[request[q].agent].beat = "fresh" /\ Absent.beat # "fresh"
    BY <1>4, <2>1 DEF CommitHeartbeat, PresenceInv, PresenceTypeOK, Absent
  <2>3. \A b \in LiveAgents : b # request[q].agent => row'[b] = row[b]
    BY <1>4 DEF CommitHeartbeat, PresenceInv, PresenceTypeOK
  <2> QED
    BY <2>2, <2>3
<1>5. row' # row
  OBVIOUS
<1> QED
  BY <1>1, <1>2, <1>3, <1>4, <1>5
  DEF PresenceNext, presence, Heartbeat, ReadHeartbeat, FailHeartbeat, Timeout,
      LoadTokens, StoreToken, FailStore, WriteFile, Vanish, ReadBadFile,
      BeginSync, FirstSignature, FailSync, BeginScan, Outage

\* sync_once deletes only agents that once had a status file: what a client puts in
\* its meta never makes the watcher take its agent for one of its own.
THEOREM AgentsKept == PresenceSpec => HeartbeatAgentsKept
<1>1. PresenceInv /\ [PresenceNext]_presence =>
        [\A a \in LiveAgents : row[a] # Absent /\ row'[a] = Absent => a \in filed]_presence
  BY OnlyFiledDeleted
<1> QED
  BY <1>1, EnrolmentKept, PTL DEF PresenceSpec, HeartbeatAgentsKept
=============================================================================
