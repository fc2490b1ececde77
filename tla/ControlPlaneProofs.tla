------------------------- MODULE ControlPlaneProofs -------------------------
(* Theorems about ControlPlane, for every set of keys, entries, workspaces *)
(* and records, every catalog and all bounds.                              *)
EXTENDS ControlPlane, TLAPS

-----------------------------------------------------------------------------
(* What a step of the server is to one of its stores.                      *)
AuthStep ==
  \/ UNCHANGED authVars /\ (up' => up)
  \/ up /\ up' /\ \E k \in KeyIds : Authenticate(k)
  \/ up /\ up' /\ \E actor, k \in KeyIds, ok \in BOOLEAN : CreateKey(actor, k, ok) \/ RevokeKey(actor, k, ok)
  \/ ~up /\ up' /\ LoadKeys
  \/ ~up' /\ keys' = keysSaved /\ UNCHANGED <<keysSaved, issued, revoked>>

RegistryStep ==
  \/ UNCHANGED registryVars /\ (up => up')
  \/ up /\ up' /\ \E e \in Entries, d \in Definitions, ok \in BOOLEAN : Replace(e, d, ok)
  \/ up /\ up' /\ \E d \in Definitions, document \in SUBSET Others : ImportAgency(d, document)
  \/ up /\ up' /\ \E d \in Definitions, imported \in SUBSET Others, e \in Others : ImportAgencyFails(d, imported, e)
  \/ up /\ ~up' /\ registry' = registrySaved /\ UNCHANGED <<registrySaved, acknowledged, doubtful, narrowed>>
  \/ ~up /\ \E done \in SUBSET Seeds : LoadRegistry(done)

GrantStep ==
  \/ UNCHANGED grantVars
  \/ /\ up /\ up' /\ UNCHANGED registryVars
     /\ \E s \in Services, ws \in Workspaces, tools \in Definitions, ok \in BOOLEAN : Grant(s, ws, tools, ok)
  \/ grants' = grantsSaved /\ UNCHANGED grantsSaved

OrganizationStep ==
  \/ UNCHANGED organizationVars
  \/ /\ up /\ up'
     /\ \E ok \in BOOLEAN :
          \/ \E p \in Projects, ws \in Workspaces : CreateProject(p, ws, ok)
          \/ \E c \in Conversations, ws \in Workspaces, p \in Projects \cup {Nobody} :
               CreateConversation(c, ws, p, ok)
          \/ \E c \in Conversations \cup {Nobody} : AppendMessage(c, ok)
  \/ organization' = organizationSaved /\ UNCHANGED organizationSaved

Steps == AuthStep /\ RegistryStep /\ GrantStep /\ OrganizationStep

LEMMA NextSteps == requests \in [Slots -> Request \cup {Idle}] /\ [Next]_vars => Steps
<1> SUFFICES ASSUME requests \in [Slots -> Request \cup {Idle}], [Next]_vars PROVE Steps
  OBVIOUS
<1>1. ASSUME NEW q \in Slots, NEW k \in KeyIds, NEW route \in Routes, NEW about \in Conversations \cup {Nobody},
             Receive(q, k, route, about)
      PROVE  Steps
  BY <1>1 DEF Receive,
       Steps, AuthStep, RegistryStep, GrantStep, OrganizationStep
<1>2. ASSUME NEW q \in Slots, Refuse(q) PROVE Steps
  BY <1>2 DEF Refuse,
       Steps, AuthStep, RegistryStep, GrantStep, OrganizationStep
<1>3. ASSUME NEW q \in Slots, NEW ok \in BOOLEAN, NEW k \in KeyIds, PostKey(q, k, ok)
      PROVE  Steps
  <2>1. requests[q].key \in KeyIds
    BY <1>3, RequestAssumption DEF PostKey, Answer, Request
  <2> QED BY <1>3, <2>1 DEF PostKey, Answer,
       Steps, AuthStep, RegistryStep, GrantStep, OrganizationStep
<1>4. ASSUME NEW q \in Slots, NEW ok \in BOOLEAN, NEW e \in Entries, NEW d \in Definitions,
             PostEntry(q, e, d, ok) \/ PostHub(q, e, d, ok)
      PROVE  Steps
  <2>1. Replace(e, d, ok)
    BY <1>4 DEF PostEntry, Register, PostHub, SaveHub
  <2> QED BY <1>4, <2>1 DEF PostEntry, PostHub, Answer,
       Steps, AuthStep, RegistryStep, GrantStep, OrganizationStep
<1>5. ASSUME NEW q \in Slots, NEW ok \in BOOLEAN, NEW s \in Services, NEW d \in Definitions, PostService(q, s, d, ok)
      PROVE  Steps
  BY <1>5 DEF PostService, RegisterService, Answer, Entries,
       Steps, AuthStep, RegistryStep, GrantStep, OrganizationStep
<1>6. ASSUME NEW q \in Slots, NEW ok \in BOOLEAN, NEW s \in Services, NEW ws \in Workspaces, NEW tools \in Definitions,
             PostGrant(q, s, ws, tools, ok)
      PROVE  Steps
  BY <1>6 DEF PostGrant, Answer,
       Steps, AuthStep, RegistryStep, GrantStep, OrganizationStep
<1>7. ASSUME NEW q \in Slots, NEW ok \in BOOLEAN, NEW p \in Projects, NEW ws \in Workspaces, PostProject(q, p, ws, ok)
      PROVE  Steps
  BY <1>7 DEF PostProject, Answer,
       Steps, AuthStep, RegistryStep, GrantStep, OrganizationStep
<1>8. ASSUME NEW q \in Slots, NEW ok \in BOOLEAN, NEW c \in Conversations, NEW ws \in Workspaces,
             NEW p \in Projects \cup {Nobody}, PostConversation(q, c, ws, p, ok)
      PROVE  Steps
  BY <1>8 DEF PostConversation, Answer,
       Steps, AuthStep, RegistryStep, GrantStep, OrganizationStep
<1>9. ASSUME NEW q \in Slots, NEW ok \in BOOLEAN, PostMessage(q, ok)
      PROVE  Steps
  <2>1. requests[q].about \in Conversations \cup {Nobody}
    BY <1>9, RequestAssumption DEF PostMessage, Answer, Request
  <2> QED BY <1>9, <2>1 DEF PostMessage, Answer,
       Steps, AuthStep, RegistryStep, GrantStep, OrganizationStep
<1>10. ASSUME NEW q \in Slots, NEW d \in Definitions, NEW document \in SUBSET Others \ {{}}, PostAgency(q, d, document)
       PROVE  Steps
  BY <1>10 DEF PostAgency, Answer,
       Steps, AuthStep, RegistryStep, GrantStep, OrganizationStep
<1>11. ASSUME NEW q \in Slots, NEW d \in Definitions, NEW imported \in SUBSET Others, NEW e \in Others \ imported,
              PostAgencyFails(q, d, imported, e)
       PROVE  Steps
  BY <1>11 DEF PostAgencyFails, Answer,
       Steps, AuthStep, RegistryStep, GrantStep, OrganizationStep
<1>12. ASSUME NEW actor \in KeyIds, NEW k \in KeyIds, NEW ok \in BOOLEAN, DeleteKey(actor, k, ok)
       PROVE  Steps
  BY <1>12 DEF DeleteKey,
       Steps, AuthStep, RegistryStep, GrantStep, OrganizationStep
<1>13. CASE Crash
  BY <1>13 DEF Crash,
       Steps, AuthStep, RegistryStep, GrantStep, OrganizationStep
<1>14. CASE Start
  BY <1>14 DEF Start, LoadRegistry, LoadOrganization,
       Steps, AuthStep, RegistryStep, GrantStep, OrganizationStep
<1>15. ASSUME NEW done \in SUBSET Seeds, StartFails(done)
       PROVE  Steps
  BY <1>15 DEF StartFails, LoadRegistry,
       Steps, AuthStep, RegistryStep, GrantStep, OrganizationStep
<1>16. CASE UNCHANGED vars
  BY <1>16 DEF vars, serverVars,
       Steps, AuthStep, RegistryStep, GrantStep, OrganizationStep
<1>17. ASSUME NEW q \in Slots, NEW ok \in BOOLEAN, NEW ws \in Workspaces, NEW c \in Conversations,
              PostMission(q, ws, c, ok)
       PROVE  Steps
  BY <1>17 DEF PostMission, Answer,
       Steps, AuthStep, RegistryStep, GrantStep, OrganizationStep
<1>18. ASSUME NEW c \in Conversations, NEW ok \in BOOLEAN, MissionReports(c, ok)
       PROVE  Steps
  BY <1>18 DEF MissionReports,
       Steps, AuthStep, RegistryStep, GrantStep, OrganizationStep
<1>19. ASSUME NEW q \in Slots, NEW ok \in BOOLEAN, Post(q, ok) PROVE Steps
  BY <1>3, <1>4, <1>5, <1>6, <1>7, <1>8, <1>9, <1>17, <1>19 DEF Post
<1> QED BY <1>1, <1>2, <1>10, <1>11, <1>12, <1>13, <1>14, <1>15, <1>16, <1>18, <1>19 DEF Next

-----------------------------------------------------------------------------
(* The types.                                                              *)
LEMMA InitType == Init => TypeOK
<1> SUFFICES ASSUME Init PROVE TypeOK
  OBVIOUS
<1>1. {keys, keysSaved, issued, revoked} \subseteq SUBSET KeyIds
  BY DEF Init, AuthInit
<1>2. [e \in Entries |-> Absent] \in [Entries -> SUBSET Parts]
  BY DEF Absent
<1>3. /\ {registry, registrySaved, acknowledged} \subseteq [Entries -> SUBSET Parts]
      /\ {grants, grantsSaved} \subseteq [Services -> [Workspaces -> SUBSET Parts]]
      /\ doubtful \subseteq Entries /\ narrowed \subseteq Entries
  BY <1>2 DEF Init, RegistryInit
<1>4. 0 \in 0 .. MaxMessages /\ 0 \in 0 .. MaxRequests /\ 0 \in 0 .. MaxFailures /\ 0 \in 0 .. MaxCrashes
  BY OrganizationAssumption, RequestAssumption
<1>5. {organization, organizationSaved} \subseteq Organization
  BY <1>4, OrganizationAssumption DEF Init, OrganizationInit, Opened, Organization
<1>6. requests \in [Slots -> Request \cup {Idle}] /\ up \in BOOLEAN
  BY DEF Init
<1> QED BY <1>1, <1>3, <1>4, <1>5, <1>6 DEF Init, TypeOK

LEMMA AuthType == TypeOK /\ AuthStep => ({keys, keysSaved, issued, revoked} \subseteq SUBSET KeyIds)'
<1> SUFFICES ASSUME TypeOK, AuthStep
             PROVE  keys' \subseteq KeyIds /\ keysSaved' \subseteq KeyIds /\ issued' \subseteq KeyIds /\ revoked' \subseteq KeyIds
  OBVIOUS
<1>1. keys \subseteq KeyIds /\ keysSaved \subseteq KeyIds /\ issued \subseteq KeyIds /\ revoked \subseteq KeyIds
  BY DEF TypeOK
<1> QED BY <1>1, AuthAssumption DEF AuthStep, authVars, Authenticate, CreateKey, RevokeKey, LoadKeys, Written

LEMMA RegistryType ==
  TypeOK /\ RegistryStep =>
    ({registry, registrySaved, acknowledged} \subseteq [Entries -> SUBSET Parts] /\ doubtful \subseteq Entries
     /\ narrowed \subseteq Entries)'
<1> SUFFICES ASSUME TypeOK, RegistryStep
             PROVE  /\ registry' \in [Entries -> SUBSET Parts] /\ registrySaved' \in [Entries -> SUBSET Parts]
                    /\ acknowledged' \in [Entries -> SUBSET Parts]
                    /\ doubtful' \subseteq Entries /\ narrowed' \subseteq Entries
  OBVIOUS
<1>1. /\ registry \in [Entries -> SUBSET Parts] /\ registrySaved \in [Entries -> SUBSET Parts]
      /\ acknowledged \in [Entries -> SUBSET Parts]
      /\ doubtful \subseteq Entries /\ narrowed \subseteq Entries
  BY DEF TypeOK
<1>2. CASE UNCHANGED registryVars
  BY <1>1, <1>2 DEF registryVars
<1>3. ASSUME NEW e \in Entries, NEW d \in Definitions, NEW ok \in BOOLEAN, Replace(e, d, ok)
      PROVE  /\ registry' \in [Entries -> SUBSET Parts] /\ registrySaved' \in [Entries -> SUBSET Parts]
             /\ acknowledged' \in [Entries -> SUBSET Parts]
             /\ doubtful' \subseteq Entries /\ narrowed' \subseteq Entries
  BY <1>1, <1>3 DEF Replace, Written, Definitions
<1>4. ASSUME NEW d \in Definitions, NEW document \in SUBSET Others, ImportAgency(d, document)
      PROVE  /\ registry' \in [Entries -> SUBSET Parts] /\ registrySaved' \in [Entries -> SUBSET Parts]
             /\ acknowledged' \in [Entries -> SUBSET Parts]
             /\ doubtful' \subseteq Entries /\ narrowed' \subseteq Entries
  BY <1>1, <1>4 DEF ImportAgency, Definitions
<1>5. ASSUME NEW d \in Definitions, NEW imported \in SUBSET Others, NEW e \in Others, ImportAgencyFails(d, imported, e)
      PROVE  /\ registry' \in [Entries -> SUBSET Parts] /\ registrySaved' \in [Entries -> SUBSET Parts]
             /\ acknowledged' \in [Entries -> SUBSET Parts]
             /\ doubtful' \subseteq Entries /\ narrowed' \subseteq Entries
  BY <1>1, <1>5 DEF ImportAgencyFails, Definitions, Entries
<1>6. ASSUME NEW done \in SUBSET Seeds, LoadRegistry(done)
      PROVE  /\ registry' \in [Entries -> SUBSET Parts] /\ registrySaved' \in [Entries -> SUBSET Parts]
             /\ acknowledged' \in [Entries -> SUBSET Parts]
             /\ doubtful' \subseteq Entries /\ narrowed' \subseteq Entries
  BY <1>1, <1>6, CatalogAssumption DEF LoadRegistry, Seeded, Definitions, Entries
<1>7. CASE registry' = registrySaved /\ UNCHANGED <<registrySaved, acknowledged, doubtful, narrowed>>
  BY <1>1, <1>7
<1> QED BY <1>2, <1>3, <1>4, <1>5, <1>6, <1>7 DEF RegistryStep

LEMMA GrantType ==
  TypeOK /\ GrantStep => ({grants, grantsSaved} \subseteq [Services -> [Workspaces -> SUBSET Parts]])'
<1> SUFFICES ASSUME TypeOK, GrantStep
             PROVE  /\ grants' \in [Services -> [Workspaces -> SUBSET Parts]]
                    /\ grantsSaved' \in [Services -> [Workspaces -> SUBSET Parts]]
  OBVIOUS
<1>1. grants \in [Services -> [Workspaces -> SUBSET Parts]] /\ grantsSaved \in [Services -> [Workspaces -> SUBSET Parts]]
  BY DEF TypeOK
<1>2. ASSUME NEW s \in Services, NEW ws \in Workspaces, NEW tools \in Definitions, NEW ok \in BOOLEAN, Grant(s, ws, tools, ok)
      PROVE  /\ grants' \in [Services -> [Workspaces -> SUBSET Parts]]
             /\ grantsSaved' \in [Services -> [Workspaces -> SUBSET Parts]]
  BY <1>1, <1>2 DEF Grant, Written, Definitions
<1> QED BY <1>1, <1>2 DEF GrantStep, grantVars

(* What a request makes of the records.                                    *)
LEMMA OrganizationType ==
  TypeOK /\ OrganizationStep => ({organization, organizationSaved} \subseteq Organization)'
<1> SUFFICES ASSUME TypeOK, OrganizationStep
             PROVE  organization' \in Organization /\ organizationSaved' \in Organization
  OBVIOUS
<1>1. organization \in Organization /\ organizationSaved \in Organization
  BY DEF TypeOK
<1>2. ASSUME NEW p \in Projects, NEW ws \in Workspaces, NEW ok \in BOOLEAN, CreateProject(p, ws, ok)
      PROVE  organization' \in Organization /\ organizationSaved' \in Organization
  BY <1>1, <1>2 DEF CreateProject, Store, Written, Organization
<1>3. ASSUME NEW c \in Conversations, NEW ws \in Workspaces, NEW p \in Projects \cup {Nobody}, NEW ok \in BOOLEAN,
             CreateConversation(c, ws, p, ok)
      PROVE  organization' \in Organization /\ organizationSaved' \in Organization
  <2>1. Opened(ws, p) \in
          [ws : Workspaces \cup {Nobody}, project : Projects \cup {Nobody}, messages : 0 .. MaxMessages]
    BY OrganizationAssumption DEF Opened
  <2> QED BY <1>1, <1>3, <2>1 DEF CreateConversation, Store, Written, Organization
<1>4. ASSUME NEW c \in Conversations \cup {Nobody}, NEW ok \in BOOLEAN, AppendMessage(c, ok)
      PROVE  organization' \in Organization /\ organizationSaved' \in Organization
  <2> DEFINE conv == [organization.conversations[c] EXCEPT !.messages = @ + 1]
             convs == [organization.conversations EXCEPT ![c] = conv]
  <2>1. CASE c \in Conversations
    <3>1. organization.conversations[c].messages \in 0 .. MaxMessages /\ organization.conversations[c].messages < MaxMessages
      BY <1>1, <1>4, <2>1 DEF AppendMessage, Conversation, Organization
    <3>2. organization.conversations[c].messages + 1 \in 0 .. MaxMessages
      BY <3>1, OrganizationAssumption
    <3>3. conv \in [ws : Workspaces \cup {Nobody}, project : Projects \cup {Nobody}, messages : 0 .. MaxMessages]
      <4>1. organization.conversations[c] \in
              [ws : Workspaces \cup {Nobody}, project : Projects \cup {Nobody}, messages : 0 .. MaxMessages]
        BY <1>1, <2>1 DEF Organization
      <4> QED BY <3>2, <4>1
    <3>4. convs \in [Conversations ->
                      [ws : Workspaces \cup {Nobody}, project : Projects \cup {Nobody}, messages : 0 .. MaxMessages]]
      BY <1>1, <3>3 DEF Organization
    <3>5. [organization EXCEPT !.conversations = convs] \in Organization
      BY <1>1, <3>4 DEF Organization
    <3>6. [organization EXCEPT !.conversations[c].messages = @ + 1] = [organization EXCEPT !.conversations = convs]
      BY <1>1, <2>1 DEF Organization
    <3> QED BY <1>1, <1>4, <3>5, <3>6 DEF AppendMessage, Store, Written
  <2>2. CASE c \notin Conversations
    <3>1. [organization EXCEPT !.conversations[c].messages = @ + 1] = organization
      BY <1>1, <2>2 DEF Organization
    <3> QED BY <1>1, <1>4, <3>1 DEF AppendMessage, Store, Written
  <2> QED BY <2>1, <2>2
<1> QED BY <1>1, <1>2, <1>3, <1>4 DEF OrganizationStep, organizationVars

(* What a step does to the requests and the counters.                      *)
ServerStep ==
  \/ UNCHANGED serverVars
  \/ \E q \in Slots, k \in KeyIds, route \in Routes, about \in Conversations \cup {Nobody} :
       Receive(q, k, route, about)
  \/ /\ up /\ up' /\ received' \in {received, received + 1} /\ (received' = received \/ received < MaxRequests)
     /\ failures' \in {failures, failures + 1} /\ (failures' = failures \/ failures < MaxFailures)
     /\ crashes' = crashes
     /\ \/ requests' = requests
        \/ \E q \in Slots : requests[q] # Idle /\ requests' = [requests EXCEPT ![q] = Idle]
  \/ /\ ~(up /\ up') /\ up' \in {up, TRUE, FALSE} /\ UNCHANGED <<received, failures>>
     /\ crashes' \in {crashes, crashes + 1} /\ (crashes' = crashes \/ crashes < MaxCrashes)
     /\ requests' = IF up THEN [q \in Slots |-> Idle] ELSE requests

LEMMA Served == [Next]_vars => ServerStep
<1> SUFFICES ASSUME [Next]_vars PROVE ServerStep
  OBVIOUS
<1>1. ASSUME NEW q \in Slots, NEW ok \in BOOLEAN, NEW route, Answer(q, route, ok) PROVE ServerStep
  BY <1>1 DEF Answer, ServerStep
<1>2. ASSUME NEW q \in Slots, NEW ok \in BOOLEAN, Post(q, ok) PROVE ServerStep
  BY <1>1, <1>2 DEF Post, PostKey, PostEntry, PostHub, PostService, PostGrant, PostProject, PostConversation, PostMessage,
       PostMission
<1>3. ASSUME NEW q \in Slots, NEW d \in Definitions, NEW document \in SUBSET Others \ {{}}, PostAgency(q, d, document)
      PROVE  ServerStep
  BY <1>1, <1>3 DEF PostAgency
<1>4. ASSUME NEW q \in Slots, NEW d \in Definitions, NEW imported \in SUBSET Others, NEW e \in Others \ imported,
             PostAgencyFails(q, d, imported, e)
      PROVE  ServerStep
  BY <1>1, <1>4 DEF PostAgencyFails
<1>5. ASSUME NEW q \in Slots, Refuse(q) PROVE ServerStep
  BY <1>5 DEF Refuse, ServerStep
<1>6. ASSUME NEW actor \in KeyIds, NEW k \in KeyIds, NEW ok \in BOOLEAN, DeleteKey(actor, k, ok) PROVE ServerStep
  BY <1>6 DEF DeleteKey, ServerStep
<1>7. CASE Crash
  BY <1>7 DEF Crash, ServerStep
<1>8. CASE Start
  BY <1>8 DEF Start, ServerStep
<1>9. ASSUME NEW done \in SUBSET Seeds, StartFails(done) PROVE ServerStep
  BY <1>9 DEF StartFails, ServerStep
<1>10. CASE UNCHANGED vars
  BY <1>10 DEF vars, ServerStep
<1>11. ASSUME NEW q \in Slots, NEW k \in KeyIds, NEW route \in Routes, NEW about \in Conversations \cup {Nobody},
              Receive(q, k, route, about)
       PROVE  ServerStep
  BY <1>11 DEF ServerStep
<1>12. ASSUME NEW c \in Conversations, NEW ok \in BOOLEAN, MissionReports(c, ok) PROVE ServerStep
  BY <1>12 DEF MissionReports, ServerStep
<1> QED BY <1>2, <1>3, <1>4, <1>5, <1>6, <1>7, <1>8, <1>9, <1>10, <1>11, <1>12 DEF Next

LEMMA CounterType == ASSUME NEW max \in Nat, NEW n \in 0 .. max, NEW m \in {n, n + 1}, m = n \/ n < max PROVE m \in 0 .. max
OBVIOUS

LEMMA ServerType ==
  TypeOK /\ ServerStep =>
    (up \in BOOLEAN /\ requests \in [Slots -> Request \cup {Idle}] /\ received \in 0 .. MaxRequests
     /\ failures \in 0 .. MaxFailures /\ crashes \in 0 .. MaxCrashes)'
<1> SUFFICES ASSUME TypeOK, ServerStep
             PROVE  /\ up' \in BOOLEAN /\ requests' \in [Slots -> Request \cup {Idle}]
                    /\ received' \in 0 .. MaxRequests
                    /\ failures' \in 0 .. MaxFailures /\ crashes' \in 0 .. MaxCrashes
  OBVIOUS
<1>1. /\ up \in BOOLEAN /\ requests \in [Slots -> Request \cup {Idle}] /\ received \in 0 .. MaxRequests
      /\ failures \in 0 .. MaxFailures /\ crashes \in 0 .. MaxCrashes
      /\ MaxRequests \in Nat /\ MaxFailures \in Nat /\ MaxCrashes \in Nat
  BY RequestAssumption DEF TypeOK
<1>2. CASE UNCHANGED serverVars
  BY <1>1, <1>2 DEF serverVars
<1>3. ASSUME NEW q \in Slots, NEW k \in KeyIds, NEW route \in Routes, NEW about \in Conversations \cup {Nobody},
             Receive(q, k, route, about)
      PROVE  /\ up' \in BOOLEAN /\ requests' \in [Slots -> Request \cup {Idle}]
             /\ received' \in 0 .. MaxRequests
             /\ failures' \in 0 .. MaxFailures /\ crashes' \in 0 .. MaxCrashes
  <2>1. Awaited(k, route, about) \in Request
    BY DEF Awaited, Request
  <2>2. received' \in 0 .. MaxRequests
    BY <1>1, <1>3 DEF Receive
  <2> QED BY <1>1, <1>3, <2>1, <2>2 DEF Receive
<1>4. CASE /\ up /\ up' /\ received' \in {received, received + 1} /\ (received' = received \/ received < MaxRequests)
           /\ failures' \in {failures, failures + 1} /\ (failures' = failures \/ failures < MaxFailures)
           /\ crashes' = crashes
           /\ \/ requests' = requests
              \/ \E q \in Slots : requests[q] # Idle /\ requests' = [requests EXCEPT ![q] = Idle]
  <2>1. requests' \in [Slots -> Request \cup {Idle}]
    BY <1>1, <1>4
  <2>2. up' \in BOOLEAN
    BY <1>4
  <2> QED BY <1>1, <1>4, <2>1, <2>2, CounterType
<1>5. CASE /\ ~(up /\ up') /\ up' \in {up, TRUE, FALSE} /\ UNCHANGED <<received, failures>>
           /\ crashes' \in {crashes, crashes + 1} /\ (crashes' = crashes \/ crashes < MaxCrashes)
           /\ requests' = IF up THEN [q \in Slots |-> Idle] ELSE requests
  BY <1>1, <1>5, CounterType
<1> QED BY <1>2, <1>3, <1>4, <1>5 DEF ServerStep

(* Missions are told of conversations, and nothing else is told of.        *)
LEMMA ReportedType == reported \subseteq Conversations /\ [Next]_vars => reported' \subseteq Conversations
<1> SUFFICES ASSUME reported \subseteq Conversations, [Next]_vars PROVE reported' \subseteq Conversations
  OBVIOUS
<1>1. ASSUME NEW q \in Slots, NEW ok \in BOOLEAN, Post(q, ok) PROVE reported' \subseteq Conversations
  BY <1>1 DEF Post, PostKey, PostEntry, PostHub, PostService, PostGrant, PostProject, PostConversation,
       PostMessage, PostMission
<1> QED BY <1>1 DEF Next, Receive, Refuse, PostAgency, PostAgencyFails, DeleteKey, MissionReports, Crash, Start,
       StartFails, vars

LEMMA NextType == TypeOK /\ [Next]_vars => TypeOK'
<1> SUFFICES ASSUME TypeOK, [Next]_vars PROVE TypeOK'
  OBVIOUS
<1>1. AuthStep /\ RegistryStep /\ GrantStep /\ OrganizationStep
  BY NextSteps DEF Steps, TypeOK
<1>2. ServerStep
  BY Served
<1>3. ({keys, keysSaved, issued, revoked} \subseteq SUBSET KeyIds)'
  BY <1>1, AuthType
<1>4. ({registry, registrySaved, acknowledged} \subseteq [Entries -> SUBSET Parts] /\ doubtful \subseteq Entries
        /\ narrowed \subseteq Entries)'
  BY <1>1, RegistryType
<1>5. ({grants, grantsSaved} \subseteq [Services -> [Workspaces -> SUBSET Parts]])'
  BY <1>1, GrantType
<1>6. ({organization, organizationSaved} \subseteq Organization)'
  BY <1>1, OrganizationType
<1>7. (up \in BOOLEAN /\ requests \in [Slots -> Request \cup {Idle}] /\ received \in 0 .. MaxRequests
        /\ failures \in 0 .. MaxFailures /\ crashes \in 0 .. MaxCrashes)'
  BY <1>2, ServerType
<1>8. reported' \subseteq Conversations
  BY ReportedType DEF TypeOK
<1> QED BY <1>3, <1>4, <1>5, <1>6, <1>7, <1>8 DEF TypeOK

(* The types of every store, in memory and in the database, hold in every  *)
(* reachable state.                                                        *)
THEOREM TypeCorrect == Spec => []TypeOK
BY InitType, NextType, PTL DEF Spec

-----------------------------------------------------------------------------
(* Keys: the bootstrap key is made only when there was never another, and  *)
(* an administrator is left by every revocation.                           *)
Admins(ks) == {k \in ks : Role[k] = "admin"}

KeysInv ==
  /\ keys \cup keysSaved \cup revoked \subseteq issued
  /\ revoked \cap (keys \cup keysSaved) = {}
  /\ keysSaved = {} => revoked = {} /\ ~up
  /\ keysSaved # {} => Admins(keysSaved) # {}
  /\ up => Admins(keys) # {}

LEMMA OnlyAdmins == \A k \in KeyIds : Permitted(k, "api-key:write") => Role[k] = "admin"
BY DEF Permitted, RolePermissions

LEMMA KeysStep == KeysInv /\ TypeOK /\ AuthStep => KeysInv'
<1> SUFFICES ASSUME KeysInv, TypeOK, AuthStep PROVE KeysInv'
  OBVIOUS
<1> USE DEF KeysInv, Admins
<1>1. CASE UNCHANGED authVars /\ (up' => up)
  BY <1>1 DEF authVars
<1>2. ASSUME up, NEW k \in KeyIds, Authenticate(k) PROVE KeysInv'
  BY <1>2 DEF Authenticate
<1>3. ASSUME up, NEW actor \in KeyIds, NEW k \in KeyIds, NEW ok \in BOOLEAN, CreateKey(actor, k, ok) PROVE KeysInv'
  <2>1. /\ k \notin issued /\ keys' = keys \cup {k} /\ keysSaved' \in {keys', keysSaved}
        /\ issued' = issued \cup {k} /\ revoked' = revoked
    BY <1>3 DEF CreateKey, Written
  <2> QED BY <1>3, <2>1
<1>4. ASSUME up, NEW actor \in KeyIds, NEW k \in KeyIds, NEW ok \in BOOLEAN, RevokeKey(actor, k, ok) PROVE KeysInv'
  <2>1. /\ actor \in keys \ {k} /\ Role[actor] = "admin" /\ k \in keys /\ keys' = keys \ {k}
        /\ keysSaved' \in {keys, keys'} /\ revoked' \subseteq revoked \cup {k} /\ issued' = issued
        /\ (keysSaved' = keys' \/ revoked' = revoked)
    BY <1>4, OnlyAdmins DEF RevokeKey, Written
  <2> QED BY <1>4, <2>1
<1>5. CASE ~up /\ up' /\ LoadKeys
  BY <1>5, AuthAssumption DEF LoadKeys
<1>6. CASE ~up' /\ keys' = keysSaved /\ UNCHANGED <<keysSaved, issued, revoked>>
  BY <1>6
<1> QED BY <1>1, <1>2, <1>3, <1>4, <1>5, <1>6 DEF AuthStep

LEMMA KeysInvariant == Spec => [](TypeOK /\ KeysInv)
<1>1. Init => TypeOK /\ KeysInv
  BY InitType DEF Init, AuthInit, KeysInv, Admins
<1>2. TypeOK /\ KeysInv /\ [Next]_vars => (TypeOK /\ KeysInv)'
  <2> SUFFICES ASSUME TypeOK, KeysInv, [Next]_vars PROVE TypeOK' /\ KeysInv'
    OBVIOUS
  <2>1. AuthStep
    BY NextSteps DEF Steps, TypeOK
  <2> QED BY <2>1, NextType, KeysStep
<1> QED BY <1>1, <1>2, PTL DEF Spec

(* A running server, and the one after it, always have an administrator.   *)
THEOREM AdminAlways == Spec => []AdminRemains
<1>1. KeysInv => AdminRemains
  BY DEF KeysInv, Admins, AdminRemains
<1> QED BY <1>1, KeysInvariant, PTL

(* No step brings back a key whose revocation was reported.                *)
THEOREM RevokedForEver == Spec => []RevokedStaysRevoked
<1>1. KeysInv => RevokedStaysRevoked
  BY DEF KeysInv, RevokedStaysRevoked
<1> QED BY <1>1, KeysInvariant, PTL

(* A revoked key ends the requests it has begun and begins no other.       *)
THEOREM RevokedFinishes == Spec => RevokedOnlyFinishes
<1>1. TypeOK /\ KeysInv /\ [Next]_vars => [\A k \in revoked : InFlight(k)' \subseteq InFlight(k)]_vars
  <2> SUFFICES ASSUME TypeOK, KeysInv, [Next]_vars, NEW k \in revoked, NEW q \in InFlight(k)' PROVE q \in InFlight(k)
    OBVIOUS
  <2>0. k \notin keys /\ q \in Slots /\ requests'[q] # Idle /\ requests'[q].key = k
    BY DEF KeysInv, InFlight
  <2>1. ServerStep /\ requests \in [Slots -> Request \cup {Idle}]
    BY Served DEF TypeOK
  <2>2. ASSUME NEW r \in Slots, NEW key \in KeyIds, NEW route \in Routes, NEW about \in Conversations \cup {Nobody},
               Receive(r, key, route, about)
        PROVE  q \in InFlight(k)
    <3>1. key \in keys /\ requests' = [requests EXCEPT ![r] = Awaited(key, route, about)]
      BY <2>2 DEF Receive, Authenticate
    <3>2. q # r
      BY <2>0, <2>1, <3>1 DEF Awaited
    <3> QED BY <2>0, <2>1, <3>1, <3>2 DEF InFlight
  <2>3. ASSUME NEW r \in Slots, requests' = [requests EXCEPT ![r] = Idle] PROVE q \in InFlight(k)
    BY <2>0, <2>1, <2>3 DEF InFlight
  <2>4. CASE requests' \in {requests, [x \in Slots |-> Idle]}
    BY <2>0, <2>4 DEF InFlight
  <2> QED BY <2>1, <2>2, <2>3, <2>4 DEF ServerStep, serverVars
<1> QED BY <1>1, KeysInvariant, PTL DEF Spec, RevokedOnlyFinishes

-----------------------------------------------------------------------------
(* The registry: memory and database agree with what was acknowledged, but *)
(* for what every start writes anew and what a write that failed left.     *)
RegistryInv ==
  /\ \A e \in Entries \ (Seeds \cup doubtful) : registry[e] = acknowledged[e] /\ registrySaved[e] = acknowledged[e]
  /\ \A s \in Services \ narrowed : registry[s] = registrySaved[s]
  /\ ~up => registry = registrySaved

LEMMA RegistryKept == RegistryInv /\ TypeOK /\ RegistryStep => RegistryInv'
<1> SUFFICES ASSUME RegistryInv, TypeOK, RegistryStep PROVE RegistryInv'
  OBVIOUS
<1>1. /\ registry \in [Entries -> SUBSET Parts] /\ registrySaved \in [Entries -> SUBSET Parts]
      /\ acknowledged \in [Entries -> SUBSET Parts]
  BY DEF TypeOK
<1>2. Services \subseteq Entries /\ Others \subseteq Entries /\ Services \cap Others = {} /\ Seeds \subseteq Entries
  BY CatalogAssumption DEF Entries
<1>3. CASE UNCHANGED registryVars /\ (up => up')
  BY <1>3 DEF registryVars, RegistryInv
<1>4. ASSUME up', NEW e \in Entries, NEW d \in Definitions, NEW ok \in BOOLEAN, Replace(e, d, ok)
      PROVE  RegistryInv'
  <2>1. /\ \A x \in Entries : registry'[x] = IF x = e THEN d ELSE registry[x]
        /\ registrySaved' = IF ok THEN registry' ELSE registrySaved
        /\ \A x \in Entries : acknowledged'[x] = IF ok /\ x = e THEN d ELSE acknowledged[x]
        /\ doubtful' = IF ok THEN doubtful \ {e} ELSE doubtful \cup {e}
        /\ narrowed \subseteq narrowed' /\ (~ok => e \in narrowed')
    BY <1>1, <1>4 DEF Replace, Written
  <2> QED BY <1>2, <1>4, <2>1 DEF RegistryInv
<1>5. ASSUME up', NEW d \in Definitions, NEW document \in SUBSET Others, ImportAgency(d, document)
      PROVE  RegistryInv'
  <2>1. /\ \A x \in Entries : registry'[x] = IF x \in document THEN d ELSE registry[x]
        /\ registrySaved' = registry'
        /\ \A x \in Entries : acknowledged'[x] = IF x \in document THEN d ELSE acknowledged[x]
        /\ doubtful' = doubtful \ document
    BY <1>5 DEF ImportAgency
  <2> QED BY <1>2, <1>5, <2>1 DEF RegistryInv
<1>6. ASSUME up', NEW d \in Definitions, NEW imported \in SUBSET Others, NEW e \in Others, ImportAgencyFails(d, imported, e)
      PROVE  RegistryInv'
  <2>1. /\ \A x \in Entries : registry'[x] = IF x \in imported \cup {e} THEN d ELSE registry[x]
        /\ \A x \in Entries : registrySaved'[x] =
             IF imported = {} THEN registrySaved[x] ELSE IF x \in imported THEN d ELSE registry[x]
        /\ acknowledged' = acknowledged /\ doubtful' = doubtful \cup imported \cup {e} /\ narrowed' = narrowed
    BY <1>6 DEF ImportAgencyFails
  <2> QED BY <1>2, <1>6, <2>1 DEF RegistryInv
<1>7. CASE up /\ ~up' /\ registry' = registrySaved /\ UNCHANGED <<registrySaved, acknowledged, doubtful, narrowed>>
  BY <1>2, <1>7 DEF RegistryInv
<1>8. ASSUME NEW done \in SUBSET Seeds, LoadRegistry(done) PROVE RegistryInv'
  <2>1. /\ registry' = registrySaved'
        /\ \A x \in Entries \ Seeds : registrySaved'[x] = registrySaved[x]
        /\ acknowledged' = acknowledged /\ doubtful' = doubtful
    BY <1>8 DEF LoadRegistry, Seeded
  <2> QED BY <1>2, <2>1 DEF RegistryInv
<1> QED BY <1>3, <1>4, <1>5, <1>6, <1>7, <1>8 DEF RegistryStep

(* An entry that is not narrowed only grows, in memory and on disk.        *)
LEMMA Widening ==
  RegistryInv /\ TypeOK /\ RegistryStep =>
    /\ narrowed \subseteq narrowed'
    /\ \A s \in Services \ narrowed' : registry[s] \subseteq registry'[s] /\ registrySaved[s] \subseteq registrySaved'[s]
<1> SUFFICES ASSUME RegistryInv, TypeOK, RegistryStep
             PROVE  /\ narrowed \subseteq narrowed'
                    /\ \A s \in Services \ narrowed' :
                         registry[s] \subseteq registry'[s] /\ registrySaved[s] \subseteq registrySaved'[s]
  OBVIOUS
<1>1. /\ registry \in [Entries -> SUBSET Parts] /\ Services \subseteq Entries /\ Services \cap Others = {}
      /\ \A s \in Services \ narrowed : registry[s] = registrySaved[s]
  BY CatalogAssumption DEF TypeOK, Entries, RegistryInv
<1>2. CASE UNCHANGED registryVars
  BY <1>2 DEF registryVars
<1>3. ASSUME NEW e \in Entries, NEW d \in Definitions, NEW ok \in BOOLEAN, Replace(e, d, ok)
      PROVE  /\ narrowed \subseteq narrowed'
             /\ \A s \in Services \ narrowed' :
                  registry[s] \subseteq registry'[s] /\ registrySaved[s] \subseteq registrySaved'[s]
  <2>1. /\ \A x \in Entries : registry'[x] = IF x = e THEN d ELSE registry[x]
        /\ registrySaved' = IF ok THEN registry' ELSE registrySaved
        /\ narrowed \subseteq narrowed' /\ (e \notin narrowed' => ok /\ registry[e] \subseteq d)
    BY <1>1, <1>3 DEF Replace, Written, Narrower
  <2> QED BY <1>1, <2>1
<1>4. ASSUME NEW d \in Definitions, NEW document \in SUBSET Others, ImportAgency(d, document)
      PROVE  /\ narrowed \subseteq narrowed'
             /\ \A s \in Services \ narrowed' :
                  registry[s] \subseteq registry'[s] /\ registrySaved[s] \subseteq registrySaved'[s]
  BY <1>1, <1>4 DEF ImportAgency
<1>5. ASSUME NEW d \in Definitions, NEW imported \in SUBSET Others, NEW e \in Others, ImportAgencyFails(d, imported, e)
      PROVE  /\ narrowed \subseteq narrowed'
             /\ \A s \in Services \ narrowed' :
                  registry[s] \subseteq registry'[s] /\ registrySaved[s] \subseteq registrySaved'[s]
  BY <1>1, <1>5 DEF ImportAgencyFails
<1>6. CASE registry' = registrySaved /\ UNCHANGED <<registrySaved, acknowledged, doubtful, narrowed>>
  BY <1>1, <1>6
<1>7. ASSUME ~up, NEW done \in SUBSET Seeds, LoadRegistry(done)
      PROVE  /\ narrowed \subseteq narrowed'
             /\ \A s \in Services \ narrowed' :
                  registry[s] \subseteq registry'[s] /\ registrySaved[s] \subseteq registrySaved'[s]
  <2>1. /\ registry' = registrySaved' /\ registry = registrySaved
        /\ \A x \in Entries : registrySaved'[x] = IF x \in done THEN Catalog[x] ELSE registrySaved[x]
        /\ narrowed' = narrowed \cup {s \in done \cap Services : ~(registry[s] \subseteq Catalog[s])}
    BY <1>7 DEF LoadRegistry, Seeded, Narrower, RegistryInv
  <2> QED BY <1>1, <2>1
<1> QED BY <1>2, <1>3, <1>4, <1>5, <1>6, <1>7 DEF RegistryStep

LEMMA GrantsKept == GrantsDeclared /\ RegistryInv /\ TypeOK /\ RegistryStep /\ GrantStep => GrantsDeclared'
<1> SUFFICES ASSUME GrantsDeclared, RegistryInv, TypeOK, RegistryStep, GrantStep,
                    NEW s \in Services \ narrowed', NEW ws \in Workspaces
             PROVE  grants'[s][ws] \subseteq registry'[s] /\ grantsSaved'[s][ws] \subseteq registrySaved'[s]
  BY DEF GrantsDeclared
<1>1. /\ s \notin narrowed /\ registry[s] = registrySaved[s]
      /\ registry[s] \subseteq registry'[s] /\ registrySaved[s] \subseteq registrySaved'[s]
  BY Widening DEF RegistryInv
<1>2. grants[s][ws] \subseteq registry[s] /\ grantsSaved[s][ws] \subseteq registry[s]
  BY <1>1 DEF GrantsDeclared
<1>3. ASSUME NEW t \in Services, NEW w \in Workspaces, NEW tools \in Definitions, NEW ok \in BOOLEAN, Grant(t, w, tools, ok)
      PROVE  grants'[s][ws] \subseteq registry[s] /\ grantsSaved'[s][ws] \subseteq registry[s]
  <2>1. grants \in [Services -> [Workspaces -> SUBSET Parts]]
    BY DEF TypeOK
  <2>2. grants'[s][ws] = IF s = t /\ ws = w THEN tools ELSE grants[s][ws]
    BY <1>3, <2>1 DEF Grant
  <2>3. tools \subseteq registry[t] /\ grantsSaved' \in {grants', grantsSaved}
    BY <1>3 DEF Grant, Written
  <2> QED BY <1>2, <2>2, <2>3
<1> QED BY <1>1, <1>2, <1>3 DEF GrantStep, grantVars

LEMMA RegistryInvariant == Spec => [](TypeOK /\ RegistryInv /\ GrantsDeclared)
<1>1. Init => TypeOK /\ RegistryInv /\ GrantsDeclared
  BY InitType DEF Init, RegistryInit, RegistryInv, GrantsDeclared
<1>2. TypeOK /\ RegistryInv /\ GrantsDeclared /\ [Next]_vars => (TypeOK /\ RegistryInv /\ GrantsDeclared)'
  <2> SUFFICES ASSUME TypeOK, RegistryInv, GrantsDeclared, [Next]_vars PROVE TypeOK' /\ RegistryInv' /\ GrantsDeclared'
    OBVIOUS
  <2>1. RegistryStep /\ GrantStep
    BY NextSteps DEF Steps, TypeOK
  <2> QED BY <2>1, NextType, RegistryKept, GrantsKept
<1> QED BY <1>1, <1>2, PTL DEF Spec

(* What was acknowledged is in memory and in the database.                 *)
THEOREM AcknowledgedHolds == Spec => []AcknowledgedKept
<1>1. RegistryInv => AcknowledgedKept
  BY DEF RegistryInv, AcknowledgedKept
<1> QED BY <1>1, RegistryInvariant, PTL

(* Grants stay within what their service declares, unless it was narrowed. *)
THEOREM GrantsHold == Spec => []GrantsDeclared
BY RegistryInvariant, PTL

-----------------------------------------------------------------------------
(* The records: a conversation with a project has a workspace, its         *)
(* project's.                                                              *)
AtHome(o) ==
  \A c \in Conversations :
    o.conversations[c].project # Nobody =>
      o.conversations[c].ws # Nobody /\ o.projects[o.conversations[c].project] = o.conversations[c].ws

HomeInv == AtHome(organization) /\ AtHome(organizationSaved)

LEMMA HomeKept == TypeOK /\ HomeInv /\ OrganizationStep => HomeInv'
<1> SUFFICES ASSUME TypeOK, HomeInv, OrganizationStep PROVE AtHome(organization') /\ AtHome(organizationSaved')
  BY DEF HomeInv
<1>1. organization \in Organization /\ AtHome(organization) /\ AtHome(organizationSaved)
  BY DEF TypeOK, HomeInv
<1>2. ASSUME NEW new, NEW ok \in BOOLEAN, AtHome(new), Store(new, ok)
      PROVE  AtHome(organization') /\ AtHome(organizationSaved')
  BY <1>1, <1>2 DEF Store, Written
<1>3. ASSUME NEW p \in Projects, NEW ws \in Workspaces, NEW ok \in BOOLEAN, CreateProject(p, ws, ok)
      PROVE  AtHome(organization') /\ AtHome(organizationSaved')
  <2> DEFINE new == [organization EXCEPT !.projects[p] = ws]
  <2>1. /\ new.conversations = organization.conversations /\ organization.projects[p] = Nobody
        /\ \A x \in Projects : new.projects[x] = IF x = p THEN ws ELSE organization.projects[x]
    BY <1>1, <1>3 DEF CreateProject, Project, Organization
  <2>2. \A c \in Conversations : organization.conversations[c].project \in Projects \cup {Nobody}
    BY <1>1 DEF Organization
  <2>3. AtHome(new)
    BY <1>1, <2>1, <2>2 DEF AtHome
  <2> QED BY <1>2, <1>3, <2>3 DEF CreateProject
<1>4. ASSUME NEW c \in Conversations, NEW ws \in Workspaces, NEW p \in Projects \cup {Nobody}, NEW ok \in BOOLEAN,
             CreateConversation(c, ws, p, ok)
      PROVE  AtHome(organization') /\ AtHome(organizationSaved')
  <2> DEFINE conv == Opened(ws, p)
             new == [organization EXCEPT !.conversations[c] = conv]
  <2>1. /\ new.projects = organization.projects
        /\ conv.ws = ws /\ conv.project = p
        /\ \A x \in Conversations : new.conversations[x] = IF x = c THEN conv ELSE organization.conversations[x]
    BY <1>1 DEF Organization, Opened
  <2>2. ws # Nobody /\ (p # Nobody => organization.projects[p] = ws)
    BY <1>4, OrganizationAssumption DEF CreateConversation, Project
  <2>3. AtHome(new)
    BY <1>1, <2>1, <2>2 DEF AtHome
  <2> QED BY <1>2, <1>4, <2>3 DEF CreateConversation
<1>5. ASSUME NEW c \in Conversations \cup {Nobody}, NEW ok \in BOOLEAN, AppendMessage(c, ok)
      PROVE  AtHome(organization') /\ AtHome(organizationSaved')
  <2> DEFINE new == [organization EXCEPT !.conversations[c].messages = @ + 1]
  <2>1. /\ new.projects = organization.projects
        /\ \A x \in Conversations : /\ new.conversations[x].ws = organization.conversations[x].ws
                                    /\ new.conversations[x].project = organization.conversations[x].project
    BY <1>1 DEF Organization
  <2>2. AtHome(new)
    BY <1>1, <2>1 DEF AtHome
  <2> QED BY <1>2, <1>5, <2>2 DEF AppendMessage
<1> QED BY <1>1, <1>3, <1>4, <1>5 DEF OrganizationStep, organizationVars

(* A conversation and its project are of one workspace.                    *)
THEOREM HomeHolds == Spec => []ConversationsAtHome
<1>1. Init => TypeOK /\ HomeInv
  BY InitType, OrganizationAssumption DEF Init, OrganizationInit, Opened, HomeInv, AtHome
<1>2. TypeOK /\ HomeInv /\ [Next]_vars => (TypeOK /\ HomeInv)'
  <2> SUFFICES ASSUME TypeOK, HomeInv, [Next]_vars PROVE TypeOK' /\ HomeInv'
    OBVIOUS
  <2>1. OrganizationStep
    BY NextSteps DEF Steps, TypeOK
  <2> QED BY <2>1, NextType, HomeKept
<1>3. HomeInv => ConversationsAtHome
  BY DEF HomeInv, AtHome, ConversationsAtHome
<1> QED BY <1>1, <1>2, <1>3, PTL DEF Spec

-----------------------------------------------------------------------------
(* A request about a conversation is in its scope, and the workspace of a  *)
(* conversation does not change while the server runs; no request outlives *)
(* the process.                                                            *)
RequestInv ==
  /\ ~up => \A q \in Slots : requests[q] = Idle
  /\ \A q \in Slots : requests[q] # Idle /\ requests[q].route = "messages" =>
       /\ requests[q].about \in Conversations
       /\ InScope(requests[q].key, organization.conversations[requests[q].about].ws)

(* What changes of the records while the server runs, for one workspace.   *)
SameRecords(w) ==
  /\ \A p \in Projects : organization'.projects[p] = w <=> organization.projects[p] = w
  /\ \A c \in Conversations :
       /\ organization'.conversations[c].ws = w <=> organization.conversations[c].ws = w
       /\ organization.conversations[c].ws = w => organization'.conversations[c] = organization.conversations[c]

LEMMA Unmoved ==
  ASSUME NEW w \in Workspaces, SameRecords(w), \A s \in Services : grants'[s][w] = grants[s][w]
  PROVE  Belongings(w)' = Belongings(w)
<1>1. {p \in Projects : organization'.projects[p] = w} = {p \in Projects : organization.projects[p] = w}
  BY DEF SameRecords
<1>2. {x \in Conversations : organization'.conversations[x].ws = w}
        = {x \in Conversations : organization.conversations[x].ws = w}
  BY DEF SameRecords
<1>3. {<<c, organization'.conversations[c]>> : c \in {x \in Conversations : organization'.conversations[x].ws = w}}
        = {<<c, organization.conversations[c]>> : c \in {x \in Conversations : organization.conversations[x].ws = w}}
  BY <1>2 DEF SameRecords
<1>4. [s \in Services |-> grants'[s][w]] = [s \in Services |-> grants[s][w]]
  OBVIOUS
<1> QED BY <1>1, <1>3, <1>4 DEF Belongings, Project, Conversation

LEMMA ProjectFacts ==
  ASSUME TypeOK, NEW p \in Projects, NEW ws \in Workspaces, NEW ok \in BOOLEAN, CreateProject(p, ws, ok)
  PROVE  /\ \A w \in Workspaces \ {ws} : SameRecords(w)
         /\ \A c \in Conversations : organization'.conversations[c].ws = organization.conversations[c].ws
<1>1. organization \in Organization
  BY DEF TypeOK
<1>2. /\ organization'.conversations = organization.conversations /\ organization.projects[p] = Nobody
      /\ \A x \in Projects : organization'.projects[x] = IF x = p THEN ws ELSE organization.projects[x]
  BY <1>1 DEF CreateProject, Store, Project, Organization
<1> QED BY <1>2, OrganizationAssumption DEF SameRecords

LEMMA ConversationFacts ==
  ASSUME TypeOK, NEW c \in Conversations, NEW ws \in Workspaces, NEW p \in Projects \cup {Nobody}, NEW ok \in BOOLEAN,
         CreateConversation(c, ws, p, ok)
  PROVE  /\ \A w \in Workspaces \ {ws} : SameRecords(w)
         /\ \A x \in Conversations : organization.conversations[x].ws # Nobody =>
              organization'.conversations[x].ws = organization.conversations[x].ws
<1> DEFINE conv == Opened(ws, p)
<1>1. organization \in Organization
  BY DEF TypeOK
<1>2. /\ organization'.projects = organization.projects /\ organization.conversations[c].ws = Nobody
      /\ \A x \in Conversations : organization'.conversations[x] = IF x = c THEN conv ELSE organization.conversations[x]
  BY <1>1 DEF CreateConversation, Store, Conversation, Organization
<1>3. conv.ws = ws
  BY DEF Opened
<1> HIDE DEF conv
<1> QED BY <1>2, <1>3, OrganizationAssumption DEF SameRecords

LEMMA MessageFacts ==
  ASSUME TypeOK, NEW c \in Conversations, NEW ok \in BOOLEAN, AppendMessage(c, ok)
  PROVE  /\ \A w \in Workspaces \ {organization.conversations[c].ws} : SameRecords(w)
         /\ \A x \in Conversations : organization'.conversations[x].ws = organization.conversations[x].ws
<1>1. organization \in Organization
  BY DEF TypeOK
<1>2. /\ organization'.projects = organization.projects
      /\ \A x \in Conversations : organization'.conversations[x].ws = organization.conversations[x].ws
      /\ \A x \in Conversations \ {c} : organization'.conversations[x] = organization.conversations[x]
  BY <1>1 DEF AppendMessage, Store, Organization
<1> QED BY <1>2 DEF SameRecords

(* The change a step makes while the server runs, and who answers for it.  *)
Accounted(w) ==
  \/ SameRecords(w) /\ \A s \in Services : grants'[s][w] = grants[s][w]
  \/ \E q \in Slots :
       /\ requests[q] # Idle /\ requests'[q] = Idle
       /\ \/ InScope(requests[q].key, w)
          \/ requests[q].route = "missions" /\ OneMoreMessage(DefaultConversation)
  \/ \E c \in reported : OneMoreMessage(c)

Stays ==
  \A x \in Conversations : organization.conversations[x].ws # Nobody =>
    organization'.conversations[x].ws = organization.conversations[x].ws

LEMMA Accounting ==
  ASSUME TypeOK, RequestInv, [Next]_vars, up, up'
  PROVE  Stays /\ \A w \in Workspaces : Accounted(w)
<1>1. ASSUME UNCHANGED <<organizationVars, grantVars>> PROVE Stays /\ \A w \in Workspaces : Accounted(w)
  BY <1>1 DEF organizationVars, grantVars, Stays, Accounted, SameRecords
<1>2. ASSUME NEW q \in Slots, NEW ok \in BOOLEAN, NEW route, Answer(q, route, ok)
      PROVE  requests[q] # Idle /\ requests'[q] = Idle /\ requests[q].route = route
  BY <1>2 DEF Answer, TypeOK
<1>3. ASSUME NEW q \in Slots, NEW ok \in BOOLEAN, NEW s \in Services, NEW ws \in Workspaces, NEW tools \in Definitions,
             PostGrant(q, s, ws, tools, ok)
      PROVE  Stays /\ \A w \in Workspaces : Accounted(w)
  <2>1. requests[q] # Idle /\ requests'[q] = Idle /\ InScope(requests[q].key, ws) /\ organization' = organization
    BY <1>2, <1>3 DEF PostGrant, organizationVars
  <2>2. ASSUME NEW w \in Workspaces \ {ws}, NEW t \in Services PROVE grants'[t][w] = grants[t][w]
    BY <1>3 DEF PostGrant, Grant, TypeOK
  <2> QED BY <2>1, <2>2 DEF Stays, Accounted, SameRecords
<1>4. ASSUME NEW q \in Slots, NEW ok \in BOOLEAN, NEW p \in Projects, NEW ws \in Workspaces, PostProject(q, p, ws, ok)
      PROVE  Stays /\ \A w \in Workspaces : Accounted(w)
  <2>1. requests[q] # Idle /\ requests'[q] = Idle /\ InScope(requests[q].key, ws) /\ grants' = grants
    BY <1>2, <1>4 DEF PostProject, grantVars
  <2>2. CreateProject(p, ws, ok)
    BY <1>4 DEF PostProject
  <2> QED BY <2>1, <2>2, ProjectFacts DEF Stays, Accounted
<1>5. ASSUME NEW q \in Slots, NEW ok \in BOOLEAN, NEW c \in Conversations, NEW ws \in Workspaces,
             NEW p \in Projects \cup {Nobody}, PostConversation(q, c, ws, p, ok)
      PROVE  Stays /\ \A w \in Workspaces : Accounted(w)
  <2>1. requests[q] # Idle /\ requests'[q] = Idle /\ InScope(requests[q].key, ws) /\ grants' = grants
    BY <1>2, <1>5 DEF PostConversation, grantVars
  <2>2. CreateConversation(c, ws, p, ok)
    BY <1>5 DEF PostConversation
  <2> QED BY <2>1, <2>2, ConversationFacts DEF Stays, Accounted
<1>6. ASSUME NEW q \in Slots, NEW ok \in BOOLEAN, PostMessage(q, ok)
      PROVE  Stays /\ \A w \in Workspaces : Accounted(w)
  <2> DEFINE c == requests[q].about
  <2>1. requests[q] # Idle /\ requests'[q] = Idle /\ requests[q].route = "messages" /\ grants' = grants
    BY <1>2, <1>6 DEF PostMessage, grantVars
  <2>2. c \in Conversations /\ InScope(requests[q].key, organization.conversations[c].ws) /\ AppendMessage(c, ok)
    BY <1>6, <2>1 DEF RequestInv, PostMessage
  <2> QED BY <2>1, <2>2, MessageFacts DEF Stays, Accounted
<1>7. ASSUME NEW q \in Slots, NEW ok \in BOOLEAN, NEW ws \in Workspaces, NEW c \in Conversations,
             PostMission(q, ws, c, ok)
      PROVE  Stays /\ \A w \in Workspaces : Accounted(w)
  <2>1. /\ requests[q] # Idle /\ requests'[q] = Idle /\ requests[q].route = "missions" /\ grants' = grants
        /\ InScope(requests[q].key, ws) /\ AppendMessage(c, ok)
    BY <1>2, <1>7 DEF PostMission, grantVars
  <2>2. Stays /\ \A w \in Workspaces \ {organization.conversations[c].ws} : SameRecords(w)
    BY <2>1, MessageFacts DEF Stays
  <2>3. CASE c = DefaultConversation
    <3>1. OneMoreMessage(DefaultConversation)
      BY <2>1, <2>3 DEF AppendMessage, Store, OneMoreMessage
    <3> QED BY <2>1, <2>2, <3>1 DEF Accounted
  <2>4. CASE organization.conversations[c].ws = ws
    BY <2>1, <2>2, <2>4 DEF Accounted
  <2> QED BY <1>7, <2>3, <2>4 DEF PostMission, Conversation
<1>8. ASSUME NEW c \in Conversations, NEW ok \in BOOLEAN, MissionReports(c, ok)
      PROVE  Stays /\ \A w \in Workspaces : Accounted(w)
  <2>1. c \in reported /\ OneMoreMessage(c)
    BY <1>8 DEF MissionReports, AppendMessage, Store, OneMoreMessage, grantVars
  <2>2. Stays
    BY <1>8, MessageFacts DEF MissionReports, Stays
  <2> QED BY <2>1, <2>2 DEF Accounted
<1>9. ASSUME NEW q \in Slots, NEW ok \in BOOLEAN, Post(q, ok)
      PROVE  Stays /\ \A w \in Workspaces : Accounted(w)
  BY <1>1, <1>3, <1>4, <1>5, <1>6, <1>7, <1>9 DEF Post, PostKey, PostEntry, PostHub, PostService
<1>10. CASE UNCHANGED vars
  BY <1>1, <1>10 DEF vars
<1> QED BY <1>1, <1>8, <1>9, <1>10 DEF Next, Receive, Refuse, PostAgency, PostAgencyFails, DeleteKey, Crash, Start, StartFails

LEMMA RequestsKept == TypeOK /\ RequestInv /\ [Next]_vars => RequestInv'
<1> SUFFICES ASSUME TypeOK, RequestInv, [Next]_vars PROVE RequestInv'
  OBVIOUS
<1>1. ServerStep /\ requests \in [Slots -> Request \cup {Idle}] /\ organization \in Organization
  BY Served DEF TypeOK
<1>2. CASE up /\ up'
  <2>1. ASSUME NEW q \in Slots, requests'[q] # Idle, requests'[q].route = "messages"
        PROVE  /\ requests'[q].about \in Conversations
               /\ InScope(requests'[q].key, organization.conversations[requests'[q].about].ws)
    <3>1. CASE requests'[q] = requests[q]
      BY <2>1, <3>1 DEF RequestInv
    <3>2. ASSUME NEW r \in Slots, NEW k \in KeyIds, NEW route \in Routes, NEW about \in Conversations \cup {Nobody},
                 Receive(r, k, route, about)
          PROVE  \/ requests'[q] = requests[q]
                 \/ /\ requests'[q] = Awaited(k, route, about)
                    /\ route = "messages" => about \in Conversations /\ InScope(k, organization.conversations[about].ws)
      BY <1>1, <3>2 DEF Receive, Conversation
    <3>3. ASSUME NEW r \in Slots, requests' = [requests EXCEPT ![r] = Idle] PROVE requests'[q] = requests[q]
      BY <1>1, <2>1, <3>3
    <3>4. ASSUME NEW r \in Slots, NEW k \in KeyIds, NEW route \in Routes, NEW about \in Conversations \cup {Nobody},
                 Receive(r, k, route, about), requests'[q] = Awaited(k, route, about)
          PROVE  /\ requests'[q].about \in Conversations
                 /\ InScope(requests'[q].key, organization.conversations[requests'[q].about].ws)
      <4>1. requests'[q].route = route /\ requests'[q].about = about /\ requests'[q].key = k
        BY <3>4 DEF Awaited
      <4>2. route = "messages"
        BY <2>1, <4>1
      <4>3. about \in Conversations /\ InScope(k, organization.conversations[about].ws)
        BY <3>4, <4>2 DEF Receive, Conversation
      <4> QED BY <4>1, <4>3
    <3>5. CASE \E r \in Slots, k \in KeyIds, route \in Routes, about \in Conversations \cup {Nobody} :
                 Receive(r, k, route, about)
      BY <3>1, <3>2, <3>4, <3>5
    <3>6. CASE requests' = requests \/ \E r \in Slots : requests' = [requests EXCEPT ![r] = Idle]
      BY <3>1, <3>3, <3>6
    <3> QED BY <1>2, <1>1, <3>5, <3>6 DEF ServerStep, serverVars
  <2>2. ASSUME NEW q \in Slots, NEW c \in Conversations, InScope(requests'[q].key, organization.conversations[c].ws),
               requests'[q] \in Request
        PROVE  InScope(requests'[q].key, organization'.conversations[c].ws)
    <3>1. organization.conversations[c].ws \in Workspaces
      BY <2>2, AuthAssumption DEF InScope, Request
    <3>2. organization'.conversations[c].ws = organization.conversations[c].ws
      BY <1>2, <3>1, Accounting, OrganizationAssumption DEF Stays
    <3> QED BY <2>2, <3>2
  <2>3. requests' \in [Slots -> Request \cup {Idle}]
    BY <1>1, ServerType
  <2> QED BY <1>2, <2>1, <2>2, <2>3 DEF RequestInv
<1>3. CASE ~(up /\ up')
  <2>1. \A q \in Slots : requests'[q] = Idle
    <3>1. CASE ~up
      BY <1>1, <3>1 DEF RequestInv, ServerStep, serverVars, Receive
    <3>2. CASE up /\ ~up'
      BY <1>1, <3>2 DEF ServerStep, serverVars, Receive
    <3> QED BY <1>3, <3>1, <3>2
  <2> QED BY <2>1 DEF RequestInv
<1> QED BY <1>2, <1>3

(* What belongs to a workspace changes only at the end of a request in     *)
(* whose scope it is, but for the messages of missions.                    *)
THEOREM ChangesInScope == Spec => ScopedChanges
<1>1. Init => TypeOK /\ RequestInv
  BY InitType DEF Init, RequestInv
<1>2. TypeOK /\ RequestInv /\ [Next]_vars => (TypeOK /\ RequestInv)'
  <2> SUFFICES ASSUME TypeOK, RequestInv, [Next]_vars PROVE TypeOK' /\ RequestInv'
    OBVIOUS
  <2> QED BY NextType, RequestsKept
<1>3. TypeOK /\ RequestInv /\ [Next]_vars =>
        [up /\ up' => \A ws \in Workspaces :
           Belongings(ws)' # Belongings(ws) =>
             \/ \E q \in Slots :
                  /\ requests[q] # Idle /\ requests'[q] = Idle
                  /\ \/ InScope(requests[q].key, ws)
                     \/ requests[q].route = "missions" /\ OneMoreMessage(DefaultConversation)
             \/ \E c \in reported : OneMoreMessage(c)]_vars
  <2> SUFFICES ASSUME TypeOK, RequestInv, [Next]_vars, up, up', NEW ws \in Workspaces, Belongings(ws)' # Belongings(ws)
               PROVE  \/ \E q \in Slots :
                           /\ requests[q] # Idle /\ requests'[q] = Idle
                           /\ \/ InScope(requests[q].key, ws)
                              \/ requests[q].route = "missions" /\ OneMoreMessage(DefaultConversation)
                      \/ \E c \in reported : OneMoreMessage(c)
    OBVIOUS
  <2> QED BY Accounting, Unmoved DEF Accounted
<1> QED BY <1>1, <1>2, <1>3, PTL DEF Spec, ScopedChanges
=============================================================================
