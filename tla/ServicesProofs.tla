---------------------------- MODULE ServicesProofs ----------------------------
(* Proofs about four services around the reconciler: the Jobs that build      *)
(* launcher disks, the calls to the node agents, the identity of a Sandbox    *)
(* and the namespaces of the frontend.  They have no state in common.         *)
EXTENDS LauncherDisk, TLAPS

-------------------------------------------------------------------------------
(* What PairNamespace promises of Sandboxes and their namespaces, for any     *)
(* number of clients, tenants, callers, replicas, faults and deletions.       *)
CONSTANTS Replicas, Users, Tenants, Clients, Grants, Cases
VARIABLES case, enrollment, namespaces, readyNs, users, touched
PN == INSTANCE PairNamespace

CaseFields == {"entries", "requests", "foreign", "kept", "faults", "deletes", "restarts",
               "deleted"}

(* The enrolled clients are clients. *)
CasesAreCases ==
  \A c \in Cases : /\ DOMAIN c = CaseFields
                   /\ \A i \in DOMAIN c.entries : c.entries[i].name \in Clients

(* None is no namespace. *)
NsFields == {"labels", "deleting", "grants", "sandboxes"}
NoneIsNoNamespace == DOMAIN None # NsFields

UserFields == {"pc", "at", "pair", "ns", "ensured"}
Outside == {"call", "served", "refused"}
Before == {"call", "cache", "get", "create", "again", "check"}

(* The Sandbox s was launched by the client and for the tenant of p. *)
Of(s, p) ==
  /\ s.labels = p /\ s.tenant = p.tenant
  /\ s.id \in DOMAIN enrollment /\ enrollment[s.id] = p.client

(* The namespace of p, where no administrator deleted it, is the one of the   *)
(* pair and has every RoleBinding.                                            *)
PairReady(p) ==
  \/ PN!Deleted(p)
  \/ namespaces[p] # None /\ namespaces[p].labels = p /\ namespaces[p].grants = Grants

PairGood(p) ==
  namespaces[p] # None =>
    /\ DOMAIN namespaces[p] = NsFields
    /\ namespaces[p].grants \subseteq Grants
    /\ namespaces[p].deleting => PN!Deleted(p)
    /\ \A s \in namespaces[p].sandboxes : Of(s, p)
    /\ namespaces[p].sandboxes = {} \/ PairReady(p)

(* What a call in the state r has established. *)
UserSane(u, r) ==
  /\ DOMAIN r = UserFields
  /\ r.pc \in Outside \cup Before \cup {"grant", "work"}
  /\ r.pc \in Before => r.ensured = {}
  /\ r.pc \notin Outside =>
       /\ r.pair \in PN!Pairs /\ r.at \in Replicas /\ enrollment # None
       /\ PN!Request(u).id \in DOMAIN enrollment
       /\ r.pair = PN!NewPair(enrollment[PN!Request(u).id], PN!Request(u).tenant)
  /\ r.pc = "check" =>
       \/ PN!Deleted(r.pair)
       \/ namespaces[r.pair] # None /\ namespaces[r.pair].labels = r.ns.labels
  /\ r.pc = "grant" =>
       \/ PN!Deleted(r.pair)
       \/ /\ namespaces[r.pair] # None /\ namespaces[r.pair].labels = r.pair
          /\ r.ensured \subseteq namespaces[r.pair].grants
  /\ r.pc = "work" => PairReady(r.pair)

PairInv ==
  /\ DOMAIN case = CaseFields
  /\ enrollment # None =>
       /\ \A i \in DOMAIN enrollment : enrollment[i] \in Clients
       /\ \A i, j \in DOMAIN enrollment : enrollment[i] = enrollment[j] => i = j
  /\ DOMAIN namespaces = PN!Pairs /\ \A p \in PN!Pairs : PairGood(p)
  /\ DOMAIN readyNs = Replicas
  /\ \A r \in Replicas : readyNs[r] \subseteq PN!Pairs /\ \A p \in readyNs[r] : PairReady(p)
  /\ DOMAIN users = Users /\ \A u \in Users : UserSane(u, users[u])
  /\ PN!OwnerOnly

(* No two clients have one SPIFFE ID and no SPIFFE ID two clients. *)
LEMMA PairInjective ==
  ASSUME NEW entries, PN!ParseEnrollment(entries)
  PROVE  \A i, j \in DOMAIN PN!byID(entries) : PN!byID(entries)[i] = PN!byID(entries)[j] => i = j
  <1> DEFINE E == {entries[k] : k \in DOMAIN entries}
  <1> SUFFICES ASSUME NEW i \in DOMAIN PN!byID(entries), NEW j \in DOMAIN PN!byID(entries),
                      PN!byID(entries)[i] = PN!byID(entries)[j]
               PROVE  i = j
    BY Zenon
  <1>1. ASSUME NEW x \in DOMAIN PN!byID(entries)
        PROVE  \E k \in DOMAIN entries : entries[k].id = x /\ entries[k].name = PN!byID(entries)[x]
    <2>1. \E e \in E : e.id = x
      BY <1>1, Zenon DEF PN!byID
    <2> DEFINE e == CHOOSE e \in E : e.id = x
    <2>2. e \in E /\ e.id = x
      BY <2>1, Zenon
    <2>3. PN!byID(entries)[x] = e.name
      BY <1>1, Zenon DEF PN!byID
    <2> QED BY <2>2, <2>3, Zenon
  <1>2. PICK k \in DOMAIN entries : entries[k].id = i /\ entries[k].name = PN!byID(entries)[i]
    BY <1>1, Zenon
  <1>3. PICK m \in DOMAIN entries : entries[m].id = j /\ entries[m].name = PN!byID(entries)[j]
    BY <1>1, Zenon
  <1> QED BY <1>2, <1>3, Zenon DEF PN!ParseEnrollment

(* Nothing is launched at first. *)
LEMMA PairInit ==
  ASSUME CasesAreCases, PN!pnInit
  PROVE  PairInv
  <1>1. DOMAIN case = CaseFields
    BY Zenon DEF PN!pnInit, CasesAreCases
  <1>2. ASSUME enrollment # None
        PROVE  /\ \A i \in DOMAIN enrollment : enrollment[i] \in Clients
               /\ \A i, j \in DOMAIN enrollment : enrollment[i] = enrollment[j] => i = j
    <2>1. PN!ParseEnrollment(case.entries) /\ enrollment = PN!byID(case.entries)
      BY <1>2, Zenon DEF PN!pnInit
    <2>2. \A i, j \in DOMAIN enrollment : enrollment[i] = enrollment[j] => i = j
      BY <2>1, PairInjective, Zenon
    <2>3. ASSUME NEW x \in DOMAIN enrollment PROVE enrollment[x] \in Clients
      <3> DEFINE E == {case.entries[k] : k \in DOMAIN case.entries}
                 e == CHOOSE e \in E : e.id = x
      <3>1. \E f \in E : f.id = x
        BY <2>1, <2>3, Zenon DEF PN!byID
      <3>2. e \in E
        BY <3>1, Zenon
      <3>3. enrollment[x] = e.name
        BY <2>1, <2>3, Zenon DEF PN!byID
      <3> QED BY <3>2, <3>3, Zenon DEF PN!pnInit, CasesAreCases
    <2> QED BY <2>2, <2>3, Zenon
  <1>3. DOMAIN namespaces = PN!Pairs /\ \A p \in PN!Pairs : PairGood(p)
    BY Zenon DEF PN!pnInit, PairGood
  <1>4. DOMAIN readyNs = Replicas /\ \A r \in Replicas : readyNs[r] = {}
    BY Zenon DEF PN!pnInit
  <1>5. DOMAIN users = Users /\ \A u \in Users : UserSane(u, users[u])
    BY Zenon DEF PN!pnInit, UserSane, UserFields, Outside, Before
  <1>6. touched = {}
    BY Zenon DEF PN!pnInit
  <1> QED BY <1>1, <1>2, <1>3, <1>4, <1>5, <1>6, Zenon DEF PairInv, PN!OwnerOnly

(* A step that takes nothing from a namespace that no administrator deleted. *)
PairGrows ==
  /\ enrollment' = enrollment
  /\ DOMAIN case' = CaseFields /\ case'.requests = case.requests
  /\ case.deleted \subseteq case'.deleted
  /\ DOMAIN namespaces' = PN!Pairs /\ \A p \in PN!Pairs : PairGood(p)'
  /\ \A p \in PN!Pairs : namespaces[p] # None /\ p \notin case'.deleted =>
       /\ namespaces'[p] # None /\ namespaces'[p].labels = namespaces[p].labels
       /\ namespaces[p].grants \subseteq namespaces'[p].grants

(* A namespace that is ready stays so, *)
LEMMA PairReadyKept ==
  ASSUME PairInv, PairGrows, NEW p \in PN!Pairs, PairReady(p)
  PROVE  PairReady(p)'
  <1>1. CASE p \in case'.deleted
    BY <1>1, Zenon DEF PairReady, PN!Deleted
  <1>2. CASE p \notin case'.deleted
    <2>1. /\ namespaces[p] # None /\ namespaces[p].labels = p
          /\ namespaces[p].grants = Grants
      BY <1>2, Zenon DEF PairReady, PN!Deleted, PairGrows
    <2>2. /\ namespaces'[p] # None /\ namespaces'[p].labels = p
          /\ Grants \subseteq namespaces'[p].grants
      BY <1>2, <2>1, Zenon DEF PairGrows
    <2>3. namespaces'[p].grants \subseteq Grants
      BY <2>2, Zenon DEF PairGrows, PairGood
    <2> QED BY <2>2, <2>3, Zenon DEF PairReady
  <1> QED BY <1>1, <1>2, Zenon

(* and so does what a call established. *)
LEMMA UserSaneKept ==
  ASSUME PairInv, PairGrows, NEW u \in Users, NEW r, UserSane(u, r)
  PROVE  UserSane(u, r)'
  <1>1. PN!Request(u)' = PN!Request(u)
    BY Zenon DEF PairGrows, PN!Request
  <1>2. ASSUME r.pc \notin Outside
        PROVE  /\ r.pair \in PN!Pairs /\ r.at \in Replicas
               /\ enrollment' # None /\ PN!Request(u)'.id \in DOMAIN enrollment'
               /\ r.pair = PN!NewPair(enrollment'[PN!Request(u)'.id], PN!Request(u)'.tenant)
    BY <1>1, <1>2, Zenon DEF UserSane, PairGrows
  <1>3. ASSUME r.pc = "check"
        PROVE  \/ PN!Deleted(r.pair)'
               \/ namespaces'[r.pair] # None /\ namespaces'[r.pair].labels = r.ns.labels
    BY <1>2, <1>3 DEF UserSane, PairGrows, PN!Deleted, Outside
  <1>4. ASSUME r.pc = "grant"
        PROVE  \/ PN!Deleted(r.pair)'
               \/ /\ namespaces'[r.pair] # None /\ namespaces'[r.pair].labels = r.pair
                  /\ r.ensured \subseteq namespaces'[r.pair].grants
    BY <1>2, <1>4, Zenon DEF UserSane, PairGrows, PN!Deleted, Outside
  <1>5. ASSUME r.pc = "work" PROVE PairReady(r.pair)'
    BY <1>2, <1>5, PairReadyKept, Zenon DEF UserSane, Outside
  <1>6. /\ DOMAIN r = UserFields
        /\ r.pc \in Outside \cup Before \cup {"grant", "work"}
        /\ r.pc \in Before => r.ensured = {}
    BY Zenon DEF UserSane
  <1> QED BY <1>2, <1>3, <1>4, <1>5, <1>6, Zenon DEF UserSane

(* A step of the call of u. *)
LEMMA PairCalls ==
  ASSUME PairInv, PairGrows, NEW u \in Users, NEW r, users' = [users EXCEPT ![u] = r],
         UserSane(u, r) \/ UserSane(u, r)',
         readyNs' = readyNs, touched' = touched \/ PN!OwnerOnly'
  PROVE  PairInv'
  <1>1. ASSUME NEW v \in Users PROVE UserSane(v, users[v])'
    <2>1. CASE v = u
      <3>1. users'[v] = r
        BY <2>1, Zenon DEF PairInv
      <3>2. UserSane(u, r)'
        BY UserSaneKept, Zenon
      <3> QED BY <2>1, <3>1, <3>2, Zenon DEF UserSane
    <2>2. CASE v # u
      <3>1. users'[v] = users[v]
        BY <2>2, Zenon DEF PairInv
      <3>2. UserSane(v, users[v])
        BY Zenon DEF PairInv
      <3>3. ASSUME NEW q, q = users[v] PROVE UserSane(v, q)'
        BY <3>2, <3>3, UserSaneKept, Zenon
      <3> QED BY <3>1, <3>3, Zenon DEF UserSane
    <2> QED BY <2>1, <2>2, Zenon
  <1>2. \A q \in Replicas : readyNs'[q] \subseteq PN!Pairs /\ \A p \in readyNs'[q] : PairReady(p)'
    BY PairReadyKept, Zenon DEF PairInv
  <1>3. DOMAIN users' = Users
    BY Zenon DEF PairInv
  <1>4. PN!OwnerOnly'
    BY Zenon DEF PairInv, PN!OwnerOnly
  <1> QED BY <1>1, <1>2, <1>3, <1>4, Zenon DEF PairInv, PairGrows

(* A step of which nothing but the calls, and what is ready, knows. *)
LEMMA PairStillGrows ==
  ASSUME PairInv, UNCHANGED <<enrollment, namespaces>>,
         case' = case \/ \E n : case' = [case EXCEPT !.faults = n]
                      \/ \E r : case' = [case EXCEPT !.restarts = r]
  PROVE  PairGrows
  <1>1. /\ DOMAIN case' = CaseFields /\ case'.requests = case.requests
        /\ case'.deleted = case.deleted
    BY Zenon DEF PairInv, CaseFields
  <1>2. \A p \in PN!Pairs : PairGood(p)'
    BY <1>1 DEF PairInv, PairGood, PairReady, Of, PN!Deleted
  <1> QED BY <1>1, <1>2, Zenon DEF PairGrows, PairInv

PairOut(l) == [pc |-> l, at |-> None, pair |-> None, ns |-> None, ensured |-> {}]

(* The end of a call. *)
LEMMA PairOutSane == \A u, l : l \in Outside => UserSane(u, PairOut(l))
  BY ZenonT(30) DEF PairOut, UserSane, Outside, Before, UserFields

(* An error of the API server. *)
LEMMA PairFaults ==
  ASSUME PairInv, NEW u \in Users, PN!Fault(u)
  PROVE  PairInv'
  <1>1. PairGrows
    BY PairStillGrows, Zenon DEF PN!Fault
  <1>2. UserSane(u, PairOut("call"))
    BY PairOutSane, Zenon DEF Outside
  <1> QED BY <1>1, <1>2, PairCalls, Zenon DEF PN!Fault, PN!Ends, PairOut

(* The end of a call that changes nothing else. *)
LEMMA PairEnds ==
  ASSUME PairInv, NEW u \in Users, NEW l \in Outside, PN!Ends(u, l),
         UNCHANGED <<case, enrollment, namespaces, readyNs, touched>>
  PROVE  PairInv'
  <1>1. PairGrows
    BY PairStillGrows, Zenon
  <1>2. UserSane(u, PairOut(l))
    BY PairOutSane, Zenon
  <1> QED BY <1>1, <1>2, PairCalls, Zenon DEF PN!Ends, PairOut

(* The step of a call to its next point that changes nothing else. *)
LEMMA PairMoves ==
  ASSUME PairInv, NEW u \in Users, NEW r, UserSane(u, r), users' = [users EXCEPT ![u] = r],
         UNCHANGED <<case, enrollment, namespaces, readyNs, touched>>
  PROVE  PairInv'
  <1>1. PairGrows
    BY PairStillGrows, Zenon
  <1> QED BY <1>1, PairCalls, Zenon

(* The steps of a call that write no namespace. *)
LEMMA PairReads ==
  ASSUME PairInv, NEW u \in Users,
         \/ PN!resolveCallerNamespace(u) \/ PN!cacheHit(u) \/ PN!getNamespace(u) \/ PN!getAgain(u)
         \/ PN!checkNamespace(u) \/ PN!markReady(u) \/ PN!Use(u)
  PROVE  PairInv'
  <1>0. UserSane(u, users[u])
    BY Zenon DEF PairInv
  <1>1. CASE PN!resolveCallerNamespace(u)
    <2> DEFINE known == ~(PN!Request(u).id \notin DOMAIN enrollment \/ PN!Request(u).tenant \notin Tenants)
    <2>1. CASE ~known
      BY <1>1, <2>1, PairEnds, Zenon DEF PN!resolveCallerNamespace, Outside
    <2>2. CASE known
      <3>1. PICK r \in Replicas :
              users' = [users EXCEPT ![u].pc = "cache", ![u].at = r,
                          ![u].pair = PN!NewPair(enrollment[PN!Request(u).id], PN!Request(u).tenant)]
        BY <1>1, <2>2, Zenon DEF PN!resolveCallerNamespace
      <3> DEFINE new == [users[u] EXCEPT !.pc = "cache", !.at = r,
                           !.pair = PN!NewPair(enrollment[PN!Request(u).id], PN!Request(u).tenant)]
      <3>2. users' = [users EXCEPT ![u] = new]
        BY <3>1, Zenon DEF PairInv
      <3>3. enrollment[PN!Request(u).id] \in Clients
        BY <1>1, <2>2, Zenon DEF PN!resolveCallerNamespace, PairInv
      <3>4. PN!NewPair(enrollment[PN!Request(u).id], PN!Request(u).tenant) \in PN!Pairs
        BY <2>2, <3>3, Zenon DEF PN!Pairs, PN!NewPair
      <3>5. UserSane(u, new)
        BY <1>0, <1>1, <2>2, <3>4, Zenon
        DEF PN!resolveCallerNamespace, PN!At, UserSane, UserFields, Outside, Before
      <3> HIDE DEF new
      <3> QED BY <1>1, <3>2, <3>5, PairMoves, Zenon DEF PN!resolveCallerNamespace
    <2> QED BY <2>1, <2>2, Zenon
  <1>2. CASE PN!cacheHit(u)
    <2> DEFINE new == [users[u] EXCEPT
                         !.pc = IF PN!Pair(u) \in readyNs[users[u].at] THEN "work" ELSE "get"]
    <2>1. users' = [users EXCEPT ![u] = new]
      BY <1>2, Zenon DEF PN!cacheHit, PN!Goto
    <2>2. UserSane(u, new)
      BY <1>0, <1>2, Zenon
      DEF PN!cacheHit, PN!At, PN!Pair, PairInv, UserSane, UserFields, Outside, Before
    <2> HIDE DEF new
    <2> QED BY <1>2, <2>1, <2>2, PairMoves, Zenon DEF PN!cacheHit
  <1>3. ASSUME PN!Read(u), PN!Namespace(u) # None, users[u].pc \in {"get", "again"},
               UNCHANGED <<case, enrollment, namespaces, readyNs, touched>>
        PROVE  PairInv'
    <2> DEFINE new == [users[u] EXCEPT !.pc = "check", !.ns = PN!Namespace(u)]
    <2>1. users' = [users EXCEPT ![u] = new]
      BY <1>3, Zenon DEF PN!Read, PairInv
    <2>2. UserSane(u, new)
      BY <1>0, <1>3, Zenon DEF PN!Pair, PN!Namespace, UserSane, UserFields, Outside, Before
    <2> HIDE DEF new
    <2> QED BY <1>3, <2>1, <2>2, PairMoves, Zenon
  <1>4. CASE PN!getNamespace(u)
    <2>1. CASE PN!Fault(u)
      BY <2>1, PairFaults, Zenon
    <2>2. CASE ~PN!Fault(u) /\ PN!Namespace(u) = None
      <3> DEFINE new == [users[u] EXCEPT !.pc = "create"]
      <3>1. users' = [users EXCEPT ![u] = new]
        BY <1>4, <2>2, Zenon DEF PN!getNamespace, PN!Goto
      <3>2. UserSane(u, new)
        BY <1>0, <1>4, Zenon DEF PN!getNamespace, PN!At, UserSane, UserFields, Outside, Before
      <3> HIDE DEF new
      <3> QED BY <1>4, <2>2, <3>1, <3>2, PairMoves, Zenon DEF PN!getNamespace
    <2>3. CASE ~PN!Fault(u) /\ PN!Namespace(u) # None
      BY <1>3, <1>4, <2>3, Zenon DEF PN!getNamespace, PN!At
    <2> QED BY <2>1, <2>2, <2>3, Zenon
  <1>5. CASE PN!getAgain(u)
    <2>1. CASE PN!Fault(u)
      BY <2>1, PairFaults, Zenon
    <2>2. CASE ~PN!Fault(u) /\ PN!Namespace(u) = None
      BY <1>5, <2>2, PairEnds, Zenon DEF PN!getAgain, Outside
    <2>3. CASE ~PN!Fault(u) /\ PN!Namespace(u) # None
      BY <1>3, <1>5, <2>3, Zenon DEF PN!getAgain, PN!At
    <2> QED BY <2>1, <2>2, <2>3, Zenon
  <1>6. CASE PN!checkNamespace(u)
    <2>1. CASE PN!Ends(u, "refused") \/ PN!Ends(u, "call")
      BY <1>6, <2>1, PairEnds, Zenon DEF PN!checkNamespace, Outside
    <2>2. CASE PN!Goto(u, "grant") /\ PN!IsOwnerOf(PN!Pair(u), users[u].ns.labels)
      <3> DEFINE new == [users[u] EXCEPT !.pc = "grant"]
      <3>1. users' = [users EXCEPT ![u] = new]
        BY <2>2, Zenon DEF PN!Goto
      <3>2. UserSane(u, new)
        BY <1>0, <1>6, <2>2, Zenon
        DEF PN!checkNamespace, PN!At, PN!Pair, PN!IsOwnerOf, UserSane, UserFields, Outside,
            Before
      <3> HIDE DEF new
      <3> QED BY <1>6, <3>1, <3>2, PairMoves, Zenon DEF PN!checkNamespace
    <2> QED BY <1>6, <2>1, <2>2, Zenon DEF PN!checkNamespace
  <1>7. CASE PN!markReady(u)
    <2> DEFINE new == [users[u] EXCEPT !.pc = "work"]
    <2>1. users' = [users EXCEPT ![u] = new]
      BY <1>7, Zenon DEF PN!markReady, PN!Goto
    <2>2. PN!Pair(u) \in PN!Pairs /\ users[u].at \in Replicas
      BY <1>0, <1>7, Zenon DEF PN!markReady, PN!At, PN!Pair, UserSane, Outside
    <2>3. PairReady(PN!Pair(u))
      <3>1. Grants \subseteq users[u].ensured
        BY <1>7, Zenon DEF PN!markReady, PN!Missing
      <3>2. namespaces[PN!Pair(u)] # None => namespaces[PN!Pair(u)].grants \subseteq Grants
        BY <2>2, Zenon DEF PairInv, PairGood
      <3> QED BY <1>0, <1>7, <3>1, <3>2, Zenon
          DEF PN!markReady, PN!At, PN!Pair, UserSane, PairReady
    <2>4. UserSane(u, new)
      BY <1>0, <1>7, <2>3, Zenon
      DEF PN!markReady, PN!At, PN!Pair, UserSane, UserFields, Outside, Before
    <2>5. PairGrows
      BY <1>7, PairStillGrows, Zenon DEF PN!markReady
    <2> HIDE DEF new
    <2>6. ASSUME NEW v \in Users PROVE UserSane(v, users[v])'
      <3>1. UserSane(v, users'[v])
        BY <2>1, <2>4, Zenon DEF PairInv
      <3>2. ASSUME NEW q, q = users'[v] PROVE UserSane(v, q)'
        BY <2>5, <3>1, <3>2, UserSaneKept, Zenon
      <3> QED BY <3>2, Zenon DEF UserSane
    <2>7. ASSUME NEW q \in Replicas
          PROVE  readyNs'[q] \subseteq PN!Pairs /\ \A p \in readyNs'[q] : PairReady(p)'
      <3>1. readyNs'[q] \subseteq readyNs[q] \cup {PN!Pair(u)}
        BY <1>7, Zenon DEF PN!markReady, PairInv
      <3>2. \A p \in readyNs[q] \cup {PN!Pair(u)} : p \in PN!Pairs /\ PairReady(p)
        BY <2>2, <2>3, Zenon DEF PairInv
      <3> QED BY <2>5, <3>1, <3>2, PairReadyKept, Zenon
    <2>8. DOMAIN users' = Users /\ DOMAIN readyNs' = Replicas /\ touched' = touched
      BY <1>7, <2>1, Zenon DEF PN!markReady, PairInv
    <2> QED BY <2>5, <2>6, <2>7, <2>8, Zenon DEF PairInv, PairGrows, PN!OwnerOnly
  <1>8. CASE PN!Use(u)
    <2>1. CASE ~PN!checkTenantNamespace(u)
      BY <1>8, <2>1, PairEnds, Zenon DEF PN!Use, Outside
    <2>2. CASE PN!checkTenantNamespace(u)
      <3>1. PairGrows
        BY <1>8, PairStillGrows, Zenon DEF PN!Use
      <3>2. /\ PN!Pair(u) \in PN!Pairs /\ PN!Request(u).id \in DOMAIN enrollment
            /\ PN!Pair(u) = PN!NewPair(enrollment[PN!Request(u).id], PN!Request(u).tenant)
            /\ enrollment # None
        BY <1>0, <1>8, Zenon DEF PN!Use, PN!At, PN!Pair, UserSane, Outside
      <3>3. ASSUME NEW t \in touched' PROVE t[1].id = t[2].id /\ t[1].tenant = t[2].tenant
        <4>1. CASE t \in touched
          BY <4>1, Zenon DEF PairInv, PN!OwnerOnly
        <4>2. CASE t \notin touched
          <5>1. PICK s \in namespaces[PN!Pair(u)].sandboxes :
                  t = <<PN!Request(u), s>> /\ namespaces[PN!Pair(u)] # None
            BY <1>8, <2>2, <3>3, <4>2, Zenon DEF PN!Use, PN!checkTenantNamespace
          <5>2. Of(s, PN!Pair(u))
            BY <3>2, <5>1, Zenon DEF PairInv, PairGood
          <5>3. PN!Pair(u).client = enrollment[PN!Request(u).id] /\ PN!Pair(u).tenant = PN!Request(u).tenant
            <6>1. PICK c, tn : c = enrollment[PN!Request(u).id] /\ tn = PN!Request(u).tenant
              BY Zenon
            <6>2. PN!Pair(u) = [client |-> c, tenant |-> tn]
              BY <3>2, <6>1, Zenon DEF PN!NewPair
            <6>3. PN!Pair(u).client = c /\ PN!Pair(u).tenant = tn
              BY <6>2
            <6> QED BY <6>1, <6>3, Zenon
          <5>4. enrollment[s.id] = enrollment[PN!Request(u).id] /\ s.tenant = PN!Request(u).tenant
            BY <5>2, <5>3, Zenon DEF Of
          <5>5. s.id = PN!Request(u).id
            BY <3>2, <5>2, <5>4, Zenon DEF Of, PairInv
          <5> QED BY <5>1, <5>4, <5>5, Zenon
        <4> QED BY <4>1, <4>2, Zenon
      <3>4. PN!OwnerOnly'
        BY <3>3, Zenon DEF PN!OwnerOnly
      <3>5. UserSane(u, PairOut("served"))
        BY PairOutSane, Zenon DEF Outside
      <3> QED BY <1>8, <2>2, <3>1, <3>4, <3>5, PairCalls, Zenon DEF PN!Use, PN!Ends, PairOut
    <2> QED BY <2>1, <2>2, Zenon
  <1> QED BY <1>1, <1>2, <1>4, <1>5, <1>6, <1>7, <1>8, Zenon

(* A step that writes the namespace of one pair. *)
LEMMA PairWriteGrows ==
  ASSUME PairInv, NEW p \in PN!Pairs, NEW n, namespaces' = [namespaces EXCEPT ![p] = n],
         enrollment' = enrollment, DOMAIN case' = CaseFields,
         case'.requests = case.requests, case.deleted \subseteq case'.deleted,
         PairGood(p)',
         namespaces[p] # None /\ p \notin case'.deleted =>
           /\ n # None /\ n.labels = namespaces[p].labels
           /\ namespaces[p].grants \subseteq n.grants
  PROVE  PairGrows
  <1>1. ASSUME NEW q \in PN!Pairs PROVE PairGood(q)'
    <2>1. CASE q = p
      BY <2>1, Zenon
    <2>2. CASE q # p
      <3>1. namespaces'[q] = namespaces[q] /\ PairGood(q)
        BY <2>2, Zenon DEF PairInv
      <3> QED BY <3>1, Zenon DEF PairGood, PairReady, Of, PN!Deleted
    <2> QED BY <2>1, <2>2, Zenon
  <1>2. namespaces'[p] = n /\ \A q \in PN!Pairs \ {p} : namespaces'[q] = namespaces[q]
    BY Zenon DEF PairInv
  <1> QED BY <1>1, <1>2, Zenon DEF PairGrows, PairInv

(* The steps of a call that write its namespace. *)
LEMMA PairWrites ==
  ASSUME NoneIsNoNamespace, PairInv, NEW u \in Users, PN!createNamespace(u) \/ PN!ensureGrant(u) \/ PN!Launch(u)
  PROVE  PairInv'
  <1>0. UserSane(u, users[u])
    BY Zenon DEF PairInv
  <1>1. PN!Pair(u) \in PN!Pairs
    BY <1>0, Zenon
    DEF PN!createNamespace, PN!ensureGrant, PN!Launch, PN!At, PN!Pair, UserSane, Outside
  <1> PICK p \in PN!Pairs : p = PN!Pair(u)
    BY <1>1, Zenon
  <1>2. DOMAIN case = CaseFields
    BY Zenon DEF PairInv
  <1>3. CASE PN!createNamespace(u)
    <2>1. CASE PN!Fault(u)
      BY <2>1, PairFaults, Zenon
    <2>2. CASE ~PN!Fault(u) /\ PN!Namespace(u) # None
      <3> DEFINE new == [users[u] EXCEPT !.pc = "again"]
      <3>1. users' = [users EXCEPT ![u] = new]
        BY <1>3, <2>2, Zenon DEF PN!createNamespace, PN!Goto
      <3>2. UserSane(u, new)
        BY <1>0, <1>3, Zenon
        DEF PN!createNamespace, PN!At, UserSane, UserFields, Outside, Before
      <3> HIDE DEF new
      <3> QED BY <1>3, <2>2, <3>1, <3>2, PairMoves, Zenon DEF PN!createNamespace
    <2>3. CASE ~PN!Fault(u) /\ PN!Namespace(u) = None
      <3>1. /\ namespaces' = [namespaces EXCEPT ![p] = PN!Owned(p)]
            /\ UNCHANGED <<case, enrollment, readyNs, touched>>
            /\ namespaces[p] = None
        BY <1>3, <2>3, Zenon DEF PN!createNamespace, PN!Namespace
      <3>2. namespaces'[p] = PN!Owned(p)
        BY <3>1, Zenon DEF PairInv
      <3>3. PairGood(p)'
        <4>1. /\ DOMAIN PN!Owned(p) = NsFields /\ PN!Owned(p).grants = {}
              /\ PN!Owned(p).sandboxes = {} /\ ~PN!Owned(p).deleting
          BY Zenon DEF PN!Owned, NsFields
        <4> QED BY <3>2, <4>1, Zenon DEF PairGood
      <3>4. PairGrows
        BY <1>2, <3>1, <3>3, PairWriteGrows, Zenon
      <3>5. PICK new : new = [users[u] EXCEPT !.pc = "check", !.ns = PN!Owned(p)]
        BY Zenon
      <3>6. users' = [users EXCEPT ![u] = new]
        BY <1>3, <2>3, <3>2, <3>5, Zenon DEF PN!createNamespace, PairInv
      <3>7. UserSane(u, new)'
        <4>1. new.pc = "check" /\ new.ns = PN!Owned(p) /\ DOMAIN new = UserFields
          BY <1>0, <3>5, Zenon DEF UserSane, UserFields
        <4>2. new.pair = p /\ new.at = users[u].at /\ new.ensured = users[u].ensured
          BY <1>0, <3>5, Zenon DEF UserSane, UserFields, PN!Pair
        <4>3. users[u].pc = "create"
          BY <1>3, Zenon DEF PN!createNamespace, PN!At
        <4>4. PN!Request(u)' = PN!Request(u) /\ enrollment' = enrollment
          BY <3>1, Zenon DEF PN!Request
        <4>5. /\ users[u].ensured = {} /\ users[u].at \in Replicas /\ enrollment # None
              /\ PN!Request(u).id \in DOMAIN enrollment
              /\ p = PN!NewPair(enrollment[PN!Request(u).id], PN!Request(u).tenant)
          BY <1>0, <4>3, Zenon DEF UserSane, Before, Outside, PN!Pair
        <4>6. PN!Deleted(p)' \/ (namespaces'[p] # None /\ namespaces'[p].labels = PN!Owned(p).labels)
          BY <3>2 DEF PN!Owned, NoneIsNoNamespace, NsFields
        <4> QED BY <4>1, <4>2, <4>4, <4>5, <4>6, Zenon DEF UserSane, Outside, Before
      <3> QED BY <3>1, <3>4, <3>6, <3>7, PairCalls, Zenon
    <2> QED BY <2>1, <2>2, <2>3, Zenon
  <1>4. ASSUME PN!Usable(namespaces[p])
        PROVE  namespaces[p] # None /\ PairGood(p) /\ DOMAIN namespaces[p] = NsFields
               /\ ~namespaces[p].deleting
    <2>1. namespaces[p] # None /\ ~namespaces[p].deleting
      BY <1>4, Zenon DEF PN!Usable
    <2> QED BY <2>1, Zenon DEF PairInv, PairGood
  <1>5. CASE PN!ensureGrant(u)
    <2> PICK g \in Grants : g = CHOOSE x \in PN!Missing(u) : TRUE
      BY <1>5, Zenon DEF PN!ensureGrant, PN!Missing
    <2>1. CASE PN!Fault(u)
      BY <2>1, PairFaults, Zenon
    <2>2. CASE ~PN!Fault(u) /\ ~PN!Usable(PN!Namespace(u))
      BY <1>5, <2>2, PairEnds, Zenon DEF PN!ensureGrant, Outside
    <2>3. CASE ~PN!Fault(u) /\ PN!Usable(PN!Namespace(u))
      <3>1. /\ namespaces' = [namespaces EXCEPT ![p].grants = @ \cup {g}]
            /\ users' = [users EXCEPT ![u].ensured = @ \cup {g}]
            /\ UNCHANGED <<case, enrollment, readyNs, touched>>
        BY <1>5, <2>3, Zenon DEF PN!ensureGrant
      <3>2. PN!Usable(namespaces[p])
        BY <2>3, Zenon DEF PN!Namespace
      <3>3. PICK n : n = [namespaces[p] EXCEPT !.grants = @ \cup {g}]
        BY Zenon
      <3>4. namespaces' = [namespaces EXCEPT ![p] = n]
        BY <3>1, <3>3, Zenon DEF PairInv
      <3>5. namespaces'[p] = n
        BY <3>4, Zenon DEF PairInv
      <3>6. /\ DOMAIN n = NsFields /\ n.labels = namespaces[p].labels
            /\ n.deleting = namespaces[p].deleting /\ n.grants = namespaces[p].grants \cup {g}
            /\ n.sandboxes = namespaces[p].sandboxes
        BY <1>4, <3>2, <3>3, Zenon DEF NsFields
      <3>7. PairGood(p)'
        <4>1. n.sandboxes = {} \/ PairReady(p)'
          <5>1. n # None
            BY <3>6, Zenon DEF NoneIsNoNamespace
          <5>2. PN!Deleted(p)' <=> PN!Deleted(p)
            BY <3>1, Zenon DEF PN!Deleted
          <5>3. CASE n.sandboxes # {} /\ ~PN!Deleted(p)
            <6>1. namespaces[p].labels = p /\ namespaces[p].grants = Grants
              BY <1>4, <3>2, <3>6, <5>3, Zenon DEF PairGood, PairReady
            <6> QED BY <3>5, <3>6, <5>1, <6>1, Zenon DEF PairReady
          <5> QED BY <5>2, <5>3, Zenon DEF PairReady
        <4>2. \A s \in n.sandboxes : Of(s, p)'
          BY <1>4, <3>1, <3>2, <3>6, Zenon DEF PairGood, Of
        <4>3. n.grants \subseteq Grants
          BY <1>4, <3>2, <3>6, Zenon DEF PairGood
        <4> QED BY <1>4, <3>2, <3>5, <3>6, <4>1, <4>2, <4>3, Zenon DEF PairGood
      <3>8. n # None
        BY <3>6, Zenon DEF NoneIsNoNamespace
      <3>9. PairGrows
        BY <1>2, <3>1, <3>4, <3>6, <3>7, <3>8, PairWriteGrows, Zenon
      <3>10. PICK new : new = [users[u] EXCEPT !.ensured = @ \cup {g}]
        BY Zenon
      <3>11. users' = [users EXCEPT ![u] = new]
        BY <3>1, <3>10, Zenon DEF PairInv
      <3>12. UserSane(u, new)'
        <4>1. /\ new.pc = "grant" /\ new.pair = p /\ DOMAIN new = UserFields
              /\ new.at = users[u].at /\ new.ensured = users[u].ensured \cup {g}
          BY <1>0, <1>5, <3>10, Zenon DEF UserSane, UserFields, PN!Pair, PN!ensureGrant, PN!At
        <4>2. PN!Request(u)' = PN!Request(u) /\ enrollment' = enrollment
          BY <3>1, Zenon DEF PN!Request
        <4>3. users[u].pc = "grant" /\ users[u].pair = p
          BY <1>5, Zenon DEF PN!ensureGrant, PN!At, PN!Pair
        <4>4. /\ users[u].at \in Replicas /\ enrollment # None
              /\ PN!Request(u).id \in DOMAIN enrollment
              /\ p = PN!NewPair(enrollment[PN!Request(u).id], PN!Request(u).tenant)
          BY <1>0, <4>3, Zenon DEF UserSane, Outside
        <4>5. \/ PN!Deleted(p)'
              \/ /\ namespaces'[p] # None /\ namespaces'[p].labels = p
                 /\ new.ensured \subseteq namespaces'[p].grants
          <5>1. PN!Deleted(p)' <=> PN!Deleted(p)
            BY <3>1, Zenon DEF PN!Deleted
          <5>2. PN!Deleted(p) \/ (namespaces[p].labels = p /\ users[u].ensured \subseteq namespaces[p].grants)
            BY <1>0, <4>3, Zenon DEF UserSane
          <5> QED BY <3>5, <3>6, <3>8, <4>1, <5>1, <5>2, Zenon
        <4> QED BY <4>1, <4>2, <4>4, <4>5, Zenon DEF UserSane, Outside, Before
      <3> QED BY <3>1, <3>9, <3>11, <3>12, PairCalls, Zenon
    <2> QED BY <2>1, <2>2, <2>3, Zenon
  <1>6. CASE PN!Launch(u)
    <2>1. CASE PN!Fault(u)
      BY <2>1, PairFaults, Zenon
    <2>2. CASE ~PN!Fault(u) /\ ~(PN!Accepted(u) /\ PN!Usable(PN!Namespace(u)))
      BY <1>6, <2>2, PairEnds, Zenon DEF PN!Launch, Outside
    <2>3. CASE ~PN!Fault(u) /\ PN!Accepted(u) /\ PN!Usable(PN!Namespace(u))
      <3>1. /\ namespaces' = [namespaces EXCEPT ![p].sandboxes = @ \cup {PN!Sandbox(u)}]
            /\ users' = [users EXCEPT ![u] = PairOut("served")]
            /\ UNCHANGED <<case, enrollment, readyNs, touched>>
        BY <1>6, <2>3, Zenon DEF PN!Launch, PN!Ends, PairOut
      <3>2. PN!Usable(namespaces[p])
        BY <2>3, Zenon DEF PN!Namespace
      <3>3. PICK n : n = [namespaces[p] EXCEPT !.sandboxes = @ \cup {PN!Sandbox(u)}]
        BY Zenon
      <3>4. namespaces' = [namespaces EXCEPT ![p] = n]
        BY <3>1, <3>3, Zenon DEF PairInv
      <3>5. namespaces'[p] = n
        BY <3>4, Zenon DEF PairInv
      <3>6. /\ DOMAIN n = NsFields /\ n.labels = namespaces[p].labels
            /\ n.deleting = namespaces[p].deleting /\ n.grants = namespaces[p].grants
            /\ n.sandboxes = namespaces[p].sandboxes \cup {PN!Sandbox(u)}
        BY <1>4, <3>2, <3>3, Zenon DEF NsFields
      <3>7. n # None
        BY <3>6, Zenon DEF NoneIsNoNamespace
      <3>8. users[u].pc = "work" /\ users[u].pair = p
        BY <1>6, Zenon DEF PN!Launch, PN!At, PN!Pair
      <3>9. PairReady(p)'
        <4>1. PairReady(p)
          BY <1>0, <3>8, Zenon DEF UserSane
        <4>2. PN!Deleted(p)' <=> PN!Deleted(p)
          BY <3>1, Zenon DEF PN!Deleted
        <4> QED BY <3>5, <3>6, <3>7, <4>1, <4>2, Zenon DEF PairReady
      <3>10. Of(PN!Sandbox(u), p)
        <4>1. /\ PN!Request(u).id \in DOMAIN enrollment
              /\ p = PN!NewPair(enrollment[PN!Request(u).id], PN!Request(u).tenant)
          BY <1>0, <3>8, Zenon DEF UserSane, Outside
        <4>2. \A c, t : PN!NewPair(c, t).client = c /\ PN!NewPair(c, t).tenant = t
          BY Zenon DEF PN!NewPair
        <4>3. /\ PN!Sandbox(u).id = PN!Request(u).id /\ PN!Sandbox(u).tenant = PN!Request(u).tenant
              /\ PN!Sandbox(u).labels = p
          BY <3>8, Zenon DEF PN!Sandbox, PN!Pair
        <4> QED BY <4>1, <4>2, <4>3 DEF Of
      <3>11. \A s \in n.sandboxes : Of(s, p)'
        BY <1>4, <3>1, <3>2, <3>6, <3>10, Zenon DEF PairGood, Of
      <3>12. PairGood(p)'
        <4>1. n.grants \subseteq Grants /\ ~n.deleting
          BY <1>4, <3>2, <3>6, Zenon DEF PairGood
        <4> QED BY <3>5, <3>6, <3>9, <3>11, <4>1, Zenon DEF PairGood
      <3>13. PairGrows
        BY <1>2, <3>1, <3>4, <3>6, <3>7, <3>12, PairWriteGrows, Zenon
      <3>14. UserSane(u, PairOut("served"))
        BY PairOutSane, Zenon DEF Outside
      <3> QED BY <3>1, <3>13, <3>14, PairCalls, Zenon
    <2> QED BY <2>1, <2>2, <2>3, Zenon
  <1> QED BY <1>3, <1>5, <1>6, Zenon

(* The steps of administrators, and the restart of a replica. *)
LEMMA PairOthers ==
  ASSUME NoneIsNoNamespace, PairInv,
         \/ \E p \in PN!Pairs : PN!foreignAppears(p) \/ PN!deleteNamespace(p) \/ PN!namespaceGoes(p)
         \/ \E r \in Replicas : PN!restart(r)
  PROVE  PairInv'
  <1>1. ASSUME PairGrows, UNCHANGED <<readyNs, users, touched>> PROVE PairInv'
    <2>1. ASSUME NEW v \in Users PROVE UserSane(v, users[v])'
      <3>1. UserSane(v, users[v])
        BY Zenon DEF PairInv
      <3>2. ASSUME NEW q, q = users[v] PROVE UserSane(v, q)'
        BY <1>1, <3>1, <3>2, UserSaneKept, Zenon
      <3> QED BY <1>1, <3>2, Zenon DEF UserSane
    <2>2. \A q \in Replicas : readyNs'[q] \subseteq PN!Pairs /\ \A x \in readyNs'[q] : PairReady(x)'
      BY <1>1, PairReadyKept, Zenon DEF PairInv
    <2> QED BY <1>1, <2>1, <2>2, Zenon DEF PairInv, PairGrows, PN!OwnerOnly
  <1>2. DOMAIN case = CaseFields
    BY Zenon DEF PairInv
  <1>3. ASSUME NEW p \in PN!Pairs, PN!foreignAppears(p) PROVE PairInv'
    <2>1. /\ namespaces' = [namespaces EXCEPT ![p] = PN!Owned(None)] /\ namespaces[p] = None
          /\ UNCHANGED <<enrollment, readyNs, users, touched>>
      BY <1>3, Zenon DEF PN!foreignAppears
    <2>2. /\ DOMAIN case' = CaseFields /\ case'.requests = case.requests
          /\ case'.deleted = case.deleted
      BY <1>2, <1>3, Zenon DEF PN!foreignAppears, CaseFields
    <2>3. namespaces'[p] = PN!Owned(None)
      BY <2>1, Zenon DEF PairInv
    <2>4. PairGood(p)'
      BY <2>3 DEF PairGood, PN!Owned, NsFields
    <2>5. PairGrows
      BY <2>1, <2>2, <2>4, PairWriteGrows, Zenon
    <2> QED BY <1>1, <2>1, <2>5, Zenon
  <1>4. ASSUME NEW p \in PN!Pairs, PN!deleteNamespace(p) PROVE PairInv'
    <2>1. /\ namespaces' = [namespaces EXCEPT ![p].deleting = TRUE] /\ namespaces[p] # None
          /\ UNCHANGED <<enrollment, readyNs, users, touched>>
      BY <1>4, Zenon DEF PN!deleteNamespace
    <2>2. /\ DOMAIN case' = CaseFields /\ case'.requests = case.requests
          /\ case'.deleted = case.deleted \cup {p}
      BY <1>2, <1>4, Zenon DEF PN!deleteNamespace, CaseFields
    <2>3. PICK n : n = [namespaces[p] EXCEPT !.deleting = TRUE]
      BY Zenon
    <2>4. namespaces' = [namespaces EXCEPT ![p] = n]
      BY <2>1, <2>3, Zenon DEF PairInv
    <2>5. namespaces'[p] = n /\ PairGood(p)
      BY <2>4, Zenon DEF PairInv
    <2>6. /\ DOMAIN n = NsFields /\ n.grants = namespaces[p].grants
          /\ n.sandboxes = namespaces[p].sandboxes
      BY <2>1, <2>3, <2>5, Zenon DEF PairGood, NsFields
    <2>7. PairGood(p)'
      BY <2>1, <2>2, <2>5, <2>6, Zenon DEF PairGood, Of, PairReady, PN!Deleted
    <2>8. PairGrows
      BY <2>1, <2>2, <2>4, <2>7, PairWriteGrows, Zenon
    <2> QED BY <1>1, <2>1, <2>8, Zenon
  <1>5. ASSUME NEW p \in PN!Pairs, PN!namespaceGoes(p) PROVE PairInv'
    <2>1. /\ namespaces' = [namespaces EXCEPT ![p] = None]
          /\ namespaces[p] # None /\ namespaces[p].deleting
          /\ UNCHANGED <<case, enrollment, readyNs, users, touched>>
      BY <1>5, Zenon DEF PN!namespaceGoes
    <2>2. PN!Deleted(p)
      BY <2>1, Zenon DEF PairInv, PairGood
    <2>3. PairGood(p)'
      BY <2>1, Zenon DEF PairInv, PairGood
    <2>4. PairGrows
      BY <1>2, <2>1, <2>2, <2>3, PairWriteGrows, Zenon DEF PN!Deleted
    <2> QED BY <1>1, <2>1, <2>4, Zenon
  <1>6. ASSUME NEW r \in Replicas, PN!restart(r) PROVE PairInv'
    <2>1. PairGrows
      BY <1>6, PairStillGrows, Zenon DEF PN!restart
    <2>2. ASSUME NEW v \in Users PROVE UserSane(v, users[v])'
      <3>1. UserSane(v, users'[v])
        BY <1>6, PairOutSane, Zenon DEF PN!restart, PairInv, PairOut, Outside
      <3>2. ASSUME NEW q, q = users'[v] PROVE UserSane(v, q)'
        BY <2>1, <3>1, <3>2, UserSaneKept, Zenon
      <3> QED BY <3>2, Zenon DEF UserSane
    <2>3. \A q \in Replicas : readyNs'[q] \subseteq PN!Pairs /\ \A x \in readyNs'[q] : PairReady(x)'
      <3>1. \A q \in Replicas : readyNs'[q] \subseteq readyNs[q]
        BY <1>6, Zenon DEF PN!restart, PairInv
      <3> QED BY <2>1, <3>1, PairReadyKept, Zenon DEF PairInv
    <2>4. DOMAIN users' = Users /\ DOMAIN readyNs' = Replicas /\ touched' = touched
      BY <1>6, Zenon DEF PN!restart, PairInv
    <2> QED BY <2>1, <2>2, <2>3, <2>4, Zenon DEF PairInv, PairGrows, PN!OwnerOnly
  <1> QED BY <1>3, <1>4, <1>5, <1>6, Zenon

(* Nothing changes when every call has ended. *)
LEMMA PairStutters ==
  ASSUME PairInv, UNCHANGED PN!pnVars
  PROVE  PairInv'
  <1>1. PairGrows /\ UNCHANGED <<readyNs, users, touched>>
    BY PairStillGrows, Zenon DEF PN!pnVars
  <1>2. ASSUME NEW v \in Users PROVE UserSane(v, users[v])'
    <2>1. ASSUME NEW q, q = users[v] PROVE UserSane(v, q)'
      BY <1>1, <2>1, UserSaneKept, Zenon DEF PairInv
    <2> QED BY <1>1, <2>1, Zenon DEF UserSane
  <1>3. \A q \in Replicas : readyNs'[q] \subseteq PN!Pairs /\ \A x \in readyNs'[q] : PairReady(x)'
    BY <1>1, PairReadyKept, Zenon DEF PairInv
  <1> QED BY <1>1, <1>2, <1>3, Zenon DEF PairInv, PairGrows, PN!OwnerOnly

(* A call works only on Sandboxes of its own client and tenant, and, but for  *)
(* namespaces that an administrator deleted, no Sandbox is in a namespace     *)
(* that is not the one of its pair or that lacks a RoleBinding                *)
(* (ParseEnrollment, NamespaceFor, checkTenantNamespace).                     *)
THEOREM PairsSafe ==
  ASSUME CasesAreCases, NoneIsNoNamespace
  PROVE  PN!pnSpec => [](PN!OwnerOnly /\ PN!NeverAdopted /\ PN!GrantsFirst)
  <1>1. PN!pnInit => PairInv
    BY PairInit, Zenon
  <1>2. PairInv /\ [PN!pnNext]_(PN!pnVars) => PairInv'
    <2> SUFFICES ASSUME PairInv, [PN!pnNext]_(PN!pnVars) PROVE PairInv'
      BY Zenon
    <2>1. CASE \E u \in Users : PN!Call(u)
      BY <2>1, PairReads, PairWrites, Zenon DEF PN!Call, PN!NamespaceFor
    <2>2. CASE PN!pnEnd \/ UNCHANGED PN!pnVars
      BY <2>2, PairStutters, Zenon DEF PN!pnEnd
    <2> QED BY <2>1, <2>2, PairOthers, Zenon DEF PN!pnNext
  <1>3. PairInv => PN!OwnerOnly /\ PN!NeverAdopted /\ PN!GrantsFirst
    BY Zenon DEF PairInv, PairGood, Of, PairReady, PN!NeverAdopted, PN!GrantsFirst
  <1> QED BY <1>1, <1>2, <1>3, PTL DEF PN!pnSpec

-------------------------------------------------------------------------------
(* Keys and tokens belong to their Sandbox, for any number of Sandboxes of a  *)
(* name, suspensions, snapshots, faults and audiences.                        *)
CONSTANTS Lives, Audiences, Lifetime, MaxNow
VARIABLES life, idSandbox, secret, idPod, creating, taking, token, accepted, now
SI == INSTANCE SandboxIdentity

(* None is not a Secret. *)
NoneIsNoSecret == DOMAIN None # {"owner", "key"}

(* The Secret is the one of that Sandbox. *)
SecretOf(uid) == secret # None /\ secret.owner = uid

PodSound ==
  idPod # None =>
    /\ DOMAIN idPod = {"uid", "gen", "key", "file"} /\ idPod.uid \in Nat
    /\ idPod.uid <= idSandbox.uid
    /\ idPod.uid = idSandbox.uid =>
         SecretOf(idPod.uid) /\ (idPod.key # None => idPod.key.of = idPod.uid)

(* While a Pod is being made there is none, so the Secret of a Pod that runs  *)
(* is not replaced; past getSecret the Secret is the one of the Sandbox that  *)
(* was read, unless that one is gone.                                         *)
CreatingSound ==
  /\ DOMAIN creating = {"pc", "sb", "sec"}
  /\ creating.pc # "idle" =>
       /\ idPod = None /\ DOMAIN creating.sb = {"uid", "identity"}
       /\ creating.sb.uid \in Nat /\ creating.sb.uid <= idSandbox.uid
  /\ creating.pc \in {"record", "pod"} /\ creating.sb.uid = idSandbox.uid =>
       SecretOf(creating.sb.uid)

IdentityInv ==
  /\ DOMAIN idSandbox = {"uid", "identity"} /\ idSandbox.uid \in Nat
  /\ secret # None => secret.key.of = secret.owner
  /\ PodSound /\ CreatingSound
  /\ token # None => token.by = token.c.sub
  /\ SI!AcceptedIsItsOwn

(* There is no Pod at first. *)
LEMMA IdentityInit == SI!siInit => IdentityInv
  BY DEF SI!siInit, IdentityInv, PodSound, CreatingSound, SI!Idle, SI!AcceptedIsItsOwn

(* A reconcile that fails starts again. *)
LEMMA IdentityFails ==
  ASSUME IdentityInv, SI!Fails PROVE IdentityInv'
  BY Zenon
  DEF IdentityInv, SI!Fails, PodSound, CreatingSound, SecretOf, SI!Idle, SI!AcceptedIsItsOwn

(* The steps of createPod. *)
LEMMA CreatingKeeps ==
  ASSUME NoneIsNoSecret, IdentityInv, SI!ensureIdentity
  PROVE  IdentityInv'
  <1>1. CASE SI!begin
    BY <1>1
    DEF SI!begin, SI!At, IdentityInv, PodSound, CreatingSound, SecretOf, SI!AcceptedIsItsOwn
  <1>2. CASE SI!getSecret
    <2>1. CASE SI!Fails
      BY <2>1, IdentityFails, Zenon
    <2>2. CASE secret = None /\ ~SI!Fails
      BY <1>2, <2>2, Zenon
      DEF SI!getSecret, SI!At, IdentityInv, PodSound, CreatingSound, SecretOf,
          SI!AcceptedIsItsOwn
    <2>3. CASE secret # None /\ ~SI!Fails /\ SI!IsControlledBy(secret, creating.sb)
      BY <1>2, <2>3, Zenon
      DEF SI!getSecret, SI!At, IdentityInv, PodSound, CreatingSound, SecretOf,
          SI!AcceptedIsItsOwn, SI!IsControlledBy
    <2>4. CASE secret # None /\ ~SI!Fails /\ ~SI!IsControlledBy(secret, creating.sb)
      BY <1>2, <2>4, Zenon
      DEF SI!getSecret, SI!At, IdentityInv, PodSound, CreatingSound, SecretOf,
          SI!AcceptedIsItsOwn
    <2> QED BY <2>1, <2>2, <2>3, <2>4, Zenon
  <1>3. CASE SI!deleteSecret
    <2>1. CASE SI!Fails
      BY <2>1, IdentityFails, Zenon
    <2>2. CASE ~SI!Fails
      BY <1>3, <2>2, Zenon
      DEF SI!deleteSecret, SI!At, IdentityInv, PodSound, CreatingSound, SecretOf,
          SI!AcceptedIsItsOwn
    <2> QED BY <2>1, <2>2, Zenon
  <1>4. CASE SI!createIdentitySecret
    <2>1. CASE SI!Fails
      BY <2>1, IdentityFails, Zenon
    <2>2. CASE secret = None /\ ~SI!Fails
      <3>1. PICK k : k.of = creating.sb.uid /\ secret' = [owner |-> creating.sb.uid, key |-> k]
        BY <1>4, <2>2, Zenon DEF SI!createIdentitySecret
      <3>2. /\ secret' # None /\ secret'.owner = creating.sb.uid
            /\ secret'.key.of = creating.sb.uid
        BY <3>1, Zenon DEF NoneIsNoSecret
      <3>3. /\ creating' = [creating EXCEPT !.pc = "record", !.sec = secret']
            /\ UNCHANGED <<idSandbox, idPod, taking, token, accepted, now>>
        BY <1>4, <2>2, Zenon DEF SI!createIdentitySecret
      <3>4. creating.pc = "create"
        BY <1>4, Zenon DEF SI!createIdentitySecret, SI!At
      <3> QED BY <3>2, <3>3, <3>4, Zenon
          DEF IdentityInv, PodSound, CreatingSound, SecretOf, SI!AcceptedIsItsOwn
    <2>3. CASE secret # None /\ ~SI!Fails
      BY <1>4, <2>3
      DEF SI!createIdentitySecret, IdentityInv, PodSound, CreatingSound, SecretOf, SI!Idle,
          SI!AcceptedIsItsOwn
    <2> QED BY <2>1, <2>2, <2>3, Zenon
  <1>5. CASE SI!recordIdentity
    <2>1. CASE SI!Fails
      BY <2>1, IdentityFails, Zenon
    <2>2. CASE ~SI!Fails
      <3>1. PICK id : /\ creating' = [creating EXCEPT !.pc = "pod", !.sb.identity = id]
                      /\ \/ idSandbox' = idSandbox
                         \/ idSandbox' = [idSandbox EXCEPT !.identity = id]
        BY <1>5, <2>2, Zenon DEF SI!recordIdentity
      <3>2. creating.pc = "record" /\ UNCHANGED <<secret, idPod, token, accepted, now>>
        BY <1>5, <2>2, Zenon DEF SI!recordIdentity, SI!At
      <3>3. /\ DOMAIN creating' = {"pc", "sb", "sec"} /\ creating'.pc = "pod"
            /\ DOMAIN creating'.sb = {"uid", "identity"} /\ creating'.sb.uid = creating.sb.uid
        BY <3>1, <3>2, Zenon DEF IdentityInv, CreatingSound
      <3>4. DOMAIN idSandbox' = {"uid", "identity"} /\ idSandbox'.uid = idSandbox.uid
        BY <3>1, Zenon DEF IdentityInv
      <3> QED BY <3>2, <3>3, <3>4, Zenon
          DEF IdentityInv, PodSound, CreatingSound, SecretOf, SI!AcceptedIsItsOwn
    <2> QED BY <2>1, <2>2, Zenon
  <1>6. CASE SI!createPod
    <2>1. CASE SI!Fails
      BY <2>1, IdentityFails, Zenon
    <2>2. CASE ~SI!Fails
      <3>1. /\ creating.pc = "pod" /\ idPod = None /\ creating' = SI!Idle
            /\ UNCHANGED <<idSandbox, secret, token, accepted, now>>
        BY <1>6, <2>2, Zenon DEF SI!createPod, SI!At, IdentityInv, CreatingSound
      <3>2. PICK g : idPod' = [uid |-> creating.sb.uid, gen |-> g, key |-> None, file |-> 0]
        BY <1>6, <2>2, <3>1, Zenon DEF SI!createPod
      <3> QED BY <3>1, <3>2, Zenon
          DEF IdentityInv, PodSound, CreatingSound, SecretOf, SI!Idle, SI!AcceptedIsItsOwn
    <2> QED BY <2>1, <2>2, Zenon
  <1> QED BY <1>1, <1>2, <1>3, <1>4, <1>5, <1>6, Zenon DEF SI!ensureIdentity

(* The launcher, the frontend, snapshots and the life of the Sandbox. *)
LEMMA IdentityKeeps ==
  ASSUME IdentityInv,
         \/ SI!newIdentitySigner \/ SI!ServeHTTP \/ SI!VerifySandboxIdentity
         \/ SI!writeIdentityGeneration \/ SI!recordIdentityGeneration
         \/ SI!suspend \/ SI!isRemade \/ SI!collected \/ SI!siTick \/ UNCHANGED SI!siVars
  PROVE  IdentityInv'
  <1>1. CASE SI!newIdentitySigner
    BY <1>1, Zenon
    DEF SI!newIdentitySigner, IdentityInv, PodSound, CreatingSound, SecretOf,
        SI!AcceptedIsItsOwn
  <1>2. CASE SI!ServeHTTP
    <2>1. PICK aud : token' = SI!sign(aud)
      BY <1>2, Zenon DEF SI!ServeHTTP
    <2>2. token'.by = token'.c.sub
      BY <2>1, Zenon DEF SI!sign, SI!Sign
    <2> QED BY <1>2, <2>2, Zenon
        DEF SI!ServeHTTP, IdentityInv, PodSound, CreatingSound, SecretOf, SI!AcceptedIsItsOwn
  <1>3. CASE SI!VerifySandboxIdentity
    <2>1. PICK aud : /\ SI!Verifies(token, aud)
                     /\ accepted' = [token |-> token, uid |-> idSandbox.uid,
                                      aud |-> aud, at |-> now]
      BY <1>3, Zenon DEF SI!VerifySandboxIdentity
    <2>2. /\ token # None /\ token.c.sub = idSandbox.uid /\ token.c.aud = aud
          /\ now < token.c.exp
      BY <2>1, Zenon DEF SI!Verifies, SI!sameSandbox, SI!Verify
    <2>3. SI!AcceptedIsItsOwn'
      BY <2>1, <2>2, Zenon DEF SI!AcceptedIsItsOwn, IdentityInv
    <2> QED BY <1>3, <2>3, Zenon
        DEF SI!VerifySandboxIdentity, IdentityInv, PodSound, CreatingSound, SecretOf
  <1>4. CASE SI!writeIdentityGeneration
    <2>1. PICK g : idPod' = [idPod EXCEPT !.file = g]
      BY <1>4, Zenon DEF SI!writeIdentityGeneration
    <2>2. idPod # None
      BY <1>4, Zenon DEF SI!writeIdentityGeneration, SI!Running
    <2>3. /\ DOMAIN idPod' = DOMAIN idPod /\ idPod'.uid = idPod.uid /\ idPod'.key = idPod.key
      BY <2>1, <2>2, Zenon DEF IdentityInv, PodSound
    <2> QED BY <1>4, <2>2, <2>3, Zenon
        DEF SI!writeIdentityGeneration, IdentityInv, PodSound, CreatingSound, SecretOf,
            SI!AcceptedIsItsOwn
  <1>5. CASE SI!recordIdentityGeneration
    <2>1. DOMAIN idSandbox' = {"uid", "identity"} /\ idSandbox'.uid = idSandbox.uid
      BY <1>5, Zenon DEF SI!recordIdentityGeneration, IdentityInv
    <2> QED BY <1>5, <2>1, Zenon
        DEF SI!recordIdentityGeneration, IdentityInv, PodSound, CreatingSound, SecretOf,
            SI!AcceptedIsItsOwn
  <1>6. CASE SI!suspend
    BY <1>6, Zenon
    DEF SI!suspend, IdentityInv, PodSound, CreatingSound, SecretOf, SI!AcceptedIsItsOwn
  <1>7. CASE SI!isRemade
    BY <1>7 DEF SI!isRemade, IdentityInv, PodSound, CreatingSound, SecretOf, SI!AcceptedIsItsOwn
  <1>8. CASE SI!collected
    BY <1>8, Zenon
    DEF SI!collected, IdentityInv, PodSound, CreatingSound, SecretOf, SI!AcceptedIsItsOwn
  <1>9. CASE SI!siTick
    BY <1>9, Zenon
    DEF SI!siTick, IdentityInv, PodSound, CreatingSound, SecretOf, SI!AcceptedIsItsOwn
  <1>10. CASE UNCHANGED SI!siVars
    BY <1>10, Zenon
    DEF SI!siVars, IdentityInv, PodSound, CreatingSound, SecretOf, SI!AcceptedIsItsOwn
  <1> QED BY <1>1, <1>2, <1>3, <1>4, <1>5, <1>6, <1>7, <1>8, <1>9, <1>10, Zenon

(* A launcher holds a key that was made for its Sandbox, and the frontend     *)
(* accepts a token only from the launcher of the Sandbox that has the name    *)
(* (ensureIdentity, newIdentitySigner, VerifySandboxIdentity).                *)
THEOREM IdentitySafe ==
  ASSUME NoneIsNoSecret
  PROVE  SI!siSpec => [](SI!KeyOfItsOwn /\ SI!AcceptedIsItsOwn)
  <1>1. SI!siInit => IdentityInv
    BY IdentityInit, Zenon
  <1>2. IdentityInv /\ [SI!siNext]_(SI!siVars) => IdentityInv'
    BY CreatingKeeps, IdentityKeeps, Zenon DEF SI!siNext
  <1>3. IdentityInv => SI!KeyOfItsOwn /\ SI!AcceptedIsItsOwn
    BY Zenon DEF IdentityInv, PodSound, SI!KeyOfItsOwn, SI!Running
  <1> QED BY <1>1, <1>2, <1>3, PTL DEF SI!siSpec

LifeFields == {"faults", "suspends", "remakes", "snapshots", "keys", "torn"}
LivesAreLives == \A l \in Lives : DOMAIN l = LifeFields /\ l.torn \in BOOLEAN

(* None is not an identity, nor a snapshot under way. *)
NoneIsNoIdentity ==
  DOMAIN None \notin {{"owner", "key"}, {"key", "gen"}, {"gen", "uid"},
                      {"uid", "gen", "key", "file"}}

IsIdentity(id) == id = [key |-> id.key, gen |-> id.gen] /\ id.gen \in Nat

(* The Pod is the one of the Sandbox that has the name. *)
OwnPod == idPod # None /\ idPod.uid = idSandbox.uid

(* Types, and what a snapshot under way or a Pod being made refers to. *)
RefersSound ==
  /\ DOMAIN life = LifeFields /\ life.torn \in BOOLEAN
  /\ idSandbox.identity = None \/ IsIdentity(idSandbox.identity)
  /\ creating.pc # "idle" => creating.sb.identity = None \/ IsIdentity(creating.sb.identity)
  /\ creating.pc = "pod" => IsIdentity(creating.sb.identity)
  /\ creating.pc \in {"record", "pod"} /\ creating.sb.uid = idSandbox.uid => creating.sec = secret
  /\ taking # None =>
       /\ taking.gen \in Nat /\ taking.uid \in Nat /\ taking.uid <= idSandbox.uid
       /\ taking.uid = idSandbox.uid => OwnPod
  /\ idPod # None => idPod.gen \in Nat /\ idPod.file \in Nat

(* Unless a snapshot was torn, the status has the key of the Secret and the   *)
(* generation of the launcher, once the Pod is made.                          *)
StatusSound ==
  ~life.torn =>
    /\ creating.pc # "idle" /\ creating.sb.uid = idSandbox.uid =>
         /\ creating.sb.identity = idSandbox.identity
         /\ creating.pc = "pod" => idSandbox.identity.key = secret.key
    /\ OwnPod =>
         /\ idSandbox.identity # None /\ idSandbox.identity.key = secret.key
         /\ idPod.key \in {None, secret.key}
         /\ taking = None => idSandbox.identity.gen = SI!generation
         /\ taking # None /\ taking.uid = idSandbox.uid =>
              /\ taking.gen = idSandbox.identity.gen + 1
              /\ idPod.file = taking.gen /\ idPod.gen <= idSandbox.identity.gen

TokenInv == RefersSound /\ StatusSound

(* What recordIdentity writes is an identity with that key. *)
LEMMA RecordedIs ==
  ASSUME NEW id, NEW key, id = None \/ IsIdentity(id)
  PROVE  /\ IsIdentity(SI!Recorded(id, key)) /\ SI!Recorded(id, key).key = key
         /\ id # None => SI!Recorded(id, key).gen = id.gen
  <1>1. CASE id = None
    BY <1>1, Zenon DEF SI!Recorded, IsIdentity
  <1>2. CASE id # None
    <2>1. PICK k, g : id = [key |-> k, gen |-> g] /\ g \in Nat
      BY <1>2, Zenon DEF IsIdentity
    <2>2. SI!Recorded(id, key) = [key |-> key, gen |-> g]
      BY <1>2, <2>1, Zenon DEF SI!Recorded
    <2> QED BY <2>1, <2>2 DEF IsIdentity
  <1> QED BY <1>1, <1>2, Zenon

(* Nothing is recorded at first. *)
LEMMA TokenInit ==
  ASSUME LivesAreLives, SI!siInit PROVE TokenInv
  <1>1. /\ life \in Lives /\ idSandbox = [uid |-> 1, identity |-> None] /\ taking = None
        /\ idPod = None /\ creating.pc = "idle"
    BY Zenon DEF SI!siInit, SI!Idle
  <1> QED BY <1>1, Zenon DEF LivesAreLives, TokenInv, RefersSound, StatusSound, OwnPod

(* A reconcile that fails leaves the status, the Secret and the Pod. *)
LEMMA TokenFails ==
  ASSUME IdentityInv, TokenInv, SI!Fails PROVE TokenInv'
  <1>1. /\ creating'.pc = "idle" /\ DOMAIN life' = DOMAIN life /\ life'.torn = life.torn
        /\ UNCHANGED <<idSandbox, secret, idPod, taking>>
    BY Zenon DEF SI!Fails, SI!Idle, TokenInv, RefersSound, LifeFields
  <1> QED BY <1>1, Zenon DEF TokenInv, RefersSound, StatusSound, OwnPod, SI!generation

(* The steps of createPod keep the status and the launcher together. *)
LEMMA TokenCreating ==
  ASSUME NoneIsNoIdentity, IdentityInv, IdentityInv', TokenInv, SI!ensureIdentity
  PROVE  TokenInv'
  <1>1. CASE SI!begin
    <2>1. /\ idPod = None /\ creating'.pc = "get" /\ creating'.sb = idSandbox
          /\ UNCHANGED <<life, idSandbox, secret, idPod, taking>>
      BY <1>1, Zenon DEF SI!begin, SI!At
    <2> QED BY <2>1, Zenon DEF TokenInv, RefersSound, StatusSound, OwnPod, SI!generation
  <1>2. CASE SI!getSecret
    <2>1. CASE SI!Fails
      BY <2>1, TokenFails, Zenon
    <2>2. CASE ~SI!Fails
      <3>1. /\ creating.pc = "get" /\ creating'.sb = creating.sb
            /\ \/ creating'.pc \in {"create", "delete"}
               \/ creating'.pc = "record" /\ creating'.sec = secret
            /\ UNCHANGED <<life, idSandbox, secret, idPod, taking>>
        BY <1>2, <2>2, Zenon DEF SI!getSecret, SI!At, IdentityInv, CreatingSound
      <3> QED BY <3>1, Zenon DEF TokenInv, RefersSound, StatusSound, OwnPod, SI!generation
    <2> QED BY <2>1, <2>2, Zenon
  <1>3. CASE SI!deleteSecret
    <2>1. CASE SI!Fails
      BY <2>1, TokenFails, Zenon
    <2>2. CASE ~SI!Fails
      <3>1. /\ creating.pc = "delete" /\ creating'.sb = creating.sb /\ creating'.pc = "create"
            /\ idPod = None /\ UNCHANGED <<life, idSandbox, idPod, taking>>
        BY <1>3, <2>2, Zenon DEF SI!deleteSecret, SI!At, IdentityInv, CreatingSound
      <3> QED BY <3>1, Zenon DEF TokenInv, RefersSound, StatusSound, OwnPod
    <2> QED BY <2>1, <2>2, Zenon
  <1>4. CASE SI!createIdentitySecret
    <2>1. CASE SI!Fails
      BY <2>1, TokenFails, Zenon
    <2>2. CASE secret = None /\ ~SI!Fails
      <3>1. /\ creating.pc = "create" /\ creating'.sb = creating.sb /\ creating'.pc = "record"
            /\ creating'.sec = secret' /\ idPod = None /\ UNCHANGED <<idSandbox, idPod, taking>>
        BY <1>4, <2>2, Zenon DEF SI!createIdentitySecret, SI!At, IdentityInv, CreatingSound
      <3>2. DOMAIN life' = DOMAIN life /\ life'.torn = life.torn
        BY <1>4, <2>2, Zenon DEF SI!createIdentitySecret, TokenInv, RefersSound, LifeFields
      <3> QED BY <3>1, <3>2, Zenon DEF TokenInv, RefersSound, StatusSound, OwnPod
    <2>3. CASE secret # None /\ ~SI!Fails
      <3>1. creating'.pc = "idle" /\ UNCHANGED <<life, idSandbox, secret, idPod, taking>>
        BY <1>4, <2>3 DEF SI!createIdentitySecret, SI!Idle
      <3> QED BY <3>1, Zenon DEF TokenInv, RefersSound, StatusSound, OwnPod, SI!generation
    <2> QED BY <2>1, <2>2, <2>3, Zenon
  <1>5. CASE SI!recordIdentity
    <2>1. CASE SI!Fails
      BY <2>1, TokenFails, Zenon
    <2>2. CASE ~SI!Fails
      <3>1. PICK id : /\ id = SI!Recorded(creating.sb.identity, creating.sec.key)
                      /\ creating' = [creating EXCEPT !.pc = "pod", !.sb.identity = id]
                      /\ idSandbox' = IF id = creating.sb.identity THEN idSandbox
                                      ELSE [idSandbox EXCEPT !.identity = id]
        BY <1>5, <2>2, Zenon DEF SI!recordIdentity
      <3>2. creating.pc = "record" /\ idPod = None /\ UNCHANGED <<life, secret, idPod, taking>>
        BY <1>5, <2>2, Zenon DEF SI!recordIdentity, SI!At, IdentityInv, CreatingSound
      <3>3. /\ creating'.pc = "pod" /\ creating'.sb.uid = creating.sb.uid
            /\ creating'.sb.identity = id /\ creating'.sec = creating.sec
        BY <3>1, <3>2, Zenon DEF IdentityInv, CreatingSound
      <3>4. /\ idSandbox'.uid = idSandbox.uid
            /\ idSandbox'.identity = IF id = creating.sb.identity THEN idSandbox.identity ELSE id
        BY <3>1, Zenon DEF IdentityInv
      <3>5. IsIdentity(id) /\ id.key = creating.sec.key
        BY <3>1, <3>2, RecordedIs, ZenonT(30) DEF TokenInv, RefersSound
      <3> QED BY <3>2, <3>3, <3>4, <3>5, Zenon DEF TokenInv, RefersSound, StatusSound, OwnPod
    <2> QED BY <2>1, <2>2, Zenon
  <1>6. CASE SI!createPod
    <2>1. CASE SI!Fails
      BY <2>1, TokenFails, Zenon
    <2>2. CASE ~SI!Fails
      <3>1. /\ creating.pc = "pod" /\ idPod = None /\ creating'.pc = "idle"
            /\ UNCHANGED <<life, idSandbox, secret, taking>>
        BY <1>6, <2>2 DEF SI!createPod, SI!At, IdentityInv, CreatingSound, SI!Idle
      <3>2. idPod' = [uid |-> creating.sb.uid, gen |-> creating.sb.identity.gen,
                      key |-> None, file |-> 0]
        BY <1>6, <2>2, <3>1, Zenon DEF SI!createPod, SI!specGeneration
      <3>3. PICK k, g : creating.sb.identity = [key |-> k, gen |-> g] /\ g \in Nat
        BY <3>1, Zenon DEF TokenInv, RefersSound, IsIdentity
      <3>4. /\ idPod'.uid = creating.sb.uid /\ idPod'.gen = g /\ idPod'.key = None
            /\ idPod'.file = 0 /\ creating.sb.identity.gen = g /\ SI!generation' = g
            /\ g \in Nat
        BY <3>2, <3>3 DEF SI!generation
      <3>5. creating.sb.identity # None
        BY <3>3 DEF NoneIsNoIdentity
      <3>6. RefersSound'
        BY <3>1, <3>4 DEF TokenInv, RefersSound, OwnPod
      <3>7. StatusSound'
        BY <3>1, <3>4, <3>5, Zenon DEF TokenInv, RefersSound, StatusSound, OwnPod
      <3> QED BY <3>6, <3>7, Zenon DEF TokenInv
    <2> QED BY <2>1, <2>2, Zenon
  <1> QED BY <1>1, <1>2, <1>3, <1>4, <1>5, <1>6, Zenon DEF SI!ensureIdentity

(* A snapshot raises the generation in the launcher, then in the status. *)
LEMMA TokenSnapshots ==
  ASSUME NoneIsNoIdentity, IdentityInv, IdentityInv', TokenInv,
         SI!writeIdentityGeneration \/ SI!recordIdentityGeneration
  PROVE  TokenInv'
  <1>1. CASE SI!writeIdentityGeneration
    <2>1. /\ taking = None /\ idPod # None /\ OwnPod /\ idSandbox.identity # None
          /\ UNCHANGED <<idSandbox, secret, creating>>
      BY <1>1, Zenon DEF SI!writeIdentityGeneration, SI!Running, OwnPod
    <2>2. DOMAIN life' = DOMAIN life /\ life'.torn = life.torn
      BY <1>1, Zenon DEF SI!writeIdentityGeneration, TokenInv, RefersSound, LifeFields
    <2>3. PICK k, g : idSandbox.identity = [key |-> k, gen |-> g] /\ g \in Nat
      BY <2>1, Zenon DEF TokenInv, RefersSound, IsIdentity
    <2>4. /\ taking' = [gen |-> g + 1, uid |-> idSandbox.uid]
          /\ idPod' = [idPod EXCEPT !.file = g + 1]
      BY <1>1, <2>3 DEF SI!writeIdentityGeneration
    <2>5. taking' # None /\ taking'.gen = g + 1 /\ taking'.uid = idSandbox.uid
      BY <2>4, Zenon DEF NoneIsNoIdentity
    <2>6. /\ idPod'.uid = idPod.uid /\ idPod'.gen = idPod.gen /\ idPod'.key = idPod.key
          /\ idPod'.file = g + 1
      BY <2>1, <2>4, Zenon DEF IdentityInv, PodSound
    <2>7. idPod' # None
      BY <2>1, <2>4, Zenon DEF NoneIsNoIdentity, IdentityInv, PodSound
    <2>8. g \in Nat /\ idSandbox.identity.gen = g /\ idSandbox.uid \in Nat
      BY <2>3 DEF IdentityInv
    <2>9. RefersSound'
      BY <2>1, <2>2, <2>5, <2>6, <2>7, <2>8 DEF TokenInv, RefersSound, OwnPod
    <2>10. ~life.torn => idPod.gen <= g
      BY <2>1, <2>8 DEF TokenInv, RefersSound, StatusSound, SI!generation
    <2>11. StatusSound'
      BY <2>1, <2>2, <2>5, <2>6, <2>8, <2>10, Zenon
      DEF TokenInv, RefersSound, StatusSound, OwnPod
    <2> QED BY <2>9, <2>11, Zenon DEF TokenInv
  <1>2. CASE SI!recordIdentityGeneration
    <2>1. taking # None /\ taking' = None /\ UNCHANGED <<secret, idPod, creating>>
      BY <1>2, Zenon DEF SI!recordIdentityGeneration
    <2>2. CASE /\ idSandbox' = idSandbox
               /\ DOMAIN life' = DOMAIN life /\ life'.torn = TRUE
      BY <2>1, <2>2, Zenon DEF TokenInv, RefersSound, StatusSound, OwnPod
    <2>3. CASE /\ idSandbox' = IF idSandbox.identity = None THEN idSandbox
                               ELSE IF idSandbox.identity.gen >= taking.gen THEN idSandbox
                               ELSE [idSandbox EXCEPT !.identity.gen = taking.gen]
               /\ life' = [life EXCEPT !.torn = @ \/ taking.uid # idSandbox.uid]
      <3>1. /\ DOMAIN life' = DOMAIN life /\ life'.torn \in BOOLEAN
            /\ ~life'.torn => ~life.torn /\ taking.uid = idSandbox.uid
        BY <2>3, Zenon DEF TokenInv, RefersSound, LifeFields
      <3>2. CASE idSandbox.identity = None \/ idSandbox.identity.gen >= taking.gen
        <4>1. idSandbox' = idSandbox
          BY <2>3, <3>2, Zenon
        <4>2. life'.torn
          BY <2>1, <3>1, <3>2 DEF TokenInv, RefersSound, StatusSound, IsIdentity
        <4> QED BY <2>1, <3>1, <4>1, <4>2, Zenon DEF TokenInv, RefersSound, StatusSound, OwnPod
      <3>3. CASE ~(idSandbox.identity = None \/ idSandbox.identity.gen >= taking.gen)
        <4>1. /\ idSandbox.identity # None
              /\ idSandbox' = [idSandbox EXCEPT !.identity.gen = taking.gen]
          BY <2>3, <3>3, Zenon
        <4>2. PICK k, g : idSandbox.identity = [key |-> k, gen |-> g] /\ g \in Nat
          BY <4>1, Zenon DEF TokenInv, RefersSound, IsIdentity
        <4>3. idSandbox'.uid = idSandbox.uid
          BY <4>1, Zenon DEF IdentityInv
        <4>4. idSandbox'.identity = [key |-> k, gen |-> taking.gen]
          BY <4>1, <4>2 DEF IdentityInv
        <4>5. taking.gen \in Nat /\ idSandbox'.identity # None
          <5>1. taking.gen \in Nat
            BY <2>1, Zenon DEF TokenInv, RefersSound
          <5>2. idSandbox'.identity # None
            BY <4>4 DEF NoneIsNoIdentity
          <5> QED BY <5>1, <5>2, Zenon
        <4>6. IsIdentity(idSandbox'.identity)
          BY <4>4, <4>5 DEF IsIdentity
        <4>7. /\ idSandbox'.identity.key = idSandbox.identity.key
              /\ idSandbox'.identity.gen = taking.gen
          BY <4>2, <4>4
        <4>8. RefersSound'
          BY <2>1, <3>1, <4>3, <4>6, Zenon DEF TokenInv, RefersSound, OwnPod
        <4>9. ~life'.torn => OwnPod /\ creating.pc = "idle"
          BY <2>1, <3>1, Zenon DEF TokenInv, RefersSound, IdentityInv, CreatingSound, OwnPod
        <4>10. ~life'.torn => SI!generation' = taking.gen
          <5>1. SUFFICES ASSUME ~life'.torn
                         PROVE  SI!generation' = taking.gen
            BY Zenon
          <5>2. OwnPod /\ taking.uid = idSandbox.uid /\ ~life.torn
            BY <3>1, <4>9, <5>1, Zenon
          <5>3. /\ taking.gen = idSandbox.identity.gen + 1
                /\ idPod.file = taking.gen /\ idPod.gen <= idSandbox.identity.gen
            BY <2>1, <5>2, Zenon DEF TokenInv, StatusSound
          <5>4. idPod.gen \in Nat
            BY <5>2, Zenon DEF TokenInv, RefersSound, OwnPod
          <5>5. idSandbox.identity.gen = g /\ g \in Nat
            BY <4>2
          <5>6. idPod.file > idPod.gen
            BY <5>3, <5>4, <5>5
          <5> QED BY <2>1, <5>3, <5>6, Zenon DEF SI!generation
        <4>11. StatusSound'
          BY <2>1, <3>1, <4>3, <4>5, <4>7, <4>9, <4>10, Zenon DEF TokenInv, StatusSound, OwnPod
        <4> QED BY <4>8, <4>11, Zenon DEF TokenInv
      <3> QED BY <3>2, <3>3, Zenon
    <2>4. CASE /\ life' = [life EXCEPT !.faults = @ - 1, !.torn = TRUE]
               /\ UNCHANGED idSandbox
      <3>1. DOMAIN life' = DOMAIN life /\ life'.torn = TRUE
        BY <2>4, Zenon DEF TokenInv, RefersSound, LifeFields
      <3> QED BY <2>2, <2>4, <3>1, Zenon
    <2> QED BY <1>2, <2>3, <2>4, Zenon DEF SI!recordIdentityGeneration
  <1> QED BY <1>1, <1>2, Zenon

(* The launcher, the frontend and the life of the Sandbox. *)
LEMMA TokenOthers ==
  ASSUME NoneIsNoIdentity, IdentityInv, IdentityInv', TokenInv,
         \/ SI!newIdentitySigner \/ SI!ServeHTTP \/ SI!VerifySandboxIdentity
         \/ SI!suspend \/ SI!isRemade \/ SI!collected \/ SI!siTick \/ UNCHANGED SI!siVars
  PROVE  TokenInv'
  <1>1. CASE SI!newIdentitySigner
    <2>1. /\ idPod # None /\ UNCHANGED <<life, idSandbox, secret, creating, taking>>
          /\ idPod' = [idPod EXCEPT !.key = secret.key]
      BY <1>1, Zenon DEF SI!newIdentitySigner
    <2>2. /\ idPod'.uid = idPod.uid /\ idPod'.gen = idPod.gen /\ idPod'.file = idPod.file
          /\ idPod'.key = secret.key /\ idPod' # None
      BY <2>1, Zenon DEF IdentityInv, PodSound, NoneIsNoIdentity
    <2> QED BY <2>1, <2>2, Zenon DEF TokenInv, RefersSound, StatusSound, OwnPod, SI!generation
  <1>2. CASE UNCHANGED <<life, idSandbox, secret, idPod, creating, taking>>
    BY <1>2, Zenon DEF TokenInv, RefersSound, StatusSound, OwnPod, SI!generation
  <1>3. CASE SI!ServeHTTP \/ SI!VerifySandboxIdentity \/ SI!siTick \/ UNCHANGED SI!siVars
    BY <1>2, <1>3, Zenon DEF SI!ServeHTTP, SI!VerifySandboxIdentity, SI!siTick, SI!siVars
  <1>4. CASE SI!suspend
    <2>1. /\ idPod' = None /\ taking = None /\ UNCHANGED <<idSandbox, secret, creating, taking>>
      BY <1>4, Zenon DEF SI!suspend
    <2>2. DOMAIN life' = DOMAIN life /\ life'.torn = life.torn
      BY <1>4, Zenon DEF SI!suspend, TokenInv, RefersSound, LifeFields
    <2> QED BY <2>1, <2>2, Zenon DEF TokenInv, RefersSound, StatusSound, OwnPod
  <1>5. CASE SI!isRemade
    <2>1. /\ idSandbox'.uid = idSandbox.uid + 1 /\ idSandbox'.identity = None
          /\ UNCHANGED <<secret, idPod, creating, taking>>
      BY <1>5, Zenon DEF SI!isRemade
    <2>2. DOMAIN life' = DOMAIN life /\ life'.torn = life.torn
      BY <1>5, Zenon DEF SI!isRemade, TokenInv, RefersSound, LifeFields
    <2>3. idSandbox.uid \in Nat
      BY Zenon DEF IdentityInv
    <2>4. ~OwnPod' /\ (creating.pc # "idle" => creating.sb.uid # idSandbox'.uid)
      BY <2>1, <2>3 DEF OwnPod, IdentityInv, PodSound, CreatingSound
    <2> QED BY <2>1, <2>2, <2>3, <2>4 DEF TokenInv, RefersSound, StatusSound
  <1>6. CASE SI!collected
    <2>1. UNCHANGED <<life, idSandbox, creating, taking>>
      BY <1>6, Zenon DEF SI!collected
    <2>2. CASE idPod # None /\ secret' = secret /\ idPod.uid # idSandbox.uid /\ idPod' = None
      BY <2>1, <2>2, Zenon DEF TokenInv, RefersSound, StatusSound, OwnPod
    <2>3. CASE secret # None /\ idPod' = idPod /\ secret.owner # idSandbox.uid /\ secret' = None
      <3>1. /\ ~OwnPod
            /\ ~(creating.pc \in {"record", "pod"} /\ creating.sb.uid = idSandbox.uid)
        BY <2>3, Zenon DEF IdentityInv, PodSound, CreatingSound, SecretOf, OwnPod
      <3> QED BY <2>1, <2>3, <3>1, Zenon DEF TokenInv, RefersSound, StatusSound, OwnPod
    <2> QED BY <1>6, <2>2, <2>3, Zenon DEF SI!collected
  <1> QED BY <1>1, <1>3, <1>4, <1>5, <1>6, Zenon

(* A launcher that runs and is not being snapshotted has the key and the      *)
(* generation of the status, so its tokens verify (createPod, resume,         *)
(* writeIdentityGeneration and recordIdentityGeneration), unless a snapshot   *)
(* failed half way or its Sandbox was remade under it.                        *)
THEOREM TokensSafe ==
  ASSUME NoneIsNoIdentity, LivesAreLives
  PROVE  SI!siSpec => []SI!TokensVerify
  <1>0. NoneIsNoSecret
    BY Zenon DEF NoneIsNoIdentity, NoneIsNoSecret
  <1>1. SI!siInit => IdentityInv /\ TokenInv
    BY IdentityInit, TokenInit, Zenon
  <1>2. IdentityInv /\ [SI!siNext]_(SI!siVars) => IdentityInv'
    BY <1>0, CreatingKeeps, IdentityKeeps, Zenon DEF SI!siNext
  <1>3. IdentityInv /\ IdentityInv' /\ TokenInv /\ [SI!siNext]_(SI!siVars) => TokenInv'
    BY TokenCreating, TokenSnapshots, TokenOthers, Zenon DEF SI!siNext
  <1>4. IdentityInv /\ TokenInv => SI!TokensVerify
    <2>1. SUFFICES ASSUME IdentityInv, TokenInv, SI!Running, taking = None, ~life.torn,
                          idPod.uid = idSandbox.uid
                   PROVE  idSandbox.identity = [key |-> idPod.key, gen |-> SI!generation]
      BY Zenon DEF SI!TokensVerify
    <2>2. OwnPod /\ idPod.key # None
      BY <2>1, Zenon DEF SI!Running, OwnPod
    <2>3. /\ idSandbox.identity # None /\ idSandbox.identity.key = idPod.key
          /\ idSandbox.identity.gen = SI!generation
      BY <2>1, <2>2, Zenon DEF TokenInv, StatusSound
    <2>4. idSandbox.identity =
            [key |-> idSandbox.identity.key, gen |-> idSandbox.identity.gen]
      BY <2>1, <2>3, Zenon DEF TokenInv, RefersSound, IsIdentity
    <2> QED BY <2>3, <2>4, Zenon
  <1> QED BY <1>1, <1>2, <1>3, <1>4, PTL DEF SI!siSpec

-------------------------------------------------------------------------------
(* What LauncherDisk promises of disks and their signatures, for any number   *)
(* of keys, rotations, Jobs and faults.                                       *)

StepType == [op : {"seed", "trust"}, key : KeyIDs \cup {None}, keys : SUBSET KeyIDs]
PlanFields == {"allowed", "seed", "trusted", "steps", "faults"}

(* The keys that an administrator sets up are keys. *)
PlansArePlans ==
  \A p \in Plans :
    DOMAIN p = PlanFields /\ p.trusted \subseteq KeyIDs /\ p.steps \in Seq(StepType)

(* None is neither an image nor a launcher that refuses its disk. *)
NoneIsNone == None # "refused" /\ DOMAIN None # {"disk", "sig"}

JobFields == {"uid", "state", "try", "pod", "reports"}
PodFields == {"step", "marker", "check", "disk", "sig"}
AskerFields == {"pc", "key", "job", "report", "phase", "launcher"}

(* A Pod that found the disk, and a Job that is complete, leave it in the     *)
(* registry; the signature that a Pod waits for is one of the key of its Job. *)
JobSound(k, j) ==
  /\ DOMAIN j = JobFields /\ DOMAIN j.pod = PodFields /\ j.pod.marker \in BOOLEAN
  /\ j.state = "Complete" \/ j.pod.marker => registry[k] # None
  /\ j.pod.step = "push" => j.pod.sig.value = k

(* An asker at work holds a key that is trusted: when the keys change, the    *)
(* operator starts again.                                                     *)
AskerSound(r) ==
  /\ DOMAIN r = AskerFields /\ r.launcher # "refused"
  /\ r.pc # "idle" => r.key \in KeyIDs /\ r.key \in signing.trusted /\ r.phase = "Pending"

SigningSound ==
  /\ DOMAIN signing = {"seed", "trusted", "plan"} /\ DOMAIN signing.plan = PlanFields
  /\ signing.trusted \subseteq KeyIDs /\ signing.plan.steps \in Seq(StepType)

IInv ==
  /\ SigningSound /\ TagIsSigned
  /\ DOMAIN registry = KeyIDs /\ DOMAIN diskJobs = KeyIDs /\ DOMAIN signatures = KeyIDs
  /\ DOMAIN askers = Askers
  /\ \A k \in KeyIDs : diskJobs[k] # None => JobSound(k, diskJobs[k])
  /\ \A k \in KeyIDs : signatures[k] # None => signatures[k].sig.value = k
  /\ \A a \in Askers : AskerSound(askers[a])

(* No disk is there at first. *)
LEMMA InitKeeps ==
  ASSUME PlansArePlans, NoneIsNone, ldInit
  PROVE  IInv
  <1>1. SigningSound
    BY DEF ldInit, PlansArePlans, SigningSound
  <1>2. AskerSound(Asking)
    BY Zenon DEF NoneIsNone, AskerSound, Asking, AskerFields
  <1> QED BY <1>1, <1>2, Zenon DEF ldInit, IInv, TagIsSigned

(* A step of an asker that leaves Jobs, signatures and registry alone. *)
LEMMA AskerKeeps ==
  ASSUME IInv, NEW a \in Askers, NEW r, AskerSound(r), askers' = [askers EXCEPT ![a] = r],
         UNCHANGED <<registry, diskJobs, signatures, signing>>
  PROVE  IInv'
  BY Zenon DEF IInv, AskerSound, JobSound, SigningSound, TagIsSigned, Verify

(* A reconcile that ends. *)
LEMMA EndSound ==
  ASSUME NoneIsNone
  PROVE  \A p : AskerSound([Asking EXCEPT !.phase = p])
  BY Zenon DEF NoneIsNone, AskerSound, Asking, AskerFields

(* It keeps the invariant. *)
LEMMA EndKeeps ==
  ASSUME NoneIsNone, IInv, NEW a \in Askers, NEW p, Ends(a, p),
         UNCHANGED <<registry, diskJobs, signatures, signing>>
  PROVE  IInv'
  BY EndSound, AskerKeeps, Zenon DEF Ends

(* An asker that finds a complete Job makes a Pod whose launcher accepts. *)
LEMMA PodAccepts ==
  ASSUME NoneIsNone, IInv, NEW k \in KeyIDs, registry[k] # None, k \in signing.trusted
  PROVE  VerifyMounted(signing.trusted, k)
  BY Zenon DEF IInv, TagIsSigned, VerifyMounted, Verify, Exists, diskTag

(* The steps of ensureDisk. *)
LEMMA AskingKeeps ==
  ASSUME NoneIsNone, IInv, NEW a \in Askers, ensureDisk(a)
  PROVE  IInv'
  <1>0. AskerSound(askers[a])
    BY Zenon DEF IInv
  <1>1. CASE signingKey(a)
    <2>1. CASE ~signing.plan.allowed
      BY <1>1, <2>1, EndKeeps, Zenon DEF signingKey, diskBuildError
    <2>2. CASE signing.plan.allowed
      <3> DEFINE r == [askers[a] EXCEPT !.pc = "job", !.key = signing.seed]
      <3>1. askers' = [askers EXCEPT ![a] = r]
        BY <1>1, <2>2, Zenon DEF signingKey, IInv
      <3>2. AskerSound(r)
        BY <1>0, <1>1, <2>2, Zenon DEF signingKey, IInv, SigningSound, AskerSound, AskerFields
      <3> HIDE DEF r
      <3> QED BY <1>1, <3>1, <3>2, AskerKeeps, Zenon DEF signingKey
    <2> QED BY <2>1, <2>2, Zenon
  <1>2. CASE getJob(a)
    <2>1. PICK k \in KeyIDs : k = askers[a].key /\ k \in signing.trusted
      BY <1>0, <1>2, Zenon DEF getJob, AskerAt, AskerSound
    <2>2. PICK job : job = diskJobs[k]
      BY Zenon
    <2>3. CASE Ends(a, "Pending") \/ diskBuildError(a)
      BY <1>2, <2>3, EndKeeps, Zenon DEF getJob, diskBuildError
    <2>4. CASE AskerTo(a, "create")
      <3> DEFINE r == [askers[a] EXCEPT !.pc = "create"]
      <3>1. askers' = [askers EXCEPT ![a] = r]
        BY <2>4, Zenon DEF AskerTo, IInv
      <3>2. AskerSound(r)
        BY <1>0, <1>2, Zenon DEF getJob, AskerAt, AskerSound, AskerFields
      <3> HIDE DEF r
      <3> QED BY <1>2, <3>1, <3>2, AskerKeeps, Zenon DEF getJob
    <2>5. CASE createPod(a) /\ job # None /\ job.state = "Complete"
      <3>1. registry[k] # None
        BY <2>2, <2>5, Zenon DEF IInv, JobSound
      <3>2. VerifyMounted(signing.trusted, askers[a].key)
        BY <2>1, <3>1, PodAccepts, Zenon
      <3> DEFINE r == [Asking EXCEPT !.phase = "Created", !.launcher = "runs"]
      <3>3. askers' = [askers EXCEPT ![a] = r]
        BY <2>5, <3>2, Zenon DEF createPod
      <3>4. AskerSound(r)
        BY Zenon DEF AskerSound, Asking, AskerFields
      <3> HIDE DEF r
      <3> QED BY <1>2, <3>3, <3>4, AskerKeeps, Zenon DEF getJob
    <2>6. CASE askers' = [askers EXCEPT ![a].pc = "signature", ![a].job = job.uid]
      <3> DEFINE r == [askers[a] EXCEPT !.pc = "signature", !.job = job.uid]
      <3>1. askers' = [askers EXCEPT ![a] = r]
        BY <2>6, Zenon DEF IInv
      <3>2. AskerSound(r)
        BY <1>0, <1>2, Zenon DEF getJob, AskerAt, AskerSound, AskerFields
      <3> HIDE DEF r
      <3> QED BY <1>2, <3>1, <3>2, AskerKeeps, Zenon DEF getJob
    <2> QED BY <1>2, <2>1, <2>2, <2>3, <2>4, <2>5, <2>6, Zenon DEF getJob
  <1>3. CASE getSignature(a)
    <2>1. CASE Ends(a, "Pending")
      BY <1>3, <2>1, EndKeeps, Zenon DEF getSignature
    <2>2. CASE AskerTo(a, "reports")
      <3> DEFINE r == [askers[a] EXCEPT !.pc = "reports"]
      <3>1. askers' = [askers EXCEPT ![a] = r]
        BY <2>2, Zenon DEF AskerTo, IInv
      <3>2. AskerSound(r)
        BY <1>0, <1>3, Zenon DEF getSignature, AskerAt, AskerSound, AskerFields
      <3> HIDE DEF r
      <3> QED BY <1>3, <3>1, <3>2, AskerKeeps, Zenon DEF getSignature
    <2> QED BY <1>3, <2>1, <2>2, Zenon DEF getSignature
  <1>4. CASE initReports(a)
    <2>1. CASE Ends(a, "Pending")
      BY <1>4, <2>1, EndKeeps, Zenon DEF initReports
    <2>2. CASE \E d : askers' = [askers EXCEPT ![a].pc = "sign", ![a].report = d]
      <3>1. PICK d : askers' = [askers EXCEPT ![a].pc = "sign", ![a].report = d]
        BY <2>2, Zenon
      <3> DEFINE r == [askers[a] EXCEPT !.pc = "sign", !.report = d]
      <3>2. askers' = [askers EXCEPT ![a] = r]
        BY <3>1, Zenon DEF IInv
      <3>3. AskerSound(r)
        BY <1>0, <1>4, Zenon DEF initReports, AskerAt, AskerSound, AskerFields
      <3> HIDE DEF r
      <3> QED BY <1>4, <3>2, <3>3, AskerKeeps, Zenon DEF initReports
    <2> QED BY <1>4, <2>1, <2>2, Zenon DEF initReports
  <1>5. CASE createJob(a)
    <2>1. AskerSound([Asking EXCEPT !.phase = "Pending"])
      BY EndSound, Zenon
    <2>2. askers' = [askers EXCEPT ![a] = [Asking EXCEPT !.phase = "Pending"]]
      BY <1>5, Zenon DEF createJob, Ends
    <2>3. PICK k \in KeyIDs : k = askers[a].key
      BY <1>0, <1>5, Zenon DEF createJob, AskerAt, AskerSound
    <2>4. PICK uid : diskJobs' = diskJobs \/ diskJobs' = [diskJobs EXCEPT ![k] = diskJob(uid)]
      BY <1>5, <2>3, Zenon DEF createJob
    <2>5. JobSound(k, diskJob(uid))
      BY Zenon DEF JobSound, diskJob, NewPod, JobFields, PodFields
    <2>6. UNCHANGED <<registry, signatures, signing>>
      BY <1>5, Zenon DEF createJob
    <2>7. /\ DOMAIN diskJobs' = KeyIDs
          /\ \A q \in KeyIDs : diskJobs'[q] # None => JobSound(q, diskJobs'[q])
      BY <2>4, <2>5, Zenon DEF IInv
    <2>8. DOMAIN askers' = Askers /\ \A b \in Askers : AskerSound(askers'[b])
      BY <2>1, <2>2, Zenon DEF IInv
    <2> QED BY <2>6, <2>7, <2>8, Zenon
        DEF IInv, AskerSound, JobSound, SigningSound, TagIsSigned, Verify
  <1>6. CASE signBuiltDisk(a)
    <2>1. AskerSound([Asking EXCEPT !.phase = "Pending"])
      BY EndSound, Zenon
    <2>2. askers' = [askers EXCEPT ![a] = [Asking EXCEPT !.phase = "Pending"]]
      BY <1>6, Zenon DEF signBuiltDisk, Ends
    <2>3. PICK k \in KeyIDs : k = askers[a].key
      BY <1>0, <1>6, Zenon DEF signBuiltDisk, AskerAt, AskerSound
    <2>4. PICK uid, d : \/ signatures' = signatures
                        \/ signatures' = [signatures EXCEPT ![k] =
                                            [uid |-> uid, sig |-> SignDigest(k, d)]]
      BY <1>6, <2>3, Zenon DEF signBuiltDisk
    <2>5. UNCHANGED <<registry, diskJobs, signing>>
      BY <1>6, Zenon DEF signBuiltDisk
    <2>6. /\ DOMAIN signatures' = KeyIDs
          /\ \A q \in KeyIDs : signatures'[q] # None => signatures'[q].sig.value = q
      BY <2>4 DEF IInv, SignDigest
    <2>7. DOMAIN askers' = Askers /\ \A b \in Askers : AskerSound(askers'[b])
      BY <2>1, <2>2, Zenon DEF IInv
    <2> QED BY <2>5, <2>6, <2>7, Zenon
        DEF IInv, AskerSound, JobSound, SigningSound, TagIsSigned, Verify
  <1> QED BY <1>1, <1>2, <1>3, <1>4, <1>5, <1>6, Zenon DEF ensureDisk

(* The registry only gains disks, and each with a signature of its tag. *)
Pushes ==
  /\ DOMAIN registry' = KeyIDs /\ TagIsSigned'
  /\ \A k \in KeyIDs : registry[k] # None => registry'[k] # None

(* A step of the Pod of a Job. *)
LEMMA JobKeeps ==
  ASSUME IInv, NEW k \in KeyIDs, NEW j, JobSound(k, j) \/ JobSound(k, j)',
         diskJobs' = [diskJobs EXCEPT ![k] = j], registry' = registry \/ Pushes,
         UNCHANGED <<signatures, askers, signing>>
  PROVE  IInv'
  <1>1. Pushes
    BY Zenon DEF IInv, Pushes, TagIsSigned, Verify
  <1>2. JobSound(k, j)'
    BY <1>1, Zenon DEF JobSound, Pushes
  <1>3. ASSUME NEW q \in KeyIDs, diskJobs'[q] # None PROVE JobSound(q, diskJobs[q])'
    <2>1. CASE q = k
      <3>1. diskJobs'[q] = j
        BY <2>1, Zenon DEF IInv
      <3> QED BY <1>2, <2>1, <3>1, Zenon DEF JobSound
    <2>2. CASE q # k
      <3>1. diskJobs'[q] = diskJobs[q]
        BY <2>2, Zenon DEF IInv
      <3>2. JobSound(q, diskJobs[q])
        BY <1>3, <3>1, Zenon DEF IInv
      <3> QED BY <1>1, <3>1, <3>2, Zenon DEF JobSound, Pushes
    <2> QED BY <2>1, <2>2, Zenon
  <1>4. DOMAIN diskJobs' = KeyIDs
    BY Zenon DEF IInv
  <1>5. SigningSound' /\ \A a \in Askers : AskerSound(askers[a])'
    BY Zenon DEF IInv, SigningSound, AskerSound
  <1> QED BY <1>1, <1>3, <1>4, <1>5, Zenon DEF IInv, Pushes

(* A Pod of a Job that fails. *)
LEMMA FailKeeps ==
  ASSUME IInv, NEW k \in KeyIDs, diskJobs[k] # None, PodFails(k),
         registry' = registry \/ Pushes, UNCHANGED <<signatures, askers, signing>>
  PROVE  IInv'
  <1>1. PICK j : j = IF diskJobs[k].try = Backoff THEN [diskJobs[k] EXCEPT !.state = "Failed"]
                     ELSE [diskJobs[k] EXCEPT !.try = @ + 1, !.reports = Built(diskJobs[k]),
                                              !.pod = NewPod]
    BY Zenon
  <1>2. diskJobs' = [diskJobs EXCEPT ![k] = j]
    BY <1>1, Zenon DEF PodFails
  <1>3. JobSound(k, diskJobs[k])
    BY Zenon DEF IInv
  <1>4. JobSound(k, j)
    <2>1. CASE diskJobs[k].try = Backoff
      BY <1>1, <1>3, <2>1, Zenon DEF JobSound, JobFields
    <2>2. CASE diskJobs[k].try # Backoff
      <3>1. DOMAIN j = JobFields /\ j.pod = NewPod /\ j.state = diskJobs[k].state
        BY <1>1, <1>3, <2>2, Zenon DEF JobSound, JobFields
      <3>2. DOMAIN NewPod = PodFields /\ NewPod.marker = FALSE /\ NewPod.step = "check"
        BY Zenon DEF NewPod, PodFields
      <3> QED BY <1>3, <3>1, <3>2, Zenon DEF JobSound
    <2> QED BY <2>1, <2>2, Zenon
  <1> QED BY <1>2, <1>4, JobKeeps, Zenon

(* A Pod of a Job that goes on. *)
LEMMA PodKeeps ==
  ASSUME IInv, NEW k \in KeyIDs, diskJobs[k] # None, NEW pod, SetPod(k, pod),
         DOMAIN pod = PodFields, pod.marker \in BOOLEAN,
         pod.marker => registry[k] # None, pod.step = "push" => pod.sig.value = k,
         UNCHANGED <<registry, signatures, askers, signing>>
  PROVE  IInv'
  <1>1. PICK j : j = [diskJobs[k] EXCEPT !.pod = pod]
    BY Zenon
  <1>2. diskJobs' = [diskJobs EXCEPT ![k] = j]
    BY <1>1, Zenon DEF SetPod, IInv
  <1>3. JobSound(k, diskJobs[k])
    BY Zenon DEF IInv
  <1>4. DOMAIN j = JobFields /\ j.pod = pod /\ j.state = diskJobs[k].state
    BY <1>1, <1>3, Zenon DEF JobSound, JobFields
  <1>5. JobSound(k, j)
    BY <1>3, <1>4, Zenon DEF JobSound
  <1> QED BY <1>2, <1>5, JobKeeps, Zenon

(* The steps of check, build and publish. *)
LEMMA BuildingKeeps ==
  ASSUME NoneIsNone, IInv, NEW k \in KeyIDs, diskJobRuns(k)
  PROVE  IInv'
  <1>1. diskJobs[k] # None
    BY Zenon DEF diskJobRuns, check, build, waitForSignature, Publish, PodAt
  <1>2. PICK pod : pod = diskJobs[k].pod
    BY Zenon
  <1>3. /\ DOMAIN pod = PodFields /\ pod.marker \in BOOLEAN
        /\ pod.marker => registry[k] # None
        /\ pod.step = "push" => pod.sig.value = k
        /\ DOMAIN diskJobs[k] = JobFields
    BY <1>1, <1>2, Zenon DEF IInv, JobSound
  <1>4. ASSUME diskJobs' = [diskJobs EXCEPT ![k].state = "Complete"], Pushes,
               registry'[k] # None, UNCHANGED <<signatures, askers, signing>>
        PROVE  IInv'
    <2>1. PICK j : j = [diskJobs[k] EXCEPT !.state = "Complete"]
      BY Zenon
    <2>2. diskJobs' = [diskJobs EXCEPT ![k] = j]
      BY <1>4, <2>1, Zenon DEF IInv
    <2>3. DOMAIN j = JobFields /\ j.pod = pod
      BY <1>2, <1>3, <2>1, Zenon DEF JobFields
    <2>4. JobSound(k, j)'
      BY <1>3, <1>4, <2>3, Zenon DEF JobSound
    <2> QED BY <1>4, <2>2, <2>4, JobKeeps, Zenon
  <1>5. CASE check(k)
    <2>1. CASE PodFails(k)
      BY <1>1, <1>5, <2>1, FailKeeps, Zenon DEF check
    <2>2. CASE SetPod(k, [pod EXCEPT !.step = "build", !.marker = Exists(k), !.check = Exists(k)])
      <3>1. PICK new : new = [pod EXCEPT !.step = "build", !.marker = Exists(k),
                                         !.check = Exists(k)]
        BY Zenon
      <3>2. DOMAIN new = PodFields /\ new.marker = (registry[k] # None) /\ new.step = "build"
        BY <1>3, <3>1, Zenon DEF PodFields, Exists, diskTag
      <3> QED BY <1>1, <1>5, <2>2, <3>1, <3>2, PodKeeps, Zenon DEF check
    <2> QED BY <1>2, <1>5, <2>1, <2>2, Zenon DEF check
  <1>6. CASE build(k)
    <2>1. CASE PodFails(k)
      BY <1>1, <1>6, <2>1, FailKeeps, Zenon DEF build
    <2>2. CASE \E d : SetPod(k, [pod EXCEPT !.step = "publish", !.disk = d])
      <3>1. PICK d : SetPod(k, [pod EXCEPT !.step = "publish", !.disk = d])
        BY <2>2, Zenon
      <3>2. PICK new : new = [pod EXCEPT !.step = "publish", !.disk = d]
        BY Zenon
      <3>3. DOMAIN new = PodFields /\ new.marker = pod.marker /\ new.step = "publish"
        BY <1>3, <3>2, Zenon DEF PodFields
      <3> QED BY <1>1, <1>3, <1>6, <3>1, <3>2, <3>3, PodKeeps, Zenon DEF build
    <2> QED BY <1>2, <1>6, <2>1, <2>2, Zenon DEF build
  <1>7. CASE waitForSignature(k)
    <2>1. CASE PodFails(k)
      BY <1>1, <1>7, <2>1, FailKeeps, Zenon DEF waitForSignature
    <2>2. CASE pod.marker /\ diskJobs' = [diskJobs EXCEPT ![k].state = "Complete"]
      <3>1. registry' = registry /\ UNCHANGED <<signatures, askers, signing>>
        BY <1>7, Zenon DEF waitForSignature
      <3>2. Pushes
        BY <3>1, Zenon DEF IInv, Pushes, TagIsSigned, Verify
      <3> QED BY <1>3, <1>4, <2>2, <3>1, <3>2, Zenon
    <2>3. CASE /\ signatures[k] # None
               /\ SetPod(k, [pod EXCEPT !.step = "push", !.sig = signatures[k].sig])
      <3>1. PICK new : new = [pod EXCEPT !.step = "push", !.sig = signatures[k].sig]
        BY Zenon
      <3>2. DOMAIN new = PodFields /\ new.marker = pod.marker /\ new.sig = signatures[k].sig
        BY <1>3, <3>1, Zenon DEF PodFields
      <3>3. new.sig.value = k
        BY <2>3, <3>2, Zenon DEF IInv
      <3> QED BY <1>1, <1>3, <1>7, <2>3, <3>1, <3>2, <3>3, PodKeeps, Zenon DEF waitForSignature
    <2> QED BY <1>2, <1>7, <2>1, <2>2, <2>3, Zenon DEF waitForSignature
  <1>8. CASE Publish(k)
    <2> DEFINE pushed == IF Exists(k) THEN registry
                         ELSE [registry EXCEPT ![k] = diskImage(pod.disk, pod.sig)]
    <2>1. CASE registry' = registry /\ PodFails(k)
      BY <1>1, <1>8, <2>1, FailKeeps, Zenon DEF Publish
    <2>2. ASSUME registry' = pushed, pod.sig.imageDigest = ImageDigest,
                 pod.sig.diskSHA256 = pod.disk
          PROVE  Pushes /\ registry'[k] # None
      <3>1. CASE Exists(k)
        BY <2>2, <3>1, Zenon DEF Exists, diskTag, IInv, Pushes, TagIsSigned, Verify
      <3>2. CASE ~Exists(k)
        <4>1. registry' = [registry EXCEPT ![k] = diskImage(pod.disk, pod.sig)]
          BY <2>2, <3>2, Zenon
        <4>2. DOMAIN registry' = KeyIDs /\ registry'[k] = diskImage(pod.disk, pod.sig)
              /\ \A q \in KeyIDs \ {k} : registry'[q] = registry[q]
          BY <4>1, Zenon DEF IInv
        <4>3. diskImage(pod.disk, pod.sig) # None
          BY Zenon DEF diskImage, NoneIsNone
        <4>4. pod.sig.value = k
          BY <1>2, <1>3, <1>8, Zenon DEF Publish, PodAt
        <4>5. Verify({k}, registry'[k].sig, registry'[k].disk)
          BY <2>2, <4>2, <4>4 DEF Verify, diskImage
        <4>6. \A q \in KeyIDs \ {k} :
                registry'[q] # None => Verify({q}, registry'[q].sig, registry'[q].disk)
          BY <4>2, Zenon DEF IInv, TagIsSigned
        <4>7. TagIsSigned'
          BY <4>5, <4>6, Zenon DEF TagIsSigned, Verify
        <4> QED BY <4>2, <4>3, <4>7, Zenon DEF Pushes
      <3> QED BY <3>1, <3>2, Zenon
    <2>3. CASE /\ pod.sig.imageDigest = ImageDigest /\ pod.sig.diskSHA256 = pod.disk
               /\ registry' = pushed /\ diskJobs' = [diskJobs EXCEPT ![k].state = "Complete"]
      BY <1>4, <1>8, <2>2, <2>3, Zenon DEF Publish
    <2>4. CASE /\ pod.sig.imageDigest = ImageDigest /\ pod.sig.diskSHA256 = pod.disk
               /\ registry' = pushed /\ PodFails(k)
      BY <1>1, <1>8, <2>2, <2>4, FailKeeps, Zenon DEF Publish
    <2> QED BY <1>2, <1>8, <2>1, <2>3, <2>4, Zenon DEF Publish, diskTag
  <1> QED BY <1>5, <1>6, <1>7, <1>8, Zenon DEF diskJobRuns

(* The cluster and its administrator. *)
LEMMA OthersKeep ==
  ASSUME NoneIsNone, IInv,
         \/ \E k \in KeyIDs : jobExpires(k) \/ collect(k)
         \/ administrate \/ UNCHANGED ldVars
  PROVE  IInv'
  <1>1. ASSUME NEW k \in KeyIDs, jobExpires(k) PROVE IInv'
    <2>1. /\ DOMAIN diskJobs' = KeyIDs
          /\ \A q \in KeyIDs : diskJobs'[q] # None => diskJobs'[q] = diskJobs[q]
      BY <1>1, Zenon DEF jobExpires, IInv
    <2> QED BY <1>1, <2>1, Zenon
        DEF jobExpires, IInv, AskerSound, JobSound, SigningSound, TagIsSigned, Verify
  <1>2. ASSUME NEW k \in KeyIDs, collect(k) PROVE IInv'
    <2>1. /\ DOMAIN signatures' = KeyIDs
          /\ \A q \in KeyIDs : signatures'[q] # None => signatures'[q] = signatures[q]
      BY <1>2, Zenon DEF collect, IInv
    <2> QED BY <1>2, <2>1, Zenon
        DEF collect, IInv, AskerSound, JobSound, SigningSound, TagIsSigned, Verify
  <1>3. CASE administrate
    <2>1. PICK steps : steps = signing.plan.steps
      BY Zenon
    <2>2. steps \in Seq(StepType) /\ steps # <<>>
      BY <1>3, <2>1, Zenon DEF administrate, IInv, SigningSound
    <2>3. Head(steps) \in StepType /\ Tail(steps) \in Seq(StepType)
      BY <2>2
    <2>4. PICK rest : rest = [signing EXCEPT !.plan.steps = Tail(@)]
      BY Zenon
    <2>5. /\ DOMAIN rest = {"seed", "trusted", "plan"} /\ DOMAIN rest.plan = PlanFields
          /\ rest.trusted = signing.trusted /\ rest.plan.steps = Tail(steps)
      BY <2>1, <2>4, Zenon DEF IInv, SigningSound, PlanFields
    <2>6. UNCHANGED <<registry, diskJobs, signatures>>
      BY <1>3, Zenon DEF administrate
    <2>7. CASE \E x : signing' = [rest EXCEPT !.seed = x] /\ askers' = askers
      <3>1. /\ DOMAIN signing' = {"seed", "trusted", "plan"} /\ signing'.plan = rest.plan
            /\ signing'.trusted = signing.trusted
        BY <2>5, <2>7, Zenon
      <3>2. SigningSound'
        BY <2>3, <2>5, <3>1, Zenon DEF IInv, SigningSound
      <3>3. \A a \in Askers : AskerSound(askers[a])'
        BY <2>7, <3>1, Zenon DEF IInv, AskerSound
      <3> QED BY <2>6, <2>7, <3>2, <3>3, Zenon DEF IInv, JobSound, TagIsSigned, Verify
    <2>8. CASE /\ signing' = [rest EXCEPT !.trusted = Head(steps).keys]
               /\ askers' = [a \in Askers |->
                    IF askers[a].phase = "Pending" THEN Asking ELSE askers[a]]
      <3>1. /\ DOMAIN signing' = {"seed", "trusted", "plan"} /\ signing'.plan = rest.plan
            /\ signing'.trusted \subseteq KeyIDs
        BY <2>3, <2>5, <2>8, Zenon DEF StepType
      <3>2. SigningSound'
        BY <2>3, <2>5, <3>1, Zenon DEF SigningSound
      <3>3. ASSUME NEW a \in Askers PROVE AskerSound(askers[a])'
        <4>1. CASE askers[a].phase = "Pending"
          <5>1. askers'[a] = Asking
            BY <2>8, <4>1, Zenon
          <5> QED BY <5>1 DEF AskerSound, Asking, AskerFields, NoneIsNone
        <4>2. CASE askers[a].phase # "Pending"
          <5>1. askers'[a] = askers[a] /\ AskerSound(askers[a])
            BY <2>8, <4>2, Zenon DEF IInv
          <5> QED BY <4>2, <5>1, Zenon DEF AskerSound
        <4> QED BY <4>1, <4>2, Zenon
      <3>4. DOMAIN askers' = Askers
        BY <2>8, Zenon
      <3> QED BY <2>6, <3>2, <3>3, <3>4, Zenon DEF IInv, JobSound, TagIsSigned, Verify
    <2> QED BY <1>3, <2>1, <2>4, <2>7, <2>8, Zenon DEF administrate
  <1>4. CASE UNCHANGED ldVars
    BY <1>4, Zenon DEF ldVars, IInv, AskerSound, JobSound, SigningSound, TagIsSigned, Verify
  <1> QED BY <1>1, <1>2, <1>3, <1>4, Zenon

(* The disk under the tag of a key carries a signature of that key, and a     *)
(* launcher whose operator found the disk ready accepts it, through any       *)
(* number of rotations, repeated Jobs and faults (ensureDisk, signBuiltDisk,  *)
(* Publish, VerifyMounted).                                                   *)
THEOREM DisksSafe ==
  ASSUME PlansArePlans, NoneIsNone
  PROVE  ldSpec => [](TagIsSigned /\ DiskAccepted)
  <1>1. ldInit => IInv
    BY InitKeeps, Zenon
  <1>2. IInv /\ [ldNext]_ldVars => IInv'
    BY AskingKeeps, BuildingKeeps, OthersKeep, Zenon DEF ldNext
  <1>3. IInv => TagIsSigned /\ DiskAccepted
    BY Zenon DEF IInv, AskerSound, DiskAccepted
  <1> QED BY <1>1, <1>2, <1>3, PTL DEF ldSpec

-------------------------------------------------------------------------------
(* What NodeDialer promises of a call, for any number of controllers,         *)
(* connections, restarts, new Pods and cuts of the network.                   *)
CONSTANTS Callers, ConnIDs, Situations
VARIABLES agent, seen, cached, conns, callers, left
ND == INSTANCE NodeDialer

CallFields == {"pc", "key", "conn", "end", "runs", "cut"}
Unsent == {"resolve", "dial", "ready", "send"}

(* A call that was not sent has not run, and no controller and no cache knows *)
(* of a Pod that is not there yet.                                            *)
CallSound(r) ==
  /\ DOMAIN r = CallFields
  /\ r.pc \in Unsent \cup {"sent", "end"}
  /\ r.runs \in {0, 1} /\ (r.pc \in Unsent => r.runs = 0)
  /\ r.cut = FALSE
  /\ r.key \in Nat /\ r.key <= agent.pod

CallInv ==
  /\ agent.pod \in Nat /\ seen.pod \in Nat /\ seen.pod <= agent.pod
  /\ DOMAIN callers = Callers
  /\ \A c \in Callers : CallSound(callers[c])

(* Of the calls, only that of c gets another record. *)
Steps(c, r) == callers' = [callers EXCEPT ![c] = r]

(* A step of one call that leaves the node agent alone. *)
LEMMA CallStep ==
  ASSUME CallInv, NEW c \in Callers, NEW r, CallSound(r), Steps(c, r),
         UNCHANGED <<agent, seen>>
  PROVE  CallInv'
  BY Zenon DEF CallInv, CallSound, Steps

(* A call that ends, with an outage only when it was not sent. *)
LEMMA CallEnded ==
  ASSUME CallInv, NEW c \in Callers, NEW e, e = "outage" => callers[c].pc \in Unsent
  PROVE  CallSound(ND!Ended(c, e))
  BY DEF CallInv, CallSound, ND!Ended, ND!nodeAgentUnavailable, CallFields, Unsent

(* A connection that breaks under its calls ends those that were sent. *)
LEMMA BrokenSound ==
  ASSUME CallInv, NEW lost
  PROVE  /\ DOMAIN ND!Broken(lost, FALSE) = Callers
         /\ \A c \in Callers : CallSound(ND!Broken(lost, FALSE)[c])
  <1> SUFFICES ASSUME NEW c \in Callers PROVE CallSound(ND!Broken(lost, FALSE)[c])
    BY Zenon DEF ND!Broken
  <1>1. CallSound(ND!Ended(c, "broken"))
    BY CallEnded, Zenon
  <1>2. CallSound([ND!Ended(c, "broken") EXCEPT !.cut = FALSE])
    BY <1>1, Zenon DEF CallSound, CallFields, Unsent
  <1>3. CallSound(callers[c])
    BY Zenon DEF CallInv
  <1> QED BY <1>2, <1>3, Zenon DEF ND!Broken

(* Such a break, also with a new Pod of the node agent, keeps the invariant. *)
LEMMA BreakKeeps ==
  ASSUME CallInv, NEW lost, callers' = ND!Broken(lost, FALSE), seen' = seen,
         agent'.pod \in Nat, agent.pod <= agent'.pod
  PROVE  CallInv'
  <1>1. DOMAIN callers' = Callers
    BY BrokenSound, Zenon
  <1>2. ASSUME NEW c \in Callers PROVE CallSound(callers[c])'
    <2>1. CallSound(callers'[c])
      BY BrokenSound, Zenon
    <2>2. callers'[c].key \in Nat /\ callers'[c].key <= agent'.pod
      <3>1. callers'[c].key \in Nat /\ callers'[c].key <= agent.pod
        BY <2>1, Zenon DEF CallSound
      <3>2. agent.pod \in Nat
        BY Zenon DEF CallInv
      <3>3. \A x, y, z \in Nat : x <= y /\ y <= z => x <= z
        OBVIOUS
      <3> QED BY <3>1, <3>2, <3>3, Zenon
    <2> QED BY <2>1, <2>2, Zenon DEF CallSound
  <1>3. seen'.pod \in Nat /\ seen'.pod <= agent'.pod
    BY DEF CallInv
  <1> QED BY <1>1, <1>2, <1>3, Zenon DEF CallInv

(* Each step of a controller keeps the invariant. *)
LEMMA CallerKeeps ==
  ASSUME CallInv, NEW c \in Callers, ND!CallerStep(c) \/ ND!contextEnds(c)
  PROVE  CallInv'
  <1>0. CallSound(callers[c])
    BY Zenon DEF CallInv
  <1>1. CASE ND!ResolveNodeAgentPod(c)
    <2>1. CASE seen.ready
      <3>1. CallSound([callers[c] EXCEPT !.pc = "dial", !.key = seen.pod])
        BY <1>0, <1>1, Zenon DEF ND!ResolveNodeAgentPod, CallInv, CallSound, CallFields, Unsent
      <3>2. Steps(c, [callers[c] EXCEPT !.pc = "dial", !.key = seen.pod])
        BY <1>1, <2>1, Zenon DEF ND!ResolveNodeAgentPod, Steps
      <3> QED BY <1>1, <3>1, <3>2, CallStep, Zenon DEF ND!ResolveNodeAgentPod
    <2>2. CASE ~seen.ready
      <3>1. CallSound(ND!Ended(c, "outage"))
        BY <1>1, CallEnded, Zenon DEF ND!ResolveNodeAgentPod, Unsent
      <3> QED BY <1>1, <2>2, <3>1, CallStep, Zenon DEF ND!ResolveNodeAgentPod, Steps, ND!End
    <2> QED BY <2>1, <2>2, Zenon
  <1>2. CASE ND!Dial(c)
    <2>1. CASE cached # None /\ ND!connCacheKey(cached, callers[c].key)
      <3>1. CallSound([callers[c] EXCEPT !.pc = "ready", !.conn = cached])
        BY <1>0, <1>2, Zenon DEF ND!Dial, CallSound, CallFields, Unsent
      <3>2. Steps(c, [callers[c] EXCEPT !.pc = "ready", !.conn = cached])
        BY <1>2, <2>1, Zenon DEF ND!Dial, Steps
      <3> QED BY <1>2, <3>1, <3>2, CallStep, Zenon DEF ND!Dial
    <2>2. CASE ~(cached # None /\ ND!connCacheKey(cached, callers[c].key))
      <3> DEFINE gone == {cached} \ {None}
                 i == CHOOSE n \in ConnIDs : ND!Unused(n)
                 cut == \E n \in gone : conns[n].pod = agent.pod /\ callers[c].key >= conns[n].pod
      <3>1. cut = FALSE
        BY <1>0, <2>2 DEF ND!connCacheKey, CallInv, CallSound
      <3>2. callers' = [ND!Broken(gone, cut) EXCEPT ![c].pc = "ready", ![c].conn = i]
        BY <1>2, <2>2, Zenon DEF ND!Dial
      <3>3. callers' = [ND!Broken(gone, FALSE) EXCEPT ![c].pc = "ready", ![c].conn = i]
        BY <3>1, <3>2, Zenon
      <3>4. ND!Broken(gone, FALSE)[c] = callers[c]
        BY <1>2, Zenon DEF ND!Dial, ND!Broken
      <3>5. CallSound([callers[c] EXCEPT !.pc = "ready", !.conn = i])
        BY <1>0, <1>2, Zenon DEF ND!Dial, CallSound, CallFields, Unsent
      <3> HIDE DEF gone, i, cut
      <3>6. callers' = [ND!Broken(gone, FALSE) EXCEPT
                          ![c] = [callers[c] EXCEPT !.pc = "ready", !.conn = i]]
        <4>1. DOMAIN ND!Broken(gone, FALSE) = Callers
          BY BrokenSound, Zenon
        <4> DEFINE B == ND!Broken(gone, FALSE)
        <4> HIDE DEF B
        <4> QED BY <3>3, <3>4, <4>1, Zenon DEF B
      <3>7. DOMAIN callers' = Callers /\ \A d \in Callers : CallSound(callers'[d])
        <4>1. /\ DOMAIN ND!Broken(gone, FALSE) = Callers
              /\ \A d \in Callers : CallSound(ND!Broken(gone, FALSE)[d])
          BY BrokenSound, Zenon
        <4> DEFINE B == ND!Broken(gone, FALSE)
                   r == [callers[c] EXCEPT !.pc = "ready", !.conn = i]
        <4>2. DOMAIN B = Callers /\ (\A d \in Callers : CallSound(B[d])) /\ CallSound(r)
              /\ callers' = [B EXCEPT ![c] = r]
          BY <3>5, <3>6, <4>1, Zenon
        <4> HIDE DEF B, r
        <4> QED BY <4>2, Zenon
      <3>8. UNCHANGED <<agent, seen>>
        BY <1>2, Zenon DEF ND!Dial
      <3> QED BY <3>7, <3>8, Zenon DEF CallInv, CallSound
    <2> QED BY <2>1, <2>2, Zenon
  <1>3. CASE ND!connect(c)
    BY <1>3, Zenon DEF ND!connect, CallInv, CallSound
  <1>4. CASE ND!ready(c)
    <2>1. CASE ND!ConnOf(c).state = "ready"
      <3>1. CallSound([callers[c] EXCEPT !.pc = "send"])
        BY <1>0, <1>4, Zenon DEF ND!ready, CallSound, CallFields, Unsent
      <3>2. Steps(c, [callers[c] EXCEPT !.pc = "send"])
        BY <1>4, <2>1, Zenon DEF ND!ready, ND!Goto, Steps
      <3> QED BY <1>4, <3>1, <3>2, CallStep, Zenon DEF ND!ready
    <2>2. CASE ND!ConnOf(c).state # "ready"
      <3>1. CallSound(ND!Ended(c, ND!notReady(c)))
        BY <1>4, CallEnded, Zenon DEF ND!ready, Unsent
      <3> QED BY <1>4, <2>2, <3>1, CallStep, Zenon DEF ND!ready, Steps, ND!End
    <2> QED BY <2>1, <2>2, Zenon
  <1>5. CASE ND!send(c)
    <2>1. CASE callers' = [callers EXCEPT ![c].pc = "sent", ![c].runs = @ + 1]
      <3>1. CallSound([callers[c] EXCEPT !.pc = "sent", !.runs = @ + 1])
        BY <1>0, <1>5 DEF ND!send, CallSound, CallFields, Unsent
      <3>2. Steps(c, [callers[c] EXCEPT !.pc = "sent", !.runs = @ + 1])
        BY <2>1, Zenon DEF Steps
      <3> QED BY <1>5, <3>1, <3>2, CallStep, Zenon DEF ND!send
    <2>2. CASE ND!End(c, "broken")
      BY <1>5, <2>2, CallEnded, CallStep, Zenon DEF ND!send, Steps, ND!End
    <2> QED BY <1>5, <2>1, <2>2, Zenon DEF ND!send
  <1>6. CASE ND!reply(c)
    BY <1>6, CallEnded, CallStep, Zenon DEF ND!reply, Steps, ND!End
  <1>7. CASE ND!contextEnds(c)
    BY <1>7, CallEnded, CallStep, Zenon DEF ND!contextEnds, Steps, ND!End
  <1> QED BY <1>1, <1>2, <1>3, <1>4, <1>5, <1>6, <1>7, Zenon DEF ND!CallerStep

(* So does each step of gRPC, of the node agent and of the informer. *)
LEMMA AgentKeeps ==
  ASSUME CallInv,
         \/ \E i \in ConnIDs : ND!ConnStep(i) \/ ND!reset(i)
         \/ ND!restarts \/ ND!isReplaced \/ ND!listens \/ ND!observed \/ UNCHANGED ND!ndVars
  PROVE  CallInv'
  <1>2. CASE \E i \in ConnIDs : ND!ConnStep(i)
    BY <1>2, Zenon DEF ND!ConnStep, ND!attempt, ND!Read, CallInv, CallSound
  <1>3. CASE \E i \in ConnIDs : ND!reset(i)
    <2>1. PICK i \in ConnIDs : ND!reset(i)
      BY <1>3, Zenon
    <2>2. callers' = ND!Broken({i}, FALSE) /\ seen' = seen /\ agent' = agent
      BY <2>1, Zenon DEF ND!reset
    <2>3. agent'.pod \in Nat /\ agent.pod <= agent'.pod
      BY <2>2 DEF CallInv
    <2> QED BY <2>2, <2>3, BreakKeeps, Zenon
  <1>4. CASE ND!restarts
    <2>1. PICK tls : ND!agentStops(agent.pod, tls)
      BY <1>4, Zenon DEF ND!restarts
    <2> DEFINE lost == {i \in ConnIDs : conns[i].state = "ready"}
    <2>2. callers' = ND!Broken(lost, FALSE) /\ seen' = seen
      BY <2>1, Zenon DEF ND!agentStops
    <2>3. agent'.pod \in Nat /\ agent.pod <= agent'.pod
      BY <2>1 DEF ND!agentStops, CallInv
    <2> HIDE DEF lost
    <2> QED BY <2>2, <2>3, BreakKeeps, Zenon
  <1>5. CASE ND!isReplaced
    <2>1. ND!agentStops(agent.pod + 1, agent.tls)
      BY <1>5, Zenon DEF ND!isReplaced
    <2> DEFINE lost == {i \in ConnIDs : conns[i].state = "ready"}
    <2>2. callers' = ND!Broken(lost, FALSE) /\ seen' = seen
      BY <2>1, Zenon DEF ND!agentStops
    <2>3. agent'.pod \in Nat /\ agent.pod <= agent'.pod
      BY <2>1 DEF ND!agentStops, CallInv
    <2> HIDE DEF lost
    <2> QED BY <2>2, <2>3, BreakKeeps, Zenon
  <1>6. CASE ND!listens
    <2>1. agent'.pod = agent.pod
      BY <1>6 DEF ND!listens
    <2> QED BY <1>6, <2>1, Zenon DEF ND!listens, CallInv, CallSound
  <1>7. CASE ND!observed
    BY <1>7 DEF ND!observed, CallInv, CallSound
  <1>8. CASE UNCHANGED ND!ndVars
    BY <1>8, Zenon DEF ND!ndVars, CallInv, CallSound
  <1> QED BY <1>2, <1>3, <1>4, <1>5, <1>6, <1>7, <1>8, Zenon

(* The calls begin, and nothing was sent. *)
LEMMA CallInit == ND!ndInit => CallInv
  BY DEF ND!ndInit, CallInv, CallSound, CallFields, Unsent

(* A call that reached the node agent is never sent again, and a Dial of a    *)
(* controller that knows the newest Pod cuts no call of another one to it     *)
(* (dialer.go): for any number of controllers, connections and restarts.      *)
THEOREM CallsSafe == ND!ndSpec => [](ND!RunsOnce /\ ND!CutOnlyByOlder)
  <1>1. CallInv /\ [ND!ndNext]_(ND!ndVars) => CallInv'
    BY CallerKeeps, AgentKeeps, Zenon DEF ND!ndNext
  <1>2. CallInv => ND!RunsOnce /\ ND!CutOnlyByOlder
    BY DEF CallInv, CallSound, ND!RunsOnce, ND!CutOnlyByOlder
  <1> QED BY CallInit, <1>1, <1>2, PTL DEF ND!ndSpec
===============================================================================
