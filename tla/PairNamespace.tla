---------------------------- MODULE PairNamespace ----------------------------
(* Who may call the frontend and where its Sandboxes go:                      *)
(* internal/frontend/auth.go, namespaces.go and the scope checks and Launch   *)
(* of service.go, with internal/tenancy/identity.go.  Replicas of the         *)
(* frontend make the namespace of a pair (client, tenant) on its first call,  *)
(* while API calls fail, replicas restart and administrators make and delete  *)
(* namespaces.                                                                *)
EXTENDS Naturals, Sequences

CONSTANTS Replicas,  \* processes of the frontend
          Users,     \* concurrent callers
          Tenants, Clients,
          Grants,    \* NamespaceProvisioner.Grants
          Cases,     \* enrollment, callers, foreign namespaces and budgets
          None

VARIABLES
  case,        \* what Init chose, with what is left of its budgets
  enrollment,  \* Enrollment.byID, or None when the frontend refused to start
  namespaces,  \* the Namespace with the name of each pair, or None
  readyNs,     \* NamespaceProvisioner.ready of each replica
  users,       \* each caller: where its call is, and what it read
  touched      \* <<caller, owner>> of every call that worked on a Sandbox

pnVars == <<case, enrollment, namespaces, readyNs, users, touched>>

Pairs == [client : Clients, tenant : Tenants]

-----------------------------------------------------------------------------
(* The list of clients is usable: it is not empty, and no name and no SPIFFE  *)
(* ID is in it twice.                                                         *)
ParseEnrollment(entries) ==
  /\ entries # <<>>
  /\ \A i, j \in DOMAIN entries :
       i # j => entries[i].name # entries[j].name /\ entries[i].id # entries[j].id

byID(entries) ==
  [id \in {entries[i].id : i \in DOMAIN entries} |->
     (CHOOSE e \in {entries[i] : i \in DOMAIN entries} : e.id = id).name]

(* A new Namespace with the labels of an owner.                               *)
Owned(labels) == [labels |-> labels, deleting |-> FALSE, grants |-> {}, sandboxes |-> {}]

pnInit ==
  /\ case \in Cases
  /\ enrollment = IF ParseEnrollment(case.entries) THEN byID(case.entries) ELSE None
  /\ namespaces = [p \in Pairs |-> None]
  /\ readyNs = [r \in Replicas |-> {}]
  /\ users = [u \in Users |-> [pc |-> "call", at |-> None, pair |-> None, ns |-> None, ensured |-> {}]]
  /\ touched = {}

-----------------------------------------------------------------------------
Request(u) == case.requests[u]

At(u, l) == users[u].pc = l

Goto(u, l) == users' = [users EXCEPT ![u].pc = l]

Ends(u, l) == users' = [users EXCEPT ![u] = [pc |-> l, at |-> None, pair |-> None, ns |-> None, ensured |-> {}]]

(* An error of the API server goes back to the caller, which calls again.     *)
Fault(u) ==
  /\ case.faults > 0
  /\ case' = [case EXCEPT !.faults = @ - 1]
  /\ Ends(u, "call")
  /\ UNCHANGED <<enrollment, namespaces, readyNs, touched>>

NewPair(client, tenant) == [client |-> client, tenant |-> tenant]

(* The SPIFFE ID of the certificate names the client, the request names the   *)
(* tenant; anyone who is not enrolled, or names no tenant, is refused.        *)
resolveCallerNamespace(u) ==
  /\ At(u, "call") /\ enrollment # None
  /\ IF Request(u).id \notin DOMAIN enrollment \/ Request(u).tenant \notin Tenants
       THEN Ends(u, "refused")
       ELSE \E r \in Replicas :
              users' = [users EXCEPT ![u].pc = "cache", ![u].at = r,
                          ![u].pair = NewPair(enrollment[Request(u).id], Request(u).tenant)]
  /\ UNCHANGED <<case, enrollment, namespaces, readyNs, touched>>

Pair(u) == users[u].pair

Namespace(u) == namespaces[Pair(u)]

(* NamespaceFor: the name of a namespace that is ready is known at once.      *)
cacheHit(u) ==
  /\ At(u, "cache")
  /\ Goto(u, IF Pair(u) \in readyNs[users[u].at] THEN "work" ELSE "get")
  /\ UNCHANGED <<case, enrollment, namespaces, readyNs, touched>>

Read(u) == users' = [users EXCEPT ![u].pc = "check", ![u].ns = Namespace(u)]

(* Otherwise the namespace is read, made when it is not there, and read again *)
(* when another made it meanwhile.                                            *)
getNamespace(u) ==
  /\ At(u, "get")
  /\ \/ /\ IF Namespace(u) = None THEN Goto(u, "create") ELSE Read(u)
        /\ UNCHANGED <<case, enrollment, namespaces, readyNs, touched>>
     \/ Fault(u)

createNamespace(u) ==
  /\ At(u, "create")
  /\ \/ /\ Namespace(u) = None
        /\ namespaces' = [namespaces EXCEPT ![Pair(u)] = Owned(Pair(u))]
        /\ users' = [users EXCEPT ![u].pc = "check", ![u].ns = namespaces'[Pair(u)]]
        /\ UNCHANGED <<case, enrollment, readyNs, touched>>
     \/ /\ Namespace(u) # None
        /\ Goto(u, "again")
        /\ UNCHANGED <<case, enrollment, namespaces, readyNs, touched>>
     \/ Fault(u)

getAgain(u) ==
  /\ At(u, "again")
  /\ \/ /\ IF Namespace(u) = None THEN Ends(u, "call") ELSE Read(u)
        /\ UNCHANGED <<case, enrollment, namespaces, readyNs, touched>>
     \/ Fault(u)

(* The labels record the pair as the owner.                                   *)
IsOwnerOf(p, labels) == labels = p

(* A namespace with other labels is refused, never adopted; one that is being *)
(* deleted is an error.                                                       *)
checkNamespace(u) ==
  /\ At(u, "check")
  /\ CASE ~IsOwnerOf(Pair(u), users[u].ns.labels) -> Ends(u, "refused")
       [] IsOwnerOf(Pair(u), users[u].ns.labels) /\ users[u].ns.deleting -> Ends(u, "call")
       [] OTHER -> Goto(u, "grant")
  /\ UNCHANGED <<case, enrollment, namespaces, readyNs, touched>>

(* Objects can be made in a namespace that is there and not being deleted.    *)
Usable(ns) == IF ns = None THEN FALSE ELSE ~ns.deleting

(* Mutant: a namespace that has one RoleBinding is taken to have them all.    *)
Missing_Partial(u) ==
  IF users[u].ns.grants # {} THEN {} ELSE Grants \ users[u].ensured

(* The grants that this call has still to make, whatever is there.            *)
Missing(u) == Grants \ users[u].ensured

(* ensureGrant creates one RoleBinding; one that is there already is as good  *)
(* as a new one.                                                              *)
ensureGrant(u) ==
  /\ At(u, "grant") /\ Missing(u) # {}
  /\ \/ LET g == CHOOSE g \in Missing(u) : TRUE IN
        /\ IF Usable(Namespace(u))
             THEN /\ namespaces' = [namespaces EXCEPT ![Pair(u)].grants = @ \cup {g}]
                  /\ users' = [users EXCEPT ![u].ensured = @ \cup {g}]
             ELSE /\ Ends(u, "call")
                  /\ UNCHANGED namespaces
        /\ UNCHANGED <<case, enrollment, readyNs, touched>>
     \/ Fault(u)

markReady(u) ==
  /\ At(u, "grant") /\ Missing(u) = {}
  /\ readyNs' = [readyNs EXCEPT ![users[u].at] = @ \cup {Pair(u)}]
  /\ Goto(u, "work")
  /\ UNCHANGED <<case, enrollment, namespaces, touched>>
-----------------------------------------------------------------------------
(* lifecycleFromRequest: a workspace needs a session.                         *)
lifecycleFromRequest(form) == form.workspace => form.mode = "session"

(* The request is one that Launch passes on: a review needs a kept snapshot   *)
(* of the pair, and a new Sandbox a command unless it is a session.           *)
Accepted(u) ==
  LET form == Request(u).form IN
  IF form.review
    THEN Pair(u) \in case.kept
    ELSE lifecycleFromRequest(form) /\ (form.command \/ form.mode = "session")

Sandbox(u) == [id |-> Request(u).id, tenant |-> Request(u).tenant, labels |-> Pair(u)]

(* Launch creates the Sandbox in the namespace of the pair.                   *)
Launch(u) ==
  /\ At(u, "work") /\ Request(u).op = "launch"
  /\ \/ /\ IF Accepted(u)
             THEN IF Usable(Namespace(u))
                    THEN /\ namespaces' = [namespaces EXCEPT ![Pair(u)].sandboxes = @ \cup {Sandbox(u)}]
                         /\ Ends(u, "served")
                    ELSE UNCHANGED namespaces /\ Ends(u, "call")
             ELSE UNCHANGED namespaces /\ Ends(u, "refused")
        /\ UNCHANGED <<case, enrollment, readyNs, touched>>
     \/ Fault(u)

(* The namespace in the sandbox_id must be the one of the pair of the call.   *)
checkTenantNamespace(u) == Pair(u) = Request(u).target

(* Every other call names a Sandbox by its namespace: Wait, Kill, Exec, Fork, *)
(* Keep, Suspend, Resume, StreamLogs, Snapshot.                               *)
Use(u) ==
  /\ At(u, "work") /\ Request(u).op = "use"
  /\ IF checkTenantNamespace(u)
       THEN LET ns == namespaces[Request(u).target] IN
            /\ touched' = touched \cup
                 {<<Request(u), s>> : s \in IF ns = None THEN {} ELSE ns.sandboxes}
            /\ Ends(u, "served")
       ELSE UNCHANGED touched /\ Ends(u, "refused")
  /\ UNCHANGED <<case, enrollment, namespaces, readyNs>>

-----------------------------------------------------------------------------
(* An administrator makes a namespace with the name of a pair, for a use of   *)
(* their own.                                                                 *)
foreignAppears(p) ==
  /\ p \in case.foreign /\ namespaces[p] = None
  /\ case' = [case EXCEPT !.foreign = @ \ {p}]
  /\ namespaces' = [namespaces EXCEPT ![p] = Owned(None)]
  /\ UNCHANGED <<enrollment, readyNs, users, touched>>

(* An administrator deletes a namespace, which goes with what is in it.       *)
deleteNamespace(p) ==
  /\ namespaces[p] # None /\ case.deletes > 0
  /\ ~namespaces[p].deleting
  /\ case' = [case EXCEPT !.deletes = @ - 1, !.deleted = @ \cup {p}]
  /\ namespaces' = [namespaces EXCEPT ![p].deleting = TRUE]
  /\ UNCHANGED <<enrollment, readyNs, users, touched>>

namespaceGoes(p) ==
  /\ namespaces[p] # None
  /\ namespaces[p].deleting
  /\ namespaces' = [namespaces EXCEPT ![p] = None]
  /\ UNCHANGED <<case, enrollment, readyNs, users, touched>>

(* A replica restarts: it forgets what is ready, and its calls fail.          *)
restart(r) ==
  /\ case.restarts > 0
  /\ case' = [case EXCEPT !.restarts = @ - 1]
  /\ readyNs' = [readyNs EXCEPT ![r] = {}]
  /\ users' = [u \in Users |->
       IF users[u].at = r THEN [pc |-> "call", at |-> None, pair |-> None, ns |-> None, ensured |-> {}]
       ELSE users[u]]
  /\ UNCHANGED <<enrollment, namespaces, touched>>

NamespaceFor(u) ==
  \/ cacheHit(u) \/ getNamespace(u) \/ createNamespace(u) \/ getAgain(u)
  \/ checkNamespace(u) \/ ensureGrant(u) \/ markReady(u)

Call(u) == resolveCallerNamespace(u) \/ NamespaceFor(u) \/ Launch(u) \/ Use(u)

pnEnd ==
  /\ enrollment = None \/ \A u \in Users : users[u].pc \in {"served", "refused"}
  /\ UNCHANGED pnVars

pnNext ==
  \/ \E u \in Users : Call(u)
  \/ \E p \in Pairs : foreignAppears(p) \/ deleteNamespace(p) \/ namespaceGoes(p)
  \/ \E r \in Replicas : restart(r)
  \/ pnEnd

pnFairness == \A u \in Users : WF_pnVars(Call(u))

pnSpec == pnInit /\ [][pnNext]_pnVars /\ pnFairness

-----------------------------------------------------------------------------
Deleted(p) == p \in case.deleted

(* "A namespace with the name of the pair and different labels is refused,    *)
(* never adopted" (namespaces.go), also when it appears between the two reads *)
(* of NamespaceFor: no Sandbox of a pair is in a namespace that is not its    *)
(* own, unless the namespace was deleted after a replica knew it as ready.    *)
NeverAdopted ==
  \A p \in Pairs : namespaces[p] # None => \A s \in namespaces[p].sandboxes :
     s.labels = namespaces[p].labels \/ Deleted(p)

(* The operator can write the Pod of every Sandbox and the frontend can enter *)
(* it: whichever replica made the namespace and whatever failed in between,   *)
(* Launch creates no Sandbox before every RoleBinding is there.               *)
GrantsFirst ==
  \A p \in Pairs : namespaces[p] # None =>
     (namespaces[p].sandboxes = {} \/ namespaces[p].grants = Grants \/ Deleted(p))

(* A call works only on Sandboxes that the same client cluster, known by its  *)
(* SPIFFE ID, launched for the same tenant (checkTenantNamespace).            *)
OwnerOnly ==
  \A t \in touched : t[1].id = t[2].id /\ t[1].tenant = t[2].tenant

Answered ==
  enrollment # None /\ case.deleted = {} =>
    \A u \in Users : users[u].pc \in {"served", "refused"}

(* A call is answered once the API server answers: a namespace that an        *)
(* earlier call left half made is finished by the next.  Excused: a namespace *)
(* that was deleted after a replica knew it as ready.                         *)
LaunchServed == []<>Answered
=============================================================================
