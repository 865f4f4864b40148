---------------------------- MODULE SCCRoleCache ----------------------------
(***************************************************************************)
(* The cache from roles to the security context constraints (SCCs) they    *)
(* allow, src/pkg/psalabelsyncer/sccrolecache.go, as the label             *)
(* synchronization of one namespace uses it.  Two informers call its       *)
(* handlers, each from a goroutine of its own; a handler lists the other   *)
(* informer's store first and takes usefulRolesLock afterwards.  A third   *)
(* informer reports changed role bindings, and a worker synchronizes the   *)
(* namespace when it is queued.                                            *)
(*                                                                         *)
(* A role stands for a Role of the namespace or a ClusterRole: the latter  *)
(* queue all namespaces, this one included.  The stores are what the       *)
(* informers have seen so far; a handler is called after the store has     *)
(* changed, and the calls of one informer keep their order.                *)
(***************************************************************************)
EXTENDS Naturals, Sequences, FiniteSets, Functions

CONSTANTS
  Roles, SCCs,   \* names
  Contents,      \* what an SCC may say
  Direct,        \* the contents whose users or groups name the service account
  Bound,         \* the roles that are bound when the process starts
  Tombstones,    \* may an informer miss a deletion and find it by listing again
  MaxChanges     \* bound on changes of the stores

\* A binding that is found to be gone when the informer lists again: what its
\* handler is given is not a binding, and names no role.
BindingTombstone == "tombstone"

ASSUME RoleCacheAssumption ==
  /\ IsFiniteSet(Roles) /\ BindingTombstone \notin Roles
  /\ Direct \subseteq Contents
  /\ Bound \subseteq Roles
  /\ Tombstones \in BOOLEAN
  /\ MaxChanges \in Nat

VARIABLES
  roles,         \* roleLister, clusterRoleLister: role -> SCCs its rules allow to use
  sccs,          \* sccLister: SCC -> content
  bindings,      \* the roles bound to the namespace's service account
  roleEvents, sccEvents, bindingEvents,  \* calls of handlers still to be made
  listedSCCs,    \* handleRoleModified: <<the SCCs it has listed>>
  listedRoles,   \* handleSCCAdded: <<the roles it has listed>>
  usefulRoles,   \* the cache: role -> SCCs
  queued,        \* the namespace is in the work queue
  syncing,       \* sync: <<the bound roles it has still to look up, and the
                 \* SCCs it has found>>
  computed,      \* the SCCs, with their content, that the last sync used
  budget,
  raced,         \* history: two handlers overlapped
  missed,        \* history: a deletion was missed
  unnoticed      \* history: since the last sync began an SCC was updated, or a
                 \* tombstone of a binding dropped

stores   == <<roles, sccs, bindings, budget>>
events   == <<roleEvents, sccEvents, bindingEvents>>
handlers == <<listedSCCs, listedRoles>>
worker   == <<syncing, computed, unnoticed>>
vars     == <<stores, events, handlers, usefulRoles, queued, worker, raced, missed>>

RoleEvents == [type : {"modified", "removed", "missed"}, role : Roles, rules : SUBSET SCCs]
SCCEvents  == [type : {"added", "deleted", "missed"}, scc : SCCs]

TypeOK ==
  /\ \E R \in SUBSET Roles : roles \in [R -> SUBSET SCCs]
  /\ \E S \in SUBSET SCCs : sccs \in [S -> Contents]
  /\ bindings \subseteq Roles
  /\ roleEvents \in Seq(RoleEvents)
  /\ sccEvents \in Seq(SCCEvents)
  /\ bindingEvents \in Seq(Roles \cup {BindingTombstone})
  /\ listedSCCs # <<>> => roleEvents # <<>> /\ Head(roleEvents).type = "modified"
  /\ listedRoles # <<>> => sccEvents # <<>> /\ Head(sccEvents).type = "added"
  /\ \E R \in SUBSET Roles : usefulRoles \in [R -> SUBSET SCCs]
  /\ queued \in BOOLEAN
  /\ Len(syncing) <= 1
  /\ computed \subseteq SCCs \X Contents
  /\ budget \in 0 .. MaxChanges
  /\ raced \in BOOLEAN /\ missed \in BOOLEAN /\ unnoticed \in BOOLEAN

\* The process has just started.  Its informers have listed nothing yet, or
\* bindings only: their events are filtered out, as no role is known.
Init ==
  /\ roles = <<>> /\ sccs = <<>> /\ bindings = Bound
  /\ roleEvents = <<>> /\ sccEvents = <<>> /\ bindingEvents = <<>>
  /\ listedSCCs = <<>> /\ listedRoles = <<>>
  /\ usefulRoles = <<>>
  /\ queued = TRUE
  /\ syncing = <<>> /\ computed = {}
  /\ budget = MaxChanges
  /\ raced = FALSE /\ missed = FALSE /\ unnoticed = FALSE

With(f, x, v) == [y \in DOMAIN f \cup {x} |-> IF y = x THEN v ELSE f[y]]
Without(f, x) == Restrict(f, DOMAIN f \ {x})

\* usefulRoles[r], where an absent key reads as the empty set.
Cached(r) == IF r \in DOMAIN usefulRoles THEN usefulRoles[r] ELSE {}

-----------------------------------------------------------------------------
(* The informers' stores change, and the calls of handlers follow.         *)
Change == budget > 0 /\ budget' = budget - 1

ModifyRole(r, rules) ==
  /\ Change
  /\ r \in DOMAIN roles => roles[r] # rules
  /\ roles' = With(roles, r, rules)
  /\ roleEvents' = Append(roleEvents, [type |-> "modified", role |-> r, rules |-> rules])
  /\ UNCHANGED <<sccs, bindings, sccEvents, bindingEvents, handlers, usefulRoles, queued,
                 worker, raced, missed>>

RemoveRole(r) ==
  /\ Change
  /\ r \in DOMAIN roles
  /\ roles' = Without(roles, r)
  /\ \E type \in {"removed"} \cup (IF Tombstones THEN {"missed"} ELSE {}) :
       roleEvents' = Append(roleEvents, [type |-> type, role |-> r, rules |-> {}])
  /\ UNCHANGED <<sccs, bindings, sccEvents, bindingEvents, handlers, usefulRoles, queued,
                 worker, raced, missed>>

AddSCC(s, content) ==
  /\ Change
  /\ s \notin DOMAIN sccs
  /\ sccs' = With(sccs, s, content)
  /\ sccEvents' = Append(sccEvents, [type |-> "added", scc |-> s])
  /\ UNCHANGED <<roles, bindings, roleEvents, bindingEvents, handlers, usefulRoles, queued,
                 worker, raced, missed>>

DeleteSCC(s) ==
  /\ Change
  /\ s \in DOMAIN sccs
  /\ sccs' = Without(sccs, s)
  /\ \E type \in {"deleted"} \cup (IF Tombstones THEN {"missed"} ELSE {}) :
       sccEvents' = Append(sccEvents, [type |-> type, scc |-> s])
  /\ UNCHANGED <<roles, bindings, roleEvents, bindingEvents, handlers, usefulRoles, queued,
                 worker, raced, missed>>

\* No handler is registered for updates of SCCs.
UpdateSCC(s, content) ==
  /\ Change
  /\ s \in DOMAIN sccs /\ content # sccs[s]
  /\ sccs' = [sccs EXCEPT ![s] = content]
  /\ unnoticed' = TRUE
  /\ UNCHANGED <<roles, bindings, events, handlers, usefulRoles, queued, syncing, computed,
                 raced, missed>>

ChangeBinding(r) ==
  /\ Change
  /\ bindings' = IF r \in bindings THEN bindings \ {r} ELSE bindings \cup {r}
  /\ \E e \in {r} \cup (IF Tombstones /\ r \in bindings THEN {BindingTombstone} ELSE {}) :
       bindingEvents' = Append(bindingEvents, e)
  /\ UNCHANGED <<roles, sccs, roleEvents, sccEvents, handlers, usefulRoles, queued, worker,
                 raced, missed>>

-----------------------------------------------------------------------------
(* The handlers of roles.                                                  *)
RoleEvent(type) == roleEvents # <<>> /\ Head(roleEvents).type = type

RoleHandled ==
  /\ roleEvents' = Tail(roleEvents)
  /\ UNCHANGED <<stores, sccEvents, bindingEvents, listedRoles, worker>>

\* handleRoleModified lists the SCCs ...
ListSCCs ==
  /\ RoleEvent("modified")
  /\ listedSCCs = <<>>
  /\ listedSCCs' = <<DOMAIN sccs>>
  /\ UNCHANGED <<stores, events, listedRoles, usefulRoles, queued, worker, raced, missed>>

\* The SCCs that rules allow to use, of the listed ones.
syncRoleCache(rules, listed) == {scc \in listed : scc \in rules}

\* Faulty: what the role allowed before is kept.
SyncMerges ==
  /\ listedSCCs # <<>>
  /\ LET role    == Head(roleEvents).role
         allowed == Cached(role) \cup syncRoleCache(Head(roleEvents).rules, listedSCCs[1])
     IN  /\ usefulRoles' = With(usefulRoles, role, allowed)
         /\ queued' = (queued \/ allowed # Cached(role))
  /\ listedSCCs' = <<>>
  /\ RoleHandled
  /\ UNCHANGED <<raced, missed>>

\* ... and writes the ones that the role allows to the cache, under the lock.
handleRoleModified ==
  LET role    == Head(roleEvents).role
      allowed == syncRoleCache(Head(roleEvents).rules, listedSCCs[1])
  IN  /\ listedSCCs # <<>>
      /\ usefulRoles' = With(usefulRoles, role, allowed)
      /\ queued' = (queued \/ allowed # Cached(role))
      /\ listedSCCs' = <<>>
      /\ raced' = (raced \/ listedRoles # <<>>)
      /\ RoleHandled
      /\ UNCHANGED missed

\* Faulty: the namespace is not queued.
RemovedUnqueued ==
  /\ RoleEvent("removed")
  /\ usefulRoles' = Without(usefulRoles, Head(roleEvents).role)
  /\ raced' = (raced \/ listedRoles # <<>>)
  /\ RoleHandled
  /\ UNCHANGED <<listedSCCs, queued, missed>>

handleRoleRemoved ==
  LET role == Head(roleEvents).role
  IN  /\ RoleEvent("removed")
      /\ usefulRoles' = Without(usefulRoles, role)
      /\ queued' = (queued \/ role \in DOMAIN usefulRoles)
      /\ raced' = (raced \/ listedRoles # <<>>)
      /\ RoleHandled
      /\ UNCHANGED <<listedSCCs, missed>>

\* A tombstone is neither a Role nor a ClusterRole and is dropped.
DropRoleTombstone ==
  /\ RoleEvent("missed")
  /\ missed' = TRUE
  /\ RoleHandled
  /\ UNCHANGED <<listedSCCs, usefulRoles, queued, raced>>

-----------------------------------------------------------------------------
(* The handlers of SCCs.                                                   *)
SCCEvent(type) == sccEvents # <<>> /\ Head(sccEvents).type = type

SCCHandled ==
  /\ sccEvents' = Tail(sccEvents)
  /\ UNCHANGED <<stores, roleEvents, bindingEvents, listedSCCs, worker>>

\* handleSCCAdded lists the roles ...
ListRoles ==
  /\ SCCEvent("added")
  /\ listedRoles = <<>>
  /\ listedRoles' = <<roles>>
  /\ UNCHANGED <<stores, events, listedSCCs, usefulRoles, queued, worker, raced, missed>>

\* ... and adds the SCC to the ones that allow it, under the lock.
syncRoleCacheSingleSCCAdded(scc, listed) ==
  LET allow == {r \in DOMAIN listed : scc \in listed[r]}
  IN  usefulRoles' = [r \in allow \cup DOMAIN usefulRoles |->
                        IF r \in allow THEN Cached(r) \cup {scc} ELSE Cached(r)]

handleSCCAdded ==
  /\ listedRoles # <<>>
  /\ syncRoleCacheSingleSCCAdded(Head(sccEvents).scc, listedRoles[1])
  /\ queued' = TRUE
  /\ listedRoles' = <<>>
  /\ raced' = (raced \/ listedSCCs # <<>>)
  /\ SCCHandled
  /\ UNCHANGED missed

\* Faulty: the SCC stays in the cache.
DeletedKept ==
  /\ SCCEvent("deleted")
  /\ queued' = TRUE
  /\ raced' = (raced \/ listedSCCs # <<>>)
  /\ SCCHandled
  /\ UNCHANGED <<listedRoles, usefulRoles, missed>>

handleSCCDeleted ==
  /\ SCCEvent("deleted")
  /\ usefulRoles' = [r \in DOMAIN usefulRoles |-> usefulRoles[r] \ {Head(sccEvents).scc}]
  /\ queued' = TRUE
  /\ raced' = (raced \/ listedSCCs # <<>>)
  /\ SCCHandled
  /\ UNCHANGED <<listedRoles, missed>>

DropSCCTombstone ==
  /\ SCCEvent("missed")
  /\ missed' = TRUE
  /\ SCCHandled
  /\ UNCHANGED <<listedRoles, usefulRoles, queued, raced>>

-----------------------------------------------------------------------------
(* The event filter of role bindings: only those count whose role exists   *)
(* and is known to allow some SCC; a tombstone does not.                   *)
IsRoleBindingRelevant(r) == r \in DOMAIN roles /\ Cached(r) # {}

BindingEvent ==
  /\ bindingEvents # <<>>
  /\ queued' = (queued \/ IsRoleBindingRelevant(Head(bindingEvents)))
  /\ bindingEvents' = Tail(bindingEvents)
  /\ unnoticed' = (unnoticed \/ Head(bindingEvents) = BindingTombstone)
  /\ UNCHANGED <<stores, roleEvents, sccEvents, handlers, usefulRoles, syncing, computed,
                 raced, missed>>

-----------------------------------------------------------------------------
(* The informers resync: every role and the namespace are reported again.  *)
Reported(R) == \E f \in [1 .. Cardinality(R) -> R] :
  /\ IsInjective(f)
  /\ roleEvents' = [i \in DOMAIN f |-> [type |-> "modified", role |-> f[i], rules |-> roles[f[i]]]]

ResyncRoles ==
  /\ roleEvents = <<>> /\ roles # <<>>
  /\ Reported(DOMAIN roles)
  /\ UNCHANGED <<stores, sccEvents, bindingEvents, handlers, usefulRoles, queued, worker,
                 raced, missed>>

\* Faulty: a namespace that has not changed is not queued.
ResyncIgnored == UNCHANGED vars

ResyncNamespace ==
  /\ queued' = TRUE
  /\ UNCHANGED <<stores, events, handlers, usefulRoles, worker, raced, missed>>

-----------------------------------------------------------------------------
(* sync of the namespace.  SCCsFor lists the bindings and the SCCs, of     *)
(* which it takes the ones that name the service account ...               *)
NamedBy(s) == {scc \in DOMAIN s : s[scc] \in Direct}

Sync ==
  /\ queued /\ syncing = <<>>
  /\ queued' = FALSE
  /\ syncing' = <<[unread |-> bindings, allowed |-> NamedBy(sccs)]>>
  /\ unnoticed' = FALSE
  /\ UNCHANGED <<stores, events, handlers, usefulRoles, computed, raced, missed>>

\* ... and looks up the bound roles in the cache, taking the lock for each.  A
\* role's set is read after the unlock, and may change meanwhile: the step is
\* the moment whose contents are found.
SCCsFor(r) ==
  /\ syncing # <<>> /\ r \in syncing[1].unread
  /\ syncing' = <<[unread  |-> syncing[1].unread \ {r},
                   allowed |-> syncing[1].allowed \cup Cached(r)]>>
  /\ UNCHANGED <<stores, events, handlers, usefulRoles, queued, computed, unnoticed, raced, missed>>

\* An SCC that cannot be found any more is an error, which queues the namespace again.
SyncEnds ==
  /\ syncing # <<>> /\ syncing[1].unread = {}
  /\ IF syncing[1].allowed \subseteq DOMAIN sccs
       THEN /\ computed' = {<<scc, sccs[scc]>> : scc \in syncing[1].allowed}
            /\ UNCHANGED queued
       ELSE queued' = TRUE /\ UNCHANGED computed
  /\ syncing' = <<>>
  /\ UNCHANGED <<stores, events, handlers, usefulRoles, unnoticed, raced, missed>>

Stores ==
  \/ \E r \in Roles : \/ \E rules \in SUBSET SCCs : ModifyRole(r, rules)
                      \/ RemoveRole(r)
                      \/ ChangeBinding(r)
  \/ \E s \in SCCs : \/ \E content \in Contents : AddSCC(s, content) \/ UpdateSCC(s, content)
                     \/ DeleteSCC(s)

RoleInformer == ListSCCs \/ handleRoleModified \/ handleRoleRemoved \/ DropRoleTombstone
SCCInformer  == ListRoles \/ handleSCCAdded \/ handleSCCDeleted \/ DropSCCTombstone

Next ==
  \/ Stores
  \/ RoleInformer \/ SCCInformer \/ BindingEvent
  \/ ResyncRoles \/ ResyncNamespace
  \/ Sync \/ (\E r \in Roles : SCCsFor(r)) \/ SyncEnds

Spec == Init /\ [][Next]_vars

\* The informers and the worker keep going, and the informers resync.
Fairness ==
  /\ WF_vars(RoleInformer) /\ WF_vars(SCCInformer) /\ WF_vars(BindingEvent)
  /\ WF_vars(ResyncRoles) /\ WF_vars(ResyncNamespace)
  /\ WF_vars(Sync \/ (\E r \in Roles : SCCsFor(r)) \/ SyncEnds)

FairSpec == Spec /\ Fairness

-----------------------------------------------------------------------------
(* Properties.                                                             *)

\* What a role allows to use, by the informers' stores.
Allowed(r) == IF r \in DOMAIN roles THEN roles[r] \cap DOMAIN sccs ELSE {}

\* The SCCs that the service account may use, by the informers' stores.
Usable ==
  {<<scc, sccs[scc]>> : scc \in NamedBy(sccs) \cup UNION {Allowed(r) : r \in bindings}}

\* No handler is running and none is to be called.
Quiet == roleEvents = <<>> /\ sccEvents = <<>> /\ bindingEvents = <<>>

\* The comment on syncRoleCache says that it writes the current mapping of the
\* role to the SCCs it allows.
CurrentMapping == Quiet => \A r \in Roles : Cached(r) = Allowed(r)

\* If no two handlers overlapped and no deletion was missed, the mapping is
\* current when all calls of handlers are done, in whatever order the two
\* informers make them.
CurrentUnlessRaced == raced \/ missed \/ CurrentMapping

\* Then also the namespace is queued whenever its last sync is outdated: no
\* event that changes what its service account may use is filtered out, except
\* for updates of SCCs and tombstones of bindings.
SyncedOrQueued ==
  Quiet /\ syncing = <<>> /\ ~ queued => raced \/ missed \/ unnoticed \/ computed = Usable

\* Overlapping handlers leave wrong SCCs to a role only until the roles are
\* resynced.
ExistingRolesConverge == <>[](\A r \in DOMAIN roles : Cached(r) = Allowed(r))

\* A bound role that is gone is still in the cache: only a handler of the role
\* could take it out, and none will be called.
Ghosts == bindings \cap (DOMAIN usefulRoles \ DOMAIN roles)

\* The SCCs that the service account may use, by the cache.
CachedSCCs == NamedBy(sccs) \cup UNION {Cached(r) : r \in bindings}

\* Once the stores stop changing, the last sync agrees with the cache, and no
\* sync fails for ever for an SCC that is gone, also after overlapping handlers.
\* The exception are dropped tombstones: the cache may then name a deleted SCC
\* for a removed role, and every sync fails to find that SCC.
SyncConverges ==
  <>[](\/ missed /\ Ghosts # {}
       \/ /\ CachedSCCs \subseteq DOMAIN sccs
          /\ computed = {<<scc, sccs[scc]>> : scc \in CachedSCCs})

\* SCCsFor is documented to return the SCCs that the service account can use.
UsableInTheEnd == <>[](computed = Usable)
=============================================================================
