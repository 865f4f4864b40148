------------------------- MODULE SCCRoleCacheProofs -------------------------
(***************************************************************************)
(* Proofs about SCCRoleCache, for any roles, SCCs and number of changes:   *)
(* unless handlers overlapped or a deletion was missed, the cache is       *)
(* current when all handlers are done, and a namespace whose last sync is  *)
(* outdated is queued.                                                     *)
(***************************************************************************)
EXTENDS SCCRoleCache, FiniteSetTheorems, TLAPS

-----------------------------------------------------------------------------
(* Types.                                                                  *)
IsMap(f, D, C) == \E R \in SUBSET D : f \in [R -> C]

\* What handlers hold is what a store once was; the worker holds roles and SCCs.
Holds ==
  /\ listedSCCs = <<>> \/ \E L \in SUBSET SCCs : listedSCCs = <<L>>
  /\ listedRoles = <<>> \/ \E f : IsMap(f, Roles, SUBSET SCCs) /\ listedRoles = <<f>>
  /\ syncing = <<>> \/ \E U \in SUBSET Roles, A \in SUBSET SCCs :
                         syncing = <<[unread |-> U, allowed |-> A]>>

Typed == TypeOK /\ Holds

\* Setting a key of a map gives a map.
LEMMA WithMap ==
  ASSUME NEW D, NEW C, NEW f, IsMap(f, D, C), NEW x \in D, NEW v \in C
  PROVE  IsMap(With(f, x, v), D, C)
<1>1. PICK R \in SUBSET D : f \in [R -> C]
  BY DEF IsMap
<1>2. With(f, x, v) \in [R \cup {x} -> C]
  BY <1>1 DEF With
<1> QED  BY <1>2 DEF IsMap

\* Deleting a key of a map gives a map.
LEMMA WithoutMap ==
  ASSUME NEW D, NEW C, NEW f, IsMap(f, D, C), NEW x
  PROVE  IsMap(Without(f, x), D, C)
<1>1. PICK R \in SUBSET D : f \in [R -> C]
  BY DEF IsMap
<1>2. Without(f, x) \in [R \ {x} -> C]
  BY <1>1 DEF Without, Restrict
<1> QED  BY <1>2 DEF IsMap

\* Reading With and Without.
LEMMA MapsRead ==
  ASSUME NEW f, NEW x, NEW v
  PROVE  /\ DOMAIN With(f, x, v) = DOMAIN f \cup {x}
         /\ With(f, x, v)[x] = v
         /\ \A y \in DOMAIN f : y # x => With(f, x, v)[y] = f[y]
         /\ DOMAIN Without(f, x) = DOMAIN f \ {x}
         /\ \A y \in DOMAIN f : y # x => Without(f, x)[y] = f[y]
BY DEF With, Without, Restrict

\* A sequence with one more element, and one less.
LEMMA SeqAppend ==
  ASSUME NEW S, NEW q \in Seq(S), NEW e \in S
  PROVE  /\ Append(q, e) \in Seq(S) /\ Append(q, e) # <<>>
         /\ DOMAIN Append(q, e) = 1 .. Len(q) + 1 /\ DOMAIN q = 1 .. Len(q) /\ Len(q) \in Nat
         /\ Append(q, e)[Len(q) + 1] = e
         /\ \A i \in 1 .. Len(q) : Append(q, e)[i] = q[i]
         /\ q # <<>> => Head(Append(q, e)) = Head(q)
OBVIOUS

\* The tail of a sequence has the elements after the first, one place earlier.
LEMMA SeqTail ==
  ASSUME NEW S, NEW q \in Seq(S), q # <<>>
  PROVE  /\ Tail(q) \in Seq(S) /\ Head(q) = q[1] /\ 1 \in DOMAIN q
         /\ \A i \in DOMAIN Tail(q) : i + 1 \in DOMAIN q /\ Tail(q)[i] = q[i + 1]
         /\ \A i \in DOMAIN q : i = 1 \/ (i - 1 \in DOMAIN Tail(q) /\ Tail(q)[i - 1] = q[i])
         /\ DOMAIN q \subseteq Nat /\ DOMAIN Tail(q) \subseteq Nat
<1>1. /\ DOMAIN q = 1 .. Len(q) /\ Len(q) \in Nat \ {0} /\ Tail(q) \in Seq(S)
      /\ DOMAIN Tail(q) = 1 .. Len(q) - 1 /\ Head(q) = q[1]
  OBVIOUS
<1>2. \A i \in 1 .. Len(q) - 1 : Tail(q)[i] = q[i + 1]
  OBVIOUS
<1>3. \A i \in DOMAIN Tail(q) : i + 1 \in DOMAIN q /\ Tail(q)[i] = q[i + 1]
  BY <1>1, <1>2
<1>4. ASSUME NEW i \in DOMAIN q, i # 1
      PROVE  i - 1 \in DOMAIN Tail(q) /\ Tail(q)[i - 1] = q[i]
  <2>1. i - 1 \in 1 .. Len(q) - 1 /\ (i - 1) + 1 = i
    BY <1>1, <1>4
  <2> QED  BY <2>1, <1>1, <1>2
<1> QED  BY <1>1, <1>3, <1>4

\* The usefulRoles after each handler that writes it.
LEMMA CachedWith ==
  ASSUME NEW role, NEW allowed, usefulRoles' = With(usefulRoles, role, allowed)
  PROVE  Cached(role)' = allowed /\ \A r \in Roles : r # role => Cached(r)' = Cached(r)
BY DEF Cached, With

\* Deleting a role from the cache leaves the other roles.
LEMMA CachedWithout ==
  ASSUME NEW role, usefulRoles' = Without(usefulRoles, role)
  PROVE  /\ Cached(role)' = {} /\ \A r \in Roles : r # role => Cached(r)' = Cached(r)
         /\ role \notin DOMAIN usefulRoles => Cached(role) = {}
BY DEF Cached, Without, Restrict

\* Adding an SCC gives it to the listed roles that allow it, and to no other.
LEMMA CachedAdded ==
  ASSUME NEW scc, NEW listed, syncRoleCacheSingleSCCAdded(scc, listed), NEW r
  PROVE  Cached(r)' = IF r \in DOMAIN listed /\ scc \in listed[r]
                        THEN Cached(r) \cup {scc} ELSE Cached(r)
BY DEF syncRoleCacheSingleSCCAdded, Cached

\* Deleting an SCC takes it from every role.
LEMMA CachedDeleted ==
  ASSUME NEW scc, NEW r, usefulRoles' = [x \in DOMAIN usefulRoles |-> usefulRoles[x] \ {scc}]
  PROVE  Cached(r)' = Cached(r) \ {scc}
BY DEF Cached

-----------------------------------------------------------------------------
(* The types are kept.                                                     *)
LEMMA TypedInit == Init => Typed
<1> SUFFICES ASSUME Init PROVE Typed
  OBVIOUS
<1>1. MaxChanges \in Nat
  BY RoleCacheAssumption
<1>2. \A D, C : <<>> \in [{} -> C] /\ {} \in SUBSET D
  OBVIOUS
<1>3. /\ \E R \in SUBSET Roles : roles \in [R -> SUBSET SCCs]
      /\ \E S \in SUBSET SCCs : sccs \in [S -> Contents]
      /\ \E R \in SUBSET Roles : usefulRoles \in [R -> SUBSET SCCs]
  BY <1>2, Zenon DEF Init
<1>4. budget \in 0 .. MaxChanges
  BY <1>1 DEF Init
<1>5. /\ bindings \subseteq Roles /\ computed \subseteq SCCs \X Contents /\ queued \in BOOLEAN
      /\ raced \in BOOLEAN /\ missed \in BOOLEAN /\ unnoticed \in BOOLEAN
  BY RoleCacheAssumption, Zenon DEF Init
<1>6. /\ roleEvents \in Seq(RoleEvents) /\ sccEvents \in Seq(SCCEvents)
      /\ bindingEvents \in Seq(Roles \cup {BindingTombstone}) /\ Len(syncing) <= 1
  BY DEF Init
<1>7. TypeOK
  BY <1>3, <1>4, <1>5, <1>6, Zenon DEF Init, TypeOK
<1>8. Holds
  BY DEF Init, Holds
<1> QED  BY <1>7, <1>8 DEF Typed

\* The number of changes left stays in its range.
LEMMA BudgetSpent == ASSUME TypeOK, Change PROVE budget' \in 0 .. MaxChanges
<1>1. MaxChanges \in Nat
  BY RoleCacheAssumption
<1> QED  BY <1>1 DEF TypeOK, Change

\* The stores and the cache are maps.
LEMMA TypeOKMaps ==
  ASSUME TypeOK
  PROVE  /\ IsMap(roles, Roles, SUBSET SCCs) /\ IsMap(usefulRoles, Roles, SUBSET SCCs)
         /\ IsMap(sccs, SCCs, Contents)
BY DEF TypeOK, IsMap

\* A change of a store keeps the types.
LEMMA StoresTyped == ASSUME Typed, Stores PROVE Typed'
<1> USE DEF Typed
<1>1. ASSUME NEW r \in Roles, NEW rules \in SUBSET SCCs, ModifyRole(r, rules) PROVE Typed'
  <2> DEFINE e == [type |-> "modified", role |-> r, rules |-> rules]
  <2>1. e \in RoleEvents
    BY DEF RoleEvents
  <2> HIDE DEF e
  <2>2. roleEvents' = Append(roleEvents, e)
    BY <1>1 DEF ModifyRole, e
  <2>3. /\ roleEvents' \in Seq(RoleEvents) /\ roleEvents' # <<>>
        /\ roleEvents # <<>> => Head(roleEvents') = Head(roleEvents)
    BY <2>1, <2>2, SeqAppend DEF TypeOK
  <2>4. IsMap(roles', Roles, SUBSET SCCs)
    BY <1>1, WithMap, TypeOKMaps DEF ModifyRole
  <2>5. budget' \in 0 .. MaxChanges
    BY <1>1, BudgetSpent DEF ModifyRole
  <2>6. TypeOK'
    BY <1>1, <2>3, <2>4, <2>5 DEF TypeOK, IsMap, ModifyRole, handlers, worker
  <2>7. Holds'
    BY <1>1, Zenon DEF Holds, ModifyRole, handlers, worker
  <2> QED  BY <2>6, <2>7
<1>2. ASSUME NEW r \in Roles, RemoveRole(r) PROVE Typed'
  <2>1. PICK type \in {"removed", "missed"} :
          roleEvents' = Append(roleEvents, [type |-> type, role |-> r, rules |-> {}])
    BY <1>2, Zenon DEF RemoveRole
  <2> DEFINE e == [type |-> type, role |-> r, rules |-> {}]
  <2>2. e \in RoleEvents
    BY DEF RoleEvents
  <2> HIDE DEF e
  <2>3. roleEvents' = Append(roleEvents, e)
    BY <2>1 DEF e
  <2>4. /\ roleEvents' \in Seq(RoleEvents) /\ roleEvents' # <<>>
        /\ roleEvents # <<>> => Head(roleEvents') = Head(roleEvents)
    BY <2>2, <2>3, SeqAppend DEF TypeOK
  <2>5. IsMap(roles', Roles, SUBSET SCCs)
    BY <1>2, WithoutMap, TypeOKMaps DEF RemoveRole
  <2>6. budget' \in 0 .. MaxChanges
    BY <1>2, BudgetSpent DEF RemoveRole
  <2>7. TypeOK'
    BY <1>2, <2>4, <2>5, <2>6 DEF TypeOK, IsMap, RemoveRole, handlers, worker
  <2>8. Holds'
    BY <1>2, Zenon DEF Holds, RemoveRole, handlers, worker
  <2> QED  BY <2>7, <2>8
<1>3. ASSUME NEW r \in Roles, ChangeBinding(r) PROVE Typed'
  <2>0. PICK e \in Roles \cup {BindingTombstone} : bindingEvents' = Append(bindingEvents, e)
    BY <1>3, Zenon DEF ChangeBinding
  <2>1. bindingEvents' \in Seq(Roles \cup {BindingTombstone})
    BY <2>0, SeqAppend DEF TypeOK
  <2>2. budget' \in 0 .. MaxChanges
    BY <1>3, BudgetSpent DEF ChangeBinding
  <2>3. TypeOK'
    BY <1>3, <2>1, <2>2 DEF TypeOK, ChangeBinding, handlers, worker
  <2>4. Holds'
    BY <1>3, Zenon DEF Holds, ChangeBinding, handlers, worker
  <2> QED  BY <2>3, <2>4
<1>4. ASSUME NEW s \in SCCs, NEW content \in Contents, AddSCC(s, content) PROVE Typed'
  <2> DEFINE e == [type |-> "added", scc |-> s]
  <2>1. e \in SCCEvents
    BY DEF SCCEvents
  <2> HIDE DEF e
  <2>2. sccEvents' = Append(sccEvents, e)
    BY <1>4 DEF AddSCC, e
  <2>3. /\ sccEvents' \in Seq(SCCEvents) /\ sccEvents' # <<>>
        /\ sccEvents # <<>> => Head(sccEvents') = Head(sccEvents)
    BY <2>1, <2>2, SeqAppend DEF TypeOK
  <2>4. IsMap(sccs', SCCs, Contents)
    BY <1>4, WithMap, TypeOKMaps DEF AddSCC
  <2>5. budget' \in 0 .. MaxChanges
    BY <1>4, BudgetSpent DEF AddSCC
  <2>6. TypeOK'
    BY <1>4, <2>3, <2>4, <2>5 DEF TypeOK, IsMap, AddSCC, handlers, worker
  <2>7. Holds'
    BY <1>4, Zenon DEF Holds, AddSCC, handlers, worker
  <2> QED  BY <2>6, <2>7
<1>5. ASSUME NEW s \in SCCs, NEW content \in Contents, UpdateSCC(s, content) PROVE Typed'
  <2>1. IsMap(sccs', SCCs, Contents)
    BY <1>5 DEF UpdateSCC, TypeOK, IsMap
  <2>2. budget' \in 0 .. MaxChanges
    BY <1>5, BudgetSpent DEF UpdateSCC
  <2>3. TypeOK'
    BY <1>5, <2>1, <2>2 DEF TypeOK, IsMap, UpdateSCC, events, handlers
  <2>4. Holds'
    BY <1>5, Zenon DEF Holds, UpdateSCC, handlers
  <2> QED  BY <2>3, <2>4
<1>6. ASSUME NEW s \in SCCs, DeleteSCC(s) PROVE Typed'
  <2>1. PICK type \in {"deleted", "missed"} :
          sccEvents' = Append(sccEvents, [type |-> type, scc |-> s])
    BY <1>6 DEF DeleteSCC
  <2> DEFINE e == [type |-> type, scc |-> s]
  <2>2. e \in SCCEvents
    BY DEF SCCEvents
  <2> HIDE DEF e
  <2>3. sccEvents' = Append(sccEvents, e)
    BY <2>1 DEF e
  <2>4. /\ sccEvents' \in Seq(SCCEvents) /\ sccEvents' # <<>>
        /\ sccEvents # <<>> => Head(sccEvents') = Head(sccEvents)
    BY <2>2, <2>3, SeqAppend DEF TypeOK
  <2>5. IsMap(sccs', SCCs, Contents)
    BY <1>6, WithoutMap, TypeOKMaps DEF DeleteSCC
  <2>6. budget' \in 0 .. MaxChanges
    BY <1>6, BudgetSpent DEF DeleteSCC
  <2>7. TypeOK'
    BY <1>6, <2>4, <2>5, <2>6 DEF TypeOK, IsMap, DeleteSCC, handlers, worker
  <2>8. Holds'
    BY <1>6, Zenon DEF Holds, DeleteSCC, handlers, worker
  <2> QED  BY <2>7, <2>8
<1> QED  BY <1>1, <1>2, <1>3, <1>4, <1>5, <1>6 DEF Stores

\* The call that a handler answers.
LEMMA RoleHead ==
  ASSUME TypeOK, roleEvents # <<>>
  PROVE  /\ Head(roleEvents) \in RoleEvents /\ Head(roleEvents).role \in Roles
         /\ Head(roleEvents).rules \in SUBSET SCCs
<1>1. Head(roleEvents) \in RoleEvents
  BY DEF TypeOK
<1> QED  BY <1>1 DEF RoleEvents

\* The next call of an SCC handler is about an SCC.
LEMMA SCCHead ==
  ASSUME TypeOK, sccEvents # <<>>
  PROVE  Head(sccEvents) \in SCCEvents /\ Head(sccEvents).scc \in SCCs
<1>1. Head(sccEvents) \in SCCEvents
  BY DEF TypeOK
<1> QED  BY <1>1 DEF SCCEvents

\* The calls of the role handlers keep the types.
LEMMA RoleInformerTyped == ASSUME Typed, RoleInformer PROVE Typed'
<1> USE DEF Typed
<1>1. CASE ListSCCs
  <2>1. DOMAIN sccs \in SUBSET SCCs
    BY DEF TypeOK
  <2>2. Holds'
    BY <1>1, <2>1, Zenon DEF Holds, ListSCCs, worker
  <2>3. TypeOK'
    BY <1>1 DEF TypeOK, ListSCCs, RoleEvent, stores, events, worker
  <2> QED  BY <2>2, <2>3
<1>2. CASE handleRoleModified
  <2>1. roleEvents # <<>>
    BY <1>2 DEF handleRoleModified, TypeOK
  <2>2. roleEvents' \in Seq(RoleEvents)
    BY <1>2, <2>1, SeqTail DEF handleRoleModified, RoleHandled, TypeOK
  <2> DEFINE allowed == syncRoleCache(Head(roleEvents).rules, listedSCCs[1])
  <2>3. allowed \in SUBSET SCCs
    BY <2>1, RoleHead DEF syncRoleCache
  <2>4. usefulRoles' = With(usefulRoles, Head(roleEvents).role, allowed)
    BY <1>2 DEF handleRoleModified
  <2> HIDE DEF allowed
  <2>5. IsMap(usefulRoles', Roles, SUBSET SCCs)
    BY <2>1, <2>3, <2>4, RoleHead, WithMap, TypeOKMaps
  <2>6. queued' \in BOOLEAN /\ raced' \in BOOLEAN
    BY <1>2 DEF handleRoleModified, TypeOK
  <2>7. TypeOK'
    BY <1>2, <2>2, <2>5, <2>6 DEF TypeOK, IsMap, handleRoleModified, RoleHandled, stores, worker
  <2>8. Holds'
    BY <1>2, Zenon DEF Holds, handleRoleModified, RoleHandled, worker
  <2> QED  BY <2>7, <2>8
<1>3. CASE handleRoleRemoved
  <2>1. roleEvents # <<>> /\ listedSCCs = <<>>
    BY <1>3 DEF handleRoleRemoved, RoleEvent, TypeOK
  <2>2. roleEvents' \in Seq(RoleEvents)
    BY <1>3, <2>1, SeqTail DEF handleRoleRemoved, RoleHandled, TypeOK
  <2>3. IsMap(usefulRoles', Roles, SUBSET SCCs)
    BY <1>3, WithoutMap, TypeOKMaps DEF handleRoleRemoved
  <2>4. queued' \in BOOLEAN /\ raced' \in BOOLEAN
    BY <1>3 DEF handleRoleRemoved, TypeOK
  <2>5. TypeOK'
    BY <1>3, <2>1, <2>2, <2>3, <2>4 DEF TypeOK, IsMap, handleRoleRemoved, RoleHandled, stores, worker
  <2>6. Holds'
    BY <1>3, Zenon DEF Holds, handleRoleRemoved, RoleHandled, worker
  <2> QED  BY <2>5, <2>6
<1>4. CASE DropRoleTombstone
  <2>1. roleEvents # <<>> /\ listedSCCs = <<>>
    BY <1>4 DEF DropRoleTombstone, RoleEvent, TypeOK
  <2>2. roleEvents' \in Seq(RoleEvents)
    BY <1>4, <2>1, SeqTail DEF DropRoleTombstone, RoleHandled, TypeOK
  <2>3. TypeOK'
    BY <1>4, <2>1, <2>2 DEF TypeOK, DropRoleTombstone, RoleHandled, stores, worker
  <2>4. Holds'
    BY <1>4, Zenon DEF Holds, DropRoleTombstone, RoleHandled, worker
  <2> QED  BY <2>3, <2>4
<1> QED  BY <1>1, <1>2, <1>3, <1>4 DEF RoleInformer

\* The calls of the SCC handlers keep the types.
LEMMA SCCInformerTyped == ASSUME Typed, SCCInformer PROVE Typed'
<1> USE DEF Typed
<1>1. CASE ListRoles
  <2>1. Holds'
    BY <1>1, TypeOKMaps DEF Holds, ListRoles, worker
  <2>2. TypeOK'
    BY <1>1 DEF TypeOK, ListRoles, SCCEvent, stores, events, worker
  <2> QED  BY <2>1, <2>2
<1>2. CASE handleSCCAdded
  <2>1. sccEvents # <<>>
    BY <1>2 DEF handleSCCAdded, TypeOK
  <2>2. sccEvents' \in Seq(SCCEvents)
    BY <1>2, <2>1, SeqTail DEF handleSCCAdded, SCCHandled, TypeOK
  <2>3. PICK f : IsMap(f, Roles, SUBSET SCCs) /\ listedRoles = <<f>>
    BY <1>2, Zenon DEF handleSCCAdded, Holds
  <2> DEFINE scc == Head(sccEvents).scc
  <2>4. scc \in SCCs
    BY <2>1, SCCHead
  <2> HIDE DEF scc
  <2>5. syncRoleCacheSingleSCCAdded(scc, f)
    BY <1>2, <2>3 DEF handleSCCAdded, scc
  <2>6. IsMap(usefulRoles', Roles, SUBSET SCCs)
    <3> DEFINE allow == {r \in DOMAIN f : scc \in f[r]}
    <3>1. allow \cup DOMAIN usefulRoles \in SUBSET Roles
      BY <2>3, TypeOKMaps DEF IsMap
    <3>2. \A r : Cached(r) \in SUBSET SCCs
      BY TypeOKMaps DEF Cached, IsMap
    <3>3. usefulRoles' = [r \in allow \cup DOMAIN usefulRoles |->
                            IF r \in allow THEN Cached(r) \cup {scc} ELSE Cached(r)]
      BY <2>5 DEF syncRoleCacheSingleSCCAdded
    <3> HIDE DEF allow
    <3>4. usefulRoles' \in [allow \cup DOMAIN usefulRoles -> SUBSET SCCs]
      BY <2>4, <3>2, <3>3
    <3> QED  BY <3>1, <3>4 DEF IsMap
  <2>7. queued' \in BOOLEAN /\ raced' \in BOOLEAN
    BY <1>2 DEF handleSCCAdded, TypeOK
  <2>8. TypeOK'
    BY <1>2, <2>2, <2>6, <2>7 DEF TypeOK, IsMap, handleSCCAdded, SCCHandled, stores, worker
  <2>9. Holds'
    BY <1>2 DEF Holds, handleSCCAdded, SCCHandled, worker
  <2> QED  BY <2>8, <2>9
<1>3. CASE handleSCCDeleted
  <2>1. sccEvents # <<>> /\ listedRoles = <<>>
    BY <1>3 DEF handleSCCDeleted, SCCEvent, TypeOK
  <2>2. sccEvents' \in Seq(SCCEvents)
    BY <1>3, <2>1, SeqTail DEF handleSCCDeleted, SCCHandled, TypeOK
  <2>3. IsMap(usefulRoles', Roles, SUBSET SCCs)
    BY <1>3 DEF handleSCCDeleted, TypeOK, IsMap
  <2>4. queued' \in BOOLEAN /\ raced' \in BOOLEAN
    BY <1>3 DEF handleSCCDeleted, TypeOK
  <2>5. TypeOK'
    BY <1>3, <2>1, <2>2, <2>3, <2>4 DEF TypeOK, IsMap, handleSCCDeleted, SCCHandled, stores, worker
  <2>6. Holds'
    BY <1>3, Zenon DEF Holds, handleSCCDeleted, SCCHandled, worker
  <2> QED  BY <2>5, <2>6
<1>4. CASE DropSCCTombstone
  <2>1. sccEvents # <<>> /\ listedRoles = <<>>
    BY <1>4 DEF DropSCCTombstone, SCCEvent, TypeOK
  <2>2. sccEvents' \in Seq(SCCEvents)
    BY <1>4, <2>1, SeqTail DEF DropSCCTombstone, SCCHandled, TypeOK
  <2>3. TypeOK'
    BY <1>4, <2>1, <2>2 DEF TypeOK, DropSCCTombstone, SCCHandled, stores, worker
  <2>4. Holds'
    BY <1>4, Zenon DEF Holds, DropSCCTombstone, SCCHandled, worker
  <2> QED  BY <2>3, <2>4
<1> QED  BY <1>1, <1>2, <1>3, <1>4 DEF SCCInformer

\* A resync reports roles as the store has them.
LEMMA ResyncReports ==
  ASSUME TypeOK, ResyncRoles
  PROVE  /\ roleEvents' \in Seq(RoleEvents)
         /\ \A i \in DOMAIN roleEvents' :
              /\ roleEvents'[i].type = "modified" /\ roleEvents'[i].role \in DOMAIN roles
              /\ roleEvents'[i].rules = roles[roleEvents'[i].role]
<1> DEFINE R == DOMAIN roles
           n == Cardinality(R)
<1>1. R \in SUBSET Roles /\ \A r \in R : roles[r] \in SUBSET SCCs
  BY DEF TypeOK
<1>2. n \in Nat
  BY <1>1, FS_Subset, FS_CardinalityType, RoleCacheAssumption
<1>3. PICK f \in [1 .. n -> R] :
        roleEvents' = [i \in DOMAIN f |-> [type |-> "modified", role |-> f[i], rules |-> roles[f[i]]]]
  BY Zenon DEF ResyncRoles, Reported
<1> HIDE DEF n, R
<1>4. \A i \in 1 .. n : f[i] \in R /\ f[i] \in Roles /\ roles[f[i]] \in SUBSET SCCs
  BY <1>1
<1>5. \A r \in Roles : roles[r] \in SUBSET SCCs =>
        [type |-> "modified", role |-> r, rules |-> roles[r]] \in RoleEvents
  BY DEF RoleEvents
<1>6. roleEvents' \in [1 .. n -> RoleEvents]
  BY <1>3, <1>4, <1>5
<1>7. roleEvents' \in Seq(RoleEvents)
  BY <1>2, <1>6
<1>8. \A i \in 1 .. n : /\ roleEvents'[i].type = "modified" /\ roleEvents'[i].role = f[i]
                        /\ roleEvents'[i].rules = roles[f[i]]
  BY <1>3
<1> QED  BY <1>4, <1>6, <1>7, <1>8 DEF R

\* The bindings' handler, the resyncs and the worker keep the types.
LEMMA WorkerTyped ==
  ASSUME Typed, \/ BindingEvent \/ ResyncRoles \/ ResyncNamespace
                \/ Sync \/ (\E r \in Roles : SCCsFor(r)) \/ SyncEnds
  PROVE  Typed'
<1> USE DEF Typed
<1>1. CASE BindingEvent
  <2>1. bindingEvents' \in Seq(Roles \cup {BindingTombstone})
    BY <1>1, SeqTail DEF BindingEvent, TypeOK
  <2>2. queued' \in BOOLEAN /\ unnoticed' \in BOOLEAN
    BY <1>1 DEF BindingEvent, TypeOK
  <2>3. TypeOK' /\ Holds'
    BY <1>1, <2>1, <2>2, Zenon DEF TypeOK, Holds, BindingEvent, stores, handlers
  <2> QED  BY <2>3
<1>2. CASE ResyncRoles
  <2>1. listedSCCs = <<>>
    BY <1>2 DEF ResyncRoles, TypeOK
  <2>2. TypeOK'
    BY <1>2, <2>1, ResyncReports DEF TypeOK, ResyncRoles, stores, handlers, worker
  <2>3. Holds'
    BY <1>2, Zenon DEF Holds, ResyncRoles, handlers, worker
  <2> QED  BY <2>2, <2>3
<1>3. CASE ResyncNamespace
  BY <1>3, Zenon DEF TypeOK, Holds, ResyncNamespace, stores, events, handlers, worker
<1>4. CASE Sync
  <2>0. bindings \in SUBSET Roles /\ NamedBy(sccs) \in SUBSET SCCs
    BY DEF TypeOK, NamedBy
  <2>1. Holds'
    BY <1>4, <2>0, Zenon DEF Holds, Sync, handlers
  <2>2. Len(syncing') <= 1
    BY <1>4 DEF Sync
  <2>3. TypeOK'
    BY <1>4, <2>2, Zenon DEF TypeOK, Sync, stores, events, handlers
  <2> QED  BY <2>1, <2>3
<1>5. ASSUME NEW r \in Roles, SCCsFor(r) PROVE Typed'
  <2>1. PICK U \in SUBSET Roles, A \in SUBSET SCCs : syncing = <<[unread |-> U, allowed |-> A]>>
    BY <1>5, Zenon DEF SCCsFor, Holds
  <2>2. syncing[1].unread = U /\ syncing[1].allowed = A
    BY <2>1
  <2>3. Cached(r) \in SUBSET SCCs
    BY TypeOKMaps DEF Cached, IsMap
  <2>4. syncing' = <<[unread |-> U \ {r}, allowed |-> A \cup Cached(r)]>>
    BY <1>5, <2>2, Zenon DEF SCCsFor
  <2>5. U \ {r} \in SUBSET Roles /\ A \cup Cached(r) \in SUBSET SCCs
    BY <2>3
  <2>6. Holds'
    BY <1>5, <2>4, <2>5, Zenon DEF Holds, SCCsFor, handlers
  <2>7. Len(syncing') <= 1
    BY <2>4
  <2>8. TypeOK'
    BY <1>5, <2>7, Zenon DEF TypeOK, SCCsFor, stores, events, handlers
  <2> QED  BY <2>6, <2>8
<1>6. CASE SyncEnds
  <2>1. Len(syncing') <= 1
    BY <1>6 DEF SyncEnds
  <2>2. computed' \subseteq SCCs \X Contents
    <3>1. DOMAIN sccs \subseteq SCCs /\ \A scc \in DOMAIN sccs : sccs[scc] \in Contents
      BY DEF TypeOK
    <3> DEFINE allowed == syncing[1].allowed
    <3>2. CASE allowed \subseteq DOMAIN sccs
      <4>1. computed' = {<<scc, sccs[scc]>> : scc \in allowed}
        BY <1>6, <3>2 DEF SyncEnds
      <4> HIDE DEF allowed
      <4> QED  BY <3>1, <3>2, <4>1
    <3>3. CASE ~ allowed \subseteq DOMAIN sccs
      BY <1>6, <3>3 DEF SyncEnds, TypeOK
    <3> QED  BY <3>2, <3>3
  <2>3. queued' \in BOOLEAN
    BY <1>6, Zenon DEF SyncEnds, TypeOK
  <2>4. TypeOK'
    BY <1>6, <2>1, <2>2, <2>3 DEF TypeOK, SyncEnds, stores, events, handlers
  <2>5. Holds'
    BY <1>6, Zenon DEF Holds, SyncEnds, handlers
  <2> QED  BY <2>4, <2>5
<1> QED  BY <1>1, <1>2, <1>3, <1>4, <1>5, <1>6

\* Every step keeps the types.
LEMMA TypedNext == Typed /\ [Next]_vars => Typed'
<1> SUFFICES ASSUME Typed, [Next]_vars PROVE Typed'
  OBVIOUS
<1>1. CASE UNCHANGED vars
  BY <1>1, Zenon DEF Typed, TypeOK, Holds, vars, stores, events, handlers, worker
<1> QED  BY <1>1, StoresTyped, RoleInformerTyped, SCCInformerTyped, WorkerTyped DEF Next

-----------------------------------------------------------------------------
(* The invariant of the cache.                                             *)

\* What rules a store f of roles has for r.
RulesOf(f, r) == IF r \in DOMAIN f THEN f[r] ELSE {}

\* Calls of handlers that are still to be made.
RolePending(r)    == \E i \in DOMAIN roleEvents : roleEvents[i].role = r
RemovalPending(r) ==
  \E i \in DOMAIN roleEvents : roleEvents[i].role = r /\ roleEvents[i].type # "modified"
SCCPending(s)     == \E i \in DOMAIN sccEvents : sccEvents[i].scc = s
BindingPending(r) == \E i \in DOMAIN bindingEvents : bindingEvents[i] = r

\* The last call for a role, and for an SCC, has what the store says.
RoleEventsTrue ==
  \A i \in DOMAIN roleEvents :
    (\A j \in DOMAIN roleEvents : j > i => roleEvents[j].role # roleEvents[i].role) =>
      /\ roleEvents[i].rules = RulesOf(roles, roleEvents[i].role)
      /\ roleEvents[i].type = "modified" <=> roleEvents[i].role \in DOMAIN roles
SCCEventsTrue ==
  \A i \in DOMAIN sccEvents :
    (\A j \in DOMAIN sccEvents : j > i => sccEvents[j].scc # sccEvents[i].scc) =>
      (sccEvents[i].type = "added" <=> sccEvents[i].scc \in DOMAIN sccs)

\* For a role that is gone, no modification is the last call.
RemovalFollows ==
  \A i \in DOMAIN roleEvents :
    roleEvents[i].type = "modified" /\ roleEvents[i].role \notin DOMAIN roles =>
      \E j \in DOMAIN roleEvents :
        j > i /\ roleEvents[j].role = roleEvents[i].role /\ roleEvents[j].type # "modified"

\* What a running handler has listed is outdated only by changes whose calls are
\* still to be made.
ListedSCCsCurrent ==
  listedSCCs # <<>> =>
    \A s \in SCCs : ~ SCCPending(s) => (s \in listedSCCs[1] <=> s \in DOMAIN sccs)
ListedRolesCurrent ==
  listedRoles # <<>> =>
    \A r \in Roles : ~ RolePending(r) => RulesOf(listedRoles[1], r) = RulesOf(roles, r)

\* The cache is behind the stores only by calls still to be made.
CacheCurrent ==
  \A r \in Roles : ~ RolePending(r) =>
    /\ Cached(r) \subseteq RulesOf(roles, r)
    /\ \A s \in SCCs : ~ SCCPending(s) => 
         (s \in Cached(r) <=> s \in RulesOf(roles, r) /\ s \in DOMAIN sccs)

CacheInv ==
  /\ RoleEventsTrue /\ SCCEventsTrue /\ RemovalFollows
  /\ raced \/ missed \/ (ListedSCCsCurrent /\ ListedRolesCurrent /\ CacheCurrent)


\* A call is added to the ones still to be made.
LEMMA RolePendingAppended ==
  ASSUME TypeOK, NEW e \in RoleEvents, roleEvents' = Append(roleEvents, e), NEW x
  PROVE  /\ RolePending(x)' <=> RolePending(x) \/ x = e.role
         /\ RemovalPending(x)' <=> RemovalPending(x) \/ (x = e.role /\ e.type # "modified")
<1>1. roleEvents \in Seq(RoleEvents)
  BY DEF TypeOK
<1>2. /\ DOMAIN roleEvents' = 1 .. Len(roleEvents) + 1 /\ DOMAIN roleEvents = 1 .. Len(roleEvents)
      /\ Len(roleEvents) \in Nat /\ roleEvents'[Len(roleEvents) + 1] = e
      /\ \A i \in 1 .. Len(roleEvents) : roleEvents'[i] = roleEvents[i]
  BY <1>1, SeqAppend
<1>3. \A i \in 1 .. Len(roleEvents) + 1 : i \in 1 .. Len(roleEvents) \/ i = Len(roleEvents) + 1
  BY <1>2
<1>4. \A i \in 1 .. Len(roleEvents) : i \in 1 .. Len(roleEvents) + 1
  BY <1>2
<1>5. Len(roleEvents) + 1 \in 1 .. Len(roleEvents) + 1
  BY <1>2
<1> DEFINE n == Len(roleEvents) + 1
<1>6. RolePending(x)' <=> RolePending(x) \/ x = e.role
  BY <1>2, <1>3, <1>4, <1>5 DEF RolePending
<1>7. RemovalPending(x)' <=> RemovalPending(x) \/ (x = e.role /\ e.type # "modified")
  BY <1>2, <1>3, <1>4, <1>5 DEF RemovalPending
<1> QED  BY <1>6, <1>7

\* The same for an SCC.
LEMMA SCCPendingAppended ==
  ASSUME TypeOK, NEW e \in SCCEvents, sccEvents' = Append(sccEvents, e), NEW x
  PROVE  SCCPending(x)' <=> SCCPending(x) \/ x = e.scc
<1>1. sccEvents \in Seq(SCCEvents)
  BY DEF TypeOK
<1>2. /\ DOMAIN sccEvents' = 1 .. Len(sccEvents) + 1 /\ DOMAIN sccEvents = 1 .. Len(sccEvents)
      /\ Len(sccEvents) \in Nat /\ sccEvents'[Len(sccEvents) + 1] = e
      /\ \A i \in 1 .. Len(sccEvents) : sccEvents'[i] = sccEvents[i]
  BY <1>1, SeqAppend
<1>3. \A i \in 1 .. Len(sccEvents) + 1 : i \in 1 .. Len(sccEvents) \/ i = Len(sccEvents) + 1
  BY <1>2
<1>4. \A i \in 1 .. Len(sccEvents) : i \in 1 .. Len(sccEvents) + 1
  BY <1>2
<1>5. Len(sccEvents) + 1 \in 1 .. Len(sccEvents) + 1
  BY <1>2
<1> QED  BY <1>2, <1>3, <1>4, <1>5 DEF SCCPending

\* A call is made.
LEMMA RolePendingTailed ==
  ASSUME TypeOK, roleEvents # <<>>, roleEvents' = Tail(roleEvents), NEW x
  PROVE  /\ RolePending(x) <=> RolePending(x)' \/ x = Head(roleEvents).role
         /\ RemovalPending(x) <=> \/ RemovalPending(x)'
                                  \/ x = Head(roleEvents).role /\ Head(roleEvents).type # "modified"
<1>1. /\ Head(roleEvents) = roleEvents[1] /\ 1 \in DOMAIN roleEvents
      /\ \A i \in DOMAIN roleEvents' : i + 1 \in DOMAIN roleEvents /\ roleEvents'[i] = roleEvents[i + 1]
      /\ \A i \in DOMAIN roleEvents :
           i = 1 \/ (i - 1 \in DOMAIN roleEvents' /\ roleEvents'[i - 1] = roleEvents[i])
  BY SeqTail DEF TypeOK
<1>2. RolePending(x) <=> RolePending(x)' \/ x = Head(roleEvents).role
  <2>1. RolePending(x) => RolePending(x)' \/ x = Head(roleEvents).role
    BY <1>1 DEF RolePending
  <2>2. RolePending(x)' => RolePending(x)
    BY <1>1 DEF RolePending
  <2>3. x = Head(roleEvents).role => RolePending(x)
    BY <1>1 DEF RolePending
  <2> QED  BY <2>1, <2>2, <2>3
<1>3. RemovalPending(x) <=> \/ RemovalPending(x)'
                            \/ x = Head(roleEvents).role /\ Head(roleEvents).type # "modified"
  BY <1>1 DEF RemovalPending
<1> QED  BY <1>2, <1>3

\* The same for an SCC.
LEMMA SCCPendingTailed ==
  ASSUME TypeOK, sccEvents # <<>>, sccEvents' = Tail(sccEvents), NEW x
  PROVE  SCCPending(x) <=> SCCPending(x)' \/ x = Head(sccEvents).scc
<1>1. /\ Head(sccEvents) = sccEvents[1] /\ 1 \in DOMAIN sccEvents
      /\ \A i \in DOMAIN sccEvents' : i + 1 \in DOMAIN sccEvents /\ sccEvents'[i] = sccEvents[i + 1]
      /\ \A i \in DOMAIN sccEvents :
           i = 1 \/ (i - 1 \in DOMAIN sccEvents' /\ sccEvents'[i - 1] = sccEvents[i])
  BY SeqTail DEF TypeOK
<1> QED  BY <1>1 DEF SCCPending

\* The calls stay true when a store changes with a call for what has changed ...
LEMMA RoleEventsAppended ==
  ASSUME TypeOK, RoleEventsTrue, RemovalFollows,
         NEW e \in RoleEvents, roleEvents' = Append(roleEvents, e),
         \A x : x # e.role => /\ RulesOf(roles', x) = RulesOf(roles, x)
                              /\ x \in DOMAIN roles' <=> x \in DOMAIN roles,
         e.rules = RulesOf(roles', e.role),
         e.type = "modified" <=> e.role \in DOMAIN roles'
  PROVE  RoleEventsTrue' /\ RemovalFollows'
<1> DEFINE n == Len(roleEvents) + 1
<1>1. roleEvents \in Seq(RoleEvents)
  BY DEF TypeOK
<1>2. /\ DOMAIN roleEvents' = 1 .. n /\ DOMAIN roleEvents = 1 .. Len(roleEvents)
      /\ Len(roleEvents) \in Nat /\ roleEvents'[n] = e
      /\ \A i \in 1 .. Len(roleEvents) : roleEvents'[i] = roleEvents[i]
  BY <1>1, SeqAppend
<1>3. /\ \A i \in DOMAIN roleEvents' : i \in DOMAIN roleEvents \/ i = n
      /\ \A i \in DOMAIN roleEvents : /\ i \in DOMAIN roleEvents' /\ n > i
                                      /\ roleEvents'[i] = roleEvents[i]
      /\ n \in DOMAIN roleEvents' /\ roleEvents'[n] = e
  BY <1>2
<1> HIDE DEF n
<1>4. ASSUME NEW i \in DOMAIN roleEvents',
             \A j \in DOMAIN roleEvents' : j > i => roleEvents'[j].role # roleEvents'[i].role
      PROVE  /\ roleEvents'[i].rules = RulesOf(roles', roleEvents'[i].role)
             /\ roleEvents'[i].type = "modified" <=> roleEvents'[i].role \in DOMAIN roles'
  <2>1. CASE i = n
    BY <2>1, <1>3
  <2>2. CASE i \in DOMAIN roleEvents
    <3>1. roleEvents[i].role # e.role
      BY <1>3, <1>4, <2>2
    <3>2. \A j \in DOMAIN roleEvents : j > i => roleEvents[j].role # roleEvents[i].role
      BY <1>3, <1>4, <2>2
    <3>3. /\ roleEvents[i].rules = RulesOf(roles, roleEvents[i].role)
          /\ roleEvents[i].type = "modified" <=> roleEvents[i].role \in DOMAIN roles
      BY <2>2, <3>2 DEF RoleEventsTrue
    <3> QED  BY <1>3, <2>2, <3>1, <3>3
  <2> QED  BY <1>3, <2>1, <2>2
<1>5. ASSUME NEW i \in DOMAIN roleEvents',
             roleEvents'[i].type = "modified", roleEvents'[i].role \notin DOMAIN roles'
      PROVE  \E j \in DOMAIN roleEvents' :
               /\ j > i /\ roleEvents'[j].role = roleEvents'[i].role
               /\ roleEvents'[j].type # "modified"
  <2>1. i \in DOMAIN roleEvents
    BY <1>3, <1>5
  <2>2. CASE roleEvents[i].role = e.role
    BY <1>3, <1>5, <2>1, <2>2
  <2>3. CASE roleEvents[i].role # e.role
    <3>1. PICK j \in DOMAIN roleEvents :
            j > i /\ roleEvents[j].role = roleEvents[i].role /\ roleEvents[j].type # "modified"
      BY <1>3, <1>5, <2>1, <2>3 DEF RemovalFollows
    <3> QED  BY <1>3, <2>1, <3>1
  <2> QED  BY <2>2, <2>3
<1>6. RoleEventsTrue'
  BY <1>4 DEF RoleEventsTrue, RulesOf
<1>7. RemovalFollows'
  BY <1>5 DEF RemovalFollows
<1> QED  BY <1>6, <1>7

\* The same for an SCC.
LEMMA SCCEventsAppended ==
  ASSUME TypeOK, SCCEventsTrue, NEW e \in SCCEvents, sccEvents' = Append(sccEvents, e),
         \A x : x # e.scc => (x \in DOMAIN sccs' <=> x \in DOMAIN sccs),
         e.type = "added" <=> e.scc \in DOMAIN sccs'
  PROVE  SCCEventsTrue'
<1> DEFINE n == Len(sccEvents) + 1
<1>1. sccEvents \in Seq(SCCEvents)
  BY DEF TypeOK
<1>2. /\ DOMAIN sccEvents' = 1 .. n /\ DOMAIN sccEvents = 1 .. Len(sccEvents)
      /\ Len(sccEvents) \in Nat /\ sccEvents'[n] = e
      /\ \A i \in 1 .. Len(sccEvents) : sccEvents'[i] = sccEvents[i]
  BY <1>1, SeqAppend
<1>3. /\ \A i \in DOMAIN sccEvents' : i \in DOMAIN sccEvents \/ i = n
      /\ \A i \in DOMAIN sccEvents : /\ i \in DOMAIN sccEvents' /\ n > i
                                     /\ sccEvents'[i] = sccEvents[i]
      /\ n \in DOMAIN sccEvents' /\ sccEvents'[n] = e
  BY <1>2
<1> HIDE DEF n
<1>4. ASSUME NEW i \in DOMAIN sccEvents',
             \A j \in DOMAIN sccEvents' : j > i => sccEvents'[j].scc # sccEvents'[i].scc
      PROVE  sccEvents'[i].type = "added" <=> sccEvents'[i].scc \in DOMAIN sccs'
  <2>1. CASE i = n
    BY <2>1, <1>3
  <2>2. CASE i \in DOMAIN sccEvents
    <3>1. sccEvents[i].scc # e.scc
      BY <1>3, <1>4, <2>2
    <3>2. \A j \in DOMAIN sccEvents : j > i => sccEvents[j].scc # sccEvents[i].scc
      BY <1>3, <1>4, <2>2
    <3>3. sccEvents[i].type = "added" <=> sccEvents[i].scc \in DOMAIN sccs
      BY <2>2, <3>2 DEF SCCEventsTrue
    <3> QED  BY <1>3, <2>2, <3>1, <3>3
  <2> QED  BY <1>3, <2>1, <2>2
<1> QED  BY <1>4 DEF SCCEventsTrue

\* ... and when one is made, which tells the truth if it is the last of its kind.
LEMMA RoleEventsTailed ==
  ASSUME TypeOK, RoleEventsTrue, RemovalFollows, roleEvents # <<>>,
         roleEvents' = Tail(roleEvents), roles' = roles
  PROVE  /\ RoleEventsTrue' /\ RemovalFollows'
         /\ \A x : x = Head(roleEvents).role /\ ~ RolePending(x)' =>
              /\ Head(roleEvents).rules = RulesOf(roles, x)
              /\ Head(roleEvents).type = "modified" <=> x \in DOMAIN roles
<1>1. /\ Head(roleEvents) = roleEvents[1] /\ 1 \in DOMAIN roleEvents
      /\ \A i \in DOMAIN roleEvents' : i + 1 \in DOMAIN roleEvents /\ roleEvents'[i] = roleEvents[i + 1]
      /\ \A i \in DOMAIN roleEvents :
           i = 1 \/ (i - 1 \in DOMAIN roleEvents' /\ roleEvents'[i - 1] = roleEvents[i])
      /\ DOMAIN roleEvents \subseteq Nat /\ DOMAIN roleEvents' \subseteq Nat
  BY SeqTail DEF TypeOK
<1>2. ASSUME NEW i \in DOMAIN roleEvents', NEW j \in DOMAIN roleEvents, j > i + 1
      PROVE  j - 1 \in DOMAIN roleEvents' /\ j - 1 > i /\ roleEvents'[j - 1] = roleEvents[j]
  <2>1. i \in Nat /\ j \in Nat
    BY <1>1
  <2>2. j # 1 /\ j - 1 > i
    BY <1>2, <2>1
  <2> QED  BY <1>1, <2>2
<1>3. ASSUME NEW i \in DOMAIN roleEvents',
             \A j \in DOMAIN roleEvents' : j > i => roleEvents'[j].role # roleEvents'[i].role
      PROVE  /\ roleEvents'[i].rules = RulesOf(roles, roleEvents'[i].role)
             /\ roleEvents'[i].type = "modified" <=> roleEvents'[i].role \in DOMAIN roles
  <2>1. \A j \in DOMAIN roleEvents : j > i + 1 => roleEvents[j].role # roleEvents[i + 1].role
    BY <1>1, <1>2, <1>3
  <2>2. /\ roleEvents[i + 1].rules = RulesOf(roles, roleEvents[i + 1].role)
        /\ roleEvents[i + 1].type = "modified" <=> roleEvents[i + 1].role \in DOMAIN roles
    BY <1>1, <2>1 DEF RoleEventsTrue
  <2> QED  BY <1>1, <2>2
<1>4. ASSUME NEW i \in DOMAIN roleEvents',
             roleEvents'[i].type = "modified", roleEvents'[i].role \notin DOMAIN roles
      PROVE  \E j \in DOMAIN roleEvents' :
               /\ j > i /\ roleEvents'[j].role = roleEvents'[i].role
               /\ roleEvents'[j].type # "modified"
  <2>1. PICK j \in DOMAIN roleEvents :
          j > i + 1 /\ roleEvents[j].role = roleEvents[i + 1].role /\ roleEvents[j].type # "modified"
    BY <1>1, <1>4 DEF RemovalFollows
  <2>2. j - 1 \in DOMAIN roleEvents' /\ j - 1 > i /\ roleEvents'[j - 1] = roleEvents[j]
    BY <1>2, <2>1
  <2>3. /\ roleEvents'[j - 1].role = roleEvents'[i].role
        /\ roleEvents'[j - 1].type # "modified"
    BY <1>1, <2>1, <2>2
  <2> QED  BY <2>2, <2>3
<1>5. RoleEventsTrue' /\ RemovalFollows'
  BY <1>3, <1>4 DEF RoleEventsTrue, RemovalFollows, RulesOf
<1>6. ASSUME NEW x, x = Head(roleEvents).role, ~ RolePending(x)'
      PROVE  /\ Head(roleEvents).rules = RulesOf(roles, x)
             /\ Head(roleEvents).type = "modified" <=> x \in DOMAIN roles
  <2>1. \A j \in DOMAIN roleEvents : j > 1 => roleEvents[j].role # roleEvents[1].role
    <3> SUFFICES ASSUME NEW j \in DOMAIN roleEvents, j > 1
                 PROVE  roleEvents[j].role # roleEvents[1].role
      OBVIOUS
    <3>1. j # 1
      BY <1>1
    <3>2. j - 1 \in DOMAIN roleEvents' /\ roleEvents'[j - 1] = roleEvents[j]
      BY <1>1, <3>1
    <3> QED  BY <1>1, <1>6, <3>2 DEF RolePending
  <2> QED  BY <1>1, <1>6, <2>1, Zenon DEF RoleEventsTrue
<1> QED  BY <1>5, <1>6

\* The same for an SCC.
LEMMA SCCEventsTailed ==
  ASSUME TypeOK, SCCEventsTrue, sccEvents # <<>>, sccEvents' = Tail(sccEvents), sccs' = sccs
  PROVE  /\ SCCEventsTrue'
         /\ \A x : x = Head(sccEvents).scc /\ ~ SCCPending(x)' =>
              (Head(sccEvents).type = "added" <=> x \in DOMAIN sccs)
<1>1. /\ Head(sccEvents) = sccEvents[1] /\ 1 \in DOMAIN sccEvents
      /\ \A i \in DOMAIN sccEvents' : i + 1 \in DOMAIN sccEvents /\ sccEvents'[i] = sccEvents[i + 1]
      /\ \A i \in DOMAIN sccEvents :
           i = 1 \/ (i - 1 \in DOMAIN sccEvents' /\ sccEvents'[i - 1] = sccEvents[i])
      /\ DOMAIN sccEvents \subseteq Nat /\ DOMAIN sccEvents' \subseteq Nat
  BY SeqTail DEF TypeOK
<1>2. ASSUME NEW i \in DOMAIN sccEvents', NEW j \in DOMAIN sccEvents, j > i + 1
      PROVE  j - 1 \in DOMAIN sccEvents' /\ j - 1 > i /\ sccEvents'[j - 1] = sccEvents[j]
  <2>1. i \in Nat /\ j \in Nat
    BY <1>1
  <2>2. j # 1 /\ j - 1 > i
    BY <1>2, <2>1
  <2> QED  BY <1>1, <2>2
<1>3. ASSUME NEW i \in DOMAIN sccEvents',
             \A j \in DOMAIN sccEvents' : j > i => sccEvents'[j].scc # sccEvents'[i].scc
      PROVE  sccEvents'[i].type = "added" <=> sccEvents'[i].scc \in DOMAIN sccs
  <2>1. \A j \in DOMAIN sccEvents : j > i + 1 => sccEvents[j].scc # sccEvents[i + 1].scc
    BY <1>1, <1>2, <1>3
  <2>2. sccEvents[i + 1].type = "added" <=> sccEvents[i + 1].scc \in DOMAIN sccs
    BY <1>1, <2>1 DEF SCCEventsTrue
  <2> QED  BY <1>1, <2>2
<1>4. SCCEventsTrue'
  BY <1>3 DEF SCCEventsTrue
<1>5. ASSUME NEW x, x = Head(sccEvents).scc, ~ SCCPending(x)'
      PROVE  Head(sccEvents).type = "added" <=> x \in DOMAIN sccs
  <2>1. \A j \in DOMAIN sccEvents : j > 1 => sccEvents[j].scc # sccEvents[1].scc
    <3> SUFFICES ASSUME NEW j \in DOMAIN sccEvents, j > 1
                 PROVE  sccEvents[j].scc # sccEvents[1].scc
      OBVIOUS
    <3>1. j # 1
      BY <1>1
    <3>2. j - 1 \in DOMAIN sccEvents' /\ sccEvents'[j - 1] = sccEvents[j]
      BY <1>1, <3>1
    <3> QED  BY <1>1, <1>5, <3>2 DEF SCCPending
  <2> QED  BY <1>1, <1>5, <2>1 DEF SCCEventsTrue
<1> QED  BY <1>4, <1>5

\* A role, or an SCC, changes: nothing is claimed of it until its call is made.
LEMMA RoleChangeKept ==
  ASSUME TypeOK, CacheInv, NEW e \in RoleEvents, roleEvents' = Append(roleEvents, e),
         \A x : x # e.role => /\ RulesOf(roles', x) = RulesOf(roles, x)
                              /\ x \in DOMAIN roles' <=> x \in DOMAIN roles,
         e.rules = RulesOf(roles', e.role),
         e.type = "modified" <=> e.role \in DOMAIN roles',
         UNCHANGED <<sccs, sccEvents, listedSCCs, listedRoles, usefulRoles, raced, missed>>
  PROVE  CacheInv'
<1>1. RoleEventsTrue' /\ RemovalFollows'
  BY RoleEventsAppended DEF CacheInv
<1>2. SCCEventsTrue'
  BY DEF CacheInv, SCCEventsTrue
<1>3. \A x : ~ RolePending(x)' => ~ RolePending(x) /\ RulesOf(roles', x) = RulesOf(roles, x)
  BY RolePendingAppended
<1>4. \A x : (SCCPending(x)' <=> SCCPending(x)) /\ Cached(x)' = Cached(x)
  BY Zenon DEF SCCPending, Cached
<1>5. ListedSCCsCurrent => ListedSCCsCurrent'
  BY <1>4 DEF ListedSCCsCurrent
<1>6. ListedRolesCurrent => ListedRolesCurrent'
  BY <1>3, Zenon DEF ListedRolesCurrent, RulesOf
<1>7. CacheCurrent => CacheCurrent'
  <2>1. \A r : RulesOf(roles, r)' = RulesOf(roles', r)
    BY DEF RulesOf
  <2> QED  BY <1>3, <1>4, <2>1, Zenon DEF CacheCurrent
<1> QED  BY <1>1, <1>2, <1>5, <1>6, <1>7 DEF CacheInv

\* The same for an SCC.
LEMMA SCCChangeKept ==
  ASSUME TypeOK, CacheInv, NEW e \in SCCEvents, sccEvents' = Append(sccEvents, e),
         \A x : x # e.scc => (x \in DOMAIN sccs' <=> x \in DOMAIN sccs),
         e.type = "added" <=> e.scc \in DOMAIN sccs',
         UNCHANGED <<roles, roleEvents, listedSCCs, listedRoles, usefulRoles, raced, missed>>
  PROVE  CacheInv'
<1>1. SCCEventsTrue'
  BY SCCEventsAppended DEF CacheInv
<1>2. RoleEventsTrue' /\ RemovalFollows'
  BY DEF CacheInv, RoleEventsTrue, RemovalFollows, RulesOf
<1>3. \A x : ~ SCCPending(x)' => ~ SCCPending(x) /\ (x \in DOMAIN sccs' <=> x \in DOMAIN sccs)
  BY SCCPendingAppended
<1>4. \A x : /\ RolePending(x)' <=> RolePending(x)
             /\ Cached(x)' = Cached(x) /\ RulesOf(roles, x)' = RulesOf(roles, x)
  BY DEF RolePending, Cached, RulesOf
<1>5. ListedSCCsCurrent => ListedSCCsCurrent'
  BY <1>3 DEF ListedSCCsCurrent
<1>6. ListedRolesCurrent => ListedRolesCurrent'
  BY <1>4 DEF ListedRolesCurrent, RulesOf
<1>7. CacheCurrent => CacheCurrent'
  BY <1>3, <1>4, Zenon DEF CacheCurrent
<1> QED  BY <1>1, <1>2, <1>5, <1>6, <1>7 DEF CacheInv

\* Steps that leave alone all that the invariant is about.
LEMMA CacheUntouched ==
  ASSUME CacheInv, DOMAIN sccs' = DOMAIN sccs,
         UNCHANGED <<roles, roleEvents, sccEvents, listedSCCs, listedRoles, usefulRoles,
                     raced, missed>>
  PROVE  CacheInv'
<1>1. RoleEventsTrue' /\ SCCEventsTrue' /\ RemovalFollows'
  <2>1. RoleEventsTrue /\ SCCEventsTrue /\ RemovalFollows
    BY Zenon DEF CacheInv
  <2>2. RoleEventsTrue'
    BY <2>1 DEF RoleEventsTrue, RulesOf
  <2>3. SCCEventsTrue'
    BY <2>1 DEF SCCEventsTrue
  <2>4. RemovalFollows'
    BY <2>1 DEF RemovalFollows
  <2> QED
    BY <2>2, <2>3, <2>4, Zenon
<1>2. \A x : (RolePending(x)' <=> RolePending(x)) /\ (SCCPending(x)' <=> SCCPending(x))
  BY DEF RolePending, SCCPending
<1>3. ListedSCCsCurrent => ListedSCCsCurrent'
  BY <1>2 DEF ListedSCCsCurrent
<1>4. ListedRolesCurrent => ListedRolesCurrent'
  BY <1>2 DEF ListedRolesCurrent, RulesOf
<1>5. CacheCurrent => CacheCurrent'
  BY <1>2, Zenon DEF CacheCurrent, RulesOf, Cached
<1> QED  BY <1>1, <1>3, <1>4, <1>5 DEF CacheInv

\* A change of a store puts the cache behind only by the call that follows.
LEMMA StoresKeepCache == ASSUME Typed, CacheInv, Stores PROVE CacheInv'
<1> USE DEF Typed
<1>1. ASSUME NEW r \in Roles, NEW rules \in SUBSET SCCs, ModifyRole(r, rules) PROVE CacheInv'
  <2> DEFINE e == [type |-> "modified", role |-> r, rules |-> rules]
  <2>1. e \in RoleEvents /\ e.role = r /\ e.rules = rules /\ e.type = "modified"
    BY DEF RoleEvents
  <2> HIDE DEF e
  <2>2. roleEvents' = Append(roleEvents, e) /\ roles' = With(roles, r, rules)
    BY <1>1, Zenon DEF ModifyRole, e
  <2>3. /\ \A x : x # r => /\ RulesOf(roles', x) = RulesOf(roles, x)
                           /\ x \in DOMAIN roles' <=> x \in DOMAIN roles
        /\ rules = RulesOf(roles', r) /\ r \in DOMAIN roles'
    BY <2>2 DEF RulesOf, With
  <2> QED  BY <1>1, <2>1, <2>2, <2>3, RoleChangeKept, Zenon DEF ModifyRole, handlers
<1>2. ASSUME NEW r \in Roles, RemoveRole(r) PROVE CacheInv'
  <2>1. PICK type \in {"removed", "missed"} :
          roleEvents' = Append(roleEvents, [type |-> type, role |-> r, rules |-> {}])
    BY <1>2, Zenon DEF RemoveRole
  <2> DEFINE e == [type |-> type, role |-> r, rules |-> {}]
  <2>2. e \in RoleEvents /\ e.role = r /\ e.rules = {} /\ e.type # "modified"
    BY Zenon DEF RoleEvents
  <2> HIDE DEF e
  <2>3. roleEvents' = Append(roleEvents, e) /\ roles' = Without(roles, r)
    BY <1>2, <2>1 DEF RemoveRole, e
  <2>4. /\ \A x : x # r => /\ RulesOf(roles', x) = RulesOf(roles, x)
                           /\ x \in DOMAIN roles' <=> x \in DOMAIN roles
        /\ {} = RulesOf(roles', r) /\ r \notin DOMAIN roles'
    BY <2>3 DEF RulesOf, Without, Restrict
  <2> QED  BY <1>2, <2>2, <2>3, <2>4, RoleChangeKept, Zenon DEF RemoveRole, handlers
<1>3. ASSUME NEW s \in SCCs, NEW content \in Contents, AddSCC(s, content) PROVE CacheInv'
  <2> DEFINE e == [type |-> "added", scc |-> s]
  <2>1. e \in SCCEvents /\ e.scc = s /\ e.type = "added"
    BY DEF SCCEvents
  <2> HIDE DEF e
  <2>2. sccEvents' = Append(sccEvents, e) /\ DOMAIN sccs' = DOMAIN sccs \cup {s}
    BY <1>3, MapsRead, Zenon DEF AddSCC, e
  <2> QED  BY <1>3, <2>1, <2>2, SCCChangeKept, Zenon DEF AddSCC, handlers
<1>4. ASSUME NEW s \in SCCs, DeleteSCC(s) PROVE CacheInv'
  <2>1. PICK type \in {"deleted", "missed"} :
          sccEvents' = Append(sccEvents, [type |-> type, scc |-> s])
    BY <1>4 DEF DeleteSCC
  <2> DEFINE e == [type |-> type, scc |-> s]
  <2>2. e \in SCCEvents /\ e.scc = s /\ e.type # "added"
    BY DEF SCCEvents
  <2> HIDE DEF e
  <2>3. sccEvents' = Append(sccEvents, e) /\ DOMAIN sccs' = DOMAIN sccs \ {s}
    BY <1>4, <2>1, MapsRead, Zenon DEF DeleteSCC, e
  <2> QED  BY <1>4, <2>2, <2>3, SCCChangeKept DEF DeleteSCC, handlers
<1>5. ASSUME NEW s \in SCCs, NEW content \in Contents, UpdateSCC(s, content) PROVE CacheInv'
  <2>1. DOMAIN sccs' = DOMAIN sccs
    BY <1>5 DEF UpdateSCC
  <2> QED  BY <1>5, <2>1, CacheUntouched DEF UpdateSCC, events, handlers
<1>6. ASSUME NEW r \in Roles, ChangeBinding(r) PROVE CacheInv'
  BY <1>6, CacheUntouched DEF ChangeBinding, handlers
<1> QED  BY <1>1, <1>2, <1>3, <1>4, <1>5, <1>6 DEF Stores

\* The role handlers leave the cache behind only by calls still to be made, unless raced.
LEMMA RoleInformerKeepsCache == ASSUME Typed, CacheInv, RoleInformer PROVE CacheInv'
<1> USE DEF Typed
<1>1. CASE ListSCCs
  <2>1. ListedSCCsCurrent'
    BY <1>1 DEF ListedSCCsCurrent, ListSCCs, stores
  <2>2. UNCHANGED <<roles, sccs, roleEvents, sccEvents, listedRoles, usefulRoles, raced, missed>>
    BY <1>1 DEF ListSCCs, stores, events
  <2>3. RoleEventsTrue' /\ SCCEventsTrue' /\ RemovalFollows'
    <3>1. RoleEventsTrue'
      BY <2>2 DEF CacheInv, RoleEventsTrue, RulesOf
    <3>2. SCCEventsTrue'
      BY <2>2 DEF CacheInv, SCCEventsTrue
    <3>3. RemovalFollows'
      BY <2>2 DEF CacheInv, RemovalFollows
    <3> QED
      BY <3>1, <3>2, <3>3
  <2>4. \A x : (RolePending(x)' <=> RolePending(x)) /\ (SCCPending(x)' <=> SCCPending(x))
    BY <2>2 DEF RolePending, SCCPending
  <2>5. ListedRolesCurrent => ListedRolesCurrent'
    BY <2>2, <2>4 DEF ListedRolesCurrent, RulesOf
  <2>6. CacheCurrent => CacheCurrent'
    BY <2>2, <2>4, Zenon DEF CacheCurrent, RulesOf, Cached
  <2> QED  BY <2>1, <2>2, <2>3, <2>5, <2>6 DEF CacheInv
<1>2. ASSUME RoleHandled, roleEvents # <<>>
      PROVE  /\ RoleEventsTrue' /\ RemovalFollows' /\ SCCEventsTrue'
             /\ roles' = roles /\ sccs' = sccs
             /\ \A x : SCCPending(x)' <=> SCCPending(x)
             /\ \A x : RolePending(x) <=> RolePending(x)' \/ x = Head(roleEvents).role
             /\ \A x : x = Head(roleEvents).role /\ ~ RolePending(x)' =>
                  /\ Head(roleEvents).rules = RulesOf(roles, x)
                  /\ Head(roleEvents).type = "modified" <=> x \in DOMAIN roles
  <2>1. /\ roleEvents' = Tail(roleEvents) /\ roles' = roles /\ sccs' = sccs
        /\ sccEvents' = sccEvents
    BY <1>2 DEF RoleHandled, stores
  <2>2. /\ RoleEventsTrue' /\ RemovalFollows'
        /\ \A x : x = Head(roleEvents).role /\ ~ RolePending(x)' =>
             /\ Head(roleEvents).rules = RulesOf(roles, x)
             /\ Head(roleEvents).type = "modified" <=> x \in DOMAIN roles
    BY <1>2, <2>1, RoleEventsTailed DEF CacheInv
  <2>3. SCCEventsTrue' /\ \A x : SCCPending(x)' <=> SCCPending(x)
    BY <2>1 DEF CacheInv, SCCEventsTrue, SCCPending
  <2>4. \A x : RolePending(x) <=> RolePending(x)' \/ x = Head(roleEvents).role
    BY <1>2, <2>1, RolePendingTailed
  <2> QED  BY <2>1, <2>2, <2>3, <2>4, Zenon
<1>3. CASE handleRoleModified
  <2> DEFINE rules   == Head(roleEvents).rules
             allowed == syncRoleCache(rules, listedSCCs[1])
  <2>0. PICK role : role = Head(roleEvents).role
    OBVIOUS
  <2>1. roleEvents # <<>> /\ RoleHandled /\ listedSCCs # <<>> /\ listedSCCs' = <<>>
    BY <1>3, Zenon DEF handleRoleModified, TypeOK
  <2>2. CASE raced' \/ missed'
    BY <1>2, <2>1, <2>2, Zenon DEF CacheInv
  <2>3. CASE ~ raced' /\ ~ missed'
    <3>1. ~ raced /\ ~ missed /\ listedRoles = <<>> /\ listedRoles' = <<>>
      BY <1>3, <2>3, Zenon DEF handleRoleModified, RoleHandled, TypeOK
    <3>2. ListedSCCsCurrent /\ CacheCurrent
      BY <3>1 DEF CacheInv
    <3>3. Cached(role)' = allowed /\ \A r \in Roles : r # role => Cached(r)' = Cached(r)
      BY <1>3, <2>0, CachedWith, Zenon DEF handleRoleModified
    <3>4. ListedSCCsCurrent' /\ ListedRolesCurrent'
      BY <2>1, <3>1 DEF ListedSCCsCurrent, ListedRolesCurrent
    <3>5. ASSUME NEW r \in Roles, ~ RolePending(r)'
          PROVE  /\ Cached(r)' \subseteq RulesOf(roles, r)
                 /\ \A s \in SCCs : ~ SCCPending(s)' =>
                      (s \in Cached(r)' <=> s \in RulesOf(roles, r) /\ s \in DOMAIN sccs)
      <4>1. CASE r = role
        <5>1. rules = RulesOf(roles, role)
          BY <1>2, <2>0, <2>1, <3>5, <4>1, Zenon
        <5>2. \A s \in SCCs : ~ SCCPending(s)' => (s \in listedSCCs[1] <=> s \in DOMAIN sccs)
          BY <1>2, <2>1, <3>2, Zenon DEF ListedSCCsCurrent
        <5>3. \A s : s \in Cached(r)' <=> s \in listedSCCs[1] /\ s \in rules
          BY <3>3, <4>1 DEF syncRoleCache
        <5> HIDE DEF rules, allowed
        <5> QED  BY <4>1, <5>1, <5>2, <5>3
      <4>2. CASE r # role
        <5>1. ~ RolePending(r) /\ Cached(r)' = Cached(r)
          BY <1>2, <2>0, <2>1, <3>3, <3>5, <4>2, Zenon
        <5> QED  BY <1>2, <2>1, <3>2, <5>1, Zenon DEF CacheCurrent
      <4> QED  BY <4>1, <4>2
    <3>6. CacheCurrent'
      <4>1. roles' = roles /\ sccs' = sccs
        BY <1>2, <2>1
      <4>2. \A r : RulesOf(roles, r)' = RulesOf(roles, r)
        BY <4>1 DEF RulesOf
      <4> QED  BY <3>5, <4>1, <4>2 DEF CacheCurrent
    <3> QED  BY <1>2, <2>1, <3>4, <3>6, Zenon DEF CacheInv
  <2> QED  BY <2>2, <2>3
<1>4. CASE handleRoleRemoved
  <2>0. PICK role : role = Head(roleEvents).role
    OBVIOUS
  <2>1. roleEvents # <<>> /\ RoleHandled /\ listedSCCs = <<>> /\ listedSCCs' = <<>>
    BY <1>4 DEF handleRoleRemoved, RoleEvent, TypeOK
  <2>2. CASE raced' \/ missed'
    BY <1>2, <2>1, <2>2, Zenon DEF CacheInv
  <2>3. CASE ~ raced' /\ ~ missed'
    <3>1. ~ raced /\ ~ missed /\ listedRoles = <<>> /\ listedRoles' = <<>>
      BY <1>4, <2>3, Zenon DEF handleRoleRemoved, RoleHandled, TypeOK
    <3>2. CacheCurrent
      BY <3>1 DEF CacheInv
    <3>3. Cached(role)' = {} /\ \A r \in Roles : r # role => Cached(r)' = Cached(r)
      BY <1>4, <2>0, CachedWithout, Zenon DEF handleRoleRemoved
    <3>4. ListedSCCsCurrent' /\ ListedRolesCurrent'
      BY <2>1, <3>1 DEF ListedSCCsCurrent, ListedRolesCurrent
    <3>5. ASSUME NEW r \in Roles, ~ RolePending(r)'
          PROVE  /\ Cached(r)' \subseteq RulesOf(roles, r)
                 /\ \A s \in SCCs : ~ SCCPending(s)' =>
                      (s \in Cached(r)' <=> s \in RulesOf(roles, r) /\ s \in DOMAIN sccs)
      <4>1. CASE r = role
        <5>1. Head(roleEvents).type # "modified"
          BY <1>4, Zenon DEF handleRoleRemoved, RoleEvent
        <5>2. r \notin DOMAIN roles
          BY <1>2, <2>0, <2>1, <3>5, <4>1, <5>1, Zenon
        <5> QED  BY <3>3, <4>1, <5>2 DEF RulesOf
      <4>2. CASE r # role
        <5>1. ~ RolePending(r) /\ Cached(r)' = Cached(r)
          BY <1>2, <2>0, <2>1, <3>3, <3>5, <4>2
        <5> QED  BY <1>2, <2>1, <3>2, <5>1, Zenon DEF CacheCurrent
      <4> QED  BY <4>1, <4>2
    <3>6. CacheCurrent'
      <4>1. roles' = roles /\ sccs' = sccs
        BY <1>2, <2>1
      <4>2. \A r : RulesOf(roles, r)' = RulesOf(roles, r)
        BY <4>1 DEF RulesOf
      <4> QED  BY <3>5, <4>1, <4>2 DEF CacheCurrent
    <3> QED  BY <1>2, <2>1, <3>4, <3>6 DEF CacheInv
  <2> QED  BY <2>2, <2>3
<1>5. CASE DropRoleTombstone
  <2>1. roleEvents # <<>> /\ RoleHandled /\ missed'
    BY <1>5 DEF DropRoleTombstone, RoleEvent
  <2> QED  BY <1>2, <2>1 DEF CacheInv
<1> QED  BY <1>1, <1>3, <1>4, <1>5 DEF RoleInformer

\* So do the SCC handlers.
LEMMA SCCInformerKeepsCache == ASSUME Typed, CacheInv, SCCInformer PROVE CacheInv'
<1> USE DEF Typed
<1>1. CASE ListRoles
  <2>1. ListedRolesCurrent'
    BY <1>1 DEF ListedRolesCurrent, RulesOf, ListRoles, stores
  <2>2. UNCHANGED <<roles, sccs, roleEvents, sccEvents, listedSCCs, usefulRoles, raced, missed>>
    BY <1>1 DEF ListRoles, stores, events
  <2>3. RoleEventsTrue' /\ SCCEventsTrue' /\ RemovalFollows'
    <3>1. RoleEventsTrue'
      BY <2>2 DEF CacheInv, RoleEventsTrue, RulesOf
    <3>2. SCCEventsTrue'
      BY <2>2 DEF CacheInv, SCCEventsTrue
    <3>3. RemovalFollows'
      BY <2>2 DEF CacheInv, RemovalFollows
    <3> QED
      BY <3>1, <3>2, <3>3
  <2>4. \A x : (RolePending(x)' <=> RolePending(x)) /\ (SCCPending(x)' <=> SCCPending(x))
    BY <2>2 DEF RolePending, SCCPending
  <2>5. ListedSCCsCurrent => ListedSCCsCurrent'
    BY <2>2, <2>4 DEF ListedSCCsCurrent
  <2>6. CacheCurrent => CacheCurrent'
    BY <2>2, <2>4, Zenon DEF CacheCurrent, RulesOf, Cached
  <2> QED  BY <2>1, <2>2, <2>3, <2>5, <2>6 DEF CacheInv
<1>2. ASSUME SCCHandled, sccEvents # <<>>
      PROVE  /\ RoleEventsTrue' /\ RemovalFollows' /\ SCCEventsTrue'
             /\ roles' = roles /\ sccs' = sccs
             /\ \A x : (RolePending(x)' <=> RolePending(x)) /\ RulesOf(roles, x)' = RulesOf(roles, x)
             /\ \A x : SCCPending(x) <=> SCCPending(x)' \/ x = Head(sccEvents).scc
             /\ \A x : x = Head(sccEvents).scc /\ ~ SCCPending(x)' =>
                  (Head(sccEvents).type = "added" <=> x \in DOMAIN sccs)
  <2>1. /\ sccEvents' = Tail(sccEvents) /\ roles' = roles /\ sccs' = sccs
        /\ roleEvents' = roleEvents
    BY <1>2 DEF SCCHandled, stores
  <2>2. /\ SCCEventsTrue'
        /\ \A x : x = Head(sccEvents).scc /\ ~ SCCPending(x)' =>
             (Head(sccEvents).type = "added" <=> x \in DOMAIN sccs)
    BY <1>2, <2>1, SCCEventsTailed, Zenon DEF CacheInv
  <2>3. /\ RoleEventsTrue' /\ RemovalFollows'
        /\ \A x : (RolePending(x)' <=> RolePending(x)) /\ RulesOf(roles, x)' = RulesOf(roles, x)
    BY <2>1, Zenon DEF CacheInv, RoleEventsTrue, RemovalFollows, RolePending, RulesOf
  <2>4. \A x : SCCPending(x) <=> SCCPending(x)' \/ x = Head(sccEvents).scc
    BY <1>2, <2>1, SCCPendingTailed, Zenon
  <2> QED  BY <2>1, <2>2, <2>3, <2>4, Zenon
<1>3. CASE handleSCCAdded
  <2>0. PICK scc : scc = Head(sccEvents).scc
    OBVIOUS
  <2>1. /\ sccEvents # <<>> /\ SCCHandled /\ listedRoles # <<>> /\ listedRoles' = <<>>
        /\ Head(sccEvents).type = "added"
    BY <1>3 DEF handleSCCAdded, TypeOK
  <2>2. CASE raced' \/ missed'
    BY <1>2, <2>1, <2>2, Zenon DEF CacheInv
  <2>3. CASE ~ raced' /\ ~ missed'
    <3>1. ~ raced /\ ~ missed /\ listedSCCs = <<>> /\ listedSCCs' = <<>>
      BY <1>3, <2>3, Zenon DEF handleSCCAdded, SCCHandled, TypeOK
    <3>2. ListedRolesCurrent /\ CacheCurrent
      BY <3>1 DEF CacheInv
    <3>3. PICK listed : listed = listedRoles[1]
      OBVIOUS
    <3>4. \A r : Cached(r)' = IF scc \in RulesOf(listed, r) THEN Cached(r) \cup {scc} ELSE Cached(r)
      <4>1. syncRoleCacheSingleSCCAdded(scc, listed)
        BY <1>3, <2>0, <3>3, Zenon DEF handleSCCAdded
      <4> QED  BY <4>1, CachedAdded DEF RulesOf
    <3>5. ListedSCCsCurrent' /\ ListedRolesCurrent'
      BY <2>1, <3>1 DEF ListedSCCsCurrent, ListedRolesCurrent
    <3>6. ASSUME NEW r \in Roles, ~ RolePending(r)'
          PROVE  /\ Cached(r)' \subseteq RulesOf(roles, r)
                 /\ \A s \in SCCs : ~ SCCPending(s)' =>
                      (s \in Cached(r)' <=> s \in RulesOf(roles, r) /\ s \in DOMAIN sccs)
      <4>1. ~ RolePending(r) /\ RulesOf(listed, r) = RulesOf(roles, r)
        BY <1>2, <2>1, <3>2, <3>3, <3>6, Zenon DEF ListedRolesCurrent
      <4>2. Cached(r) \subseteq RulesOf(roles, r)
        BY <3>2, <4>1 DEF CacheCurrent
      <4>3. ASSUME NEW s \in SCCs, ~ SCCPending(s)'
            PROVE  s \in Cached(r)' <=> s \in RulesOf(roles, r) /\ s \in DOMAIN sccs
        <5>1. CASE s = scc
          <6>1. s \in DOMAIN sccs
            BY <1>2, <2>0, <2>1, <4>3, <5>1, Zenon
          <6> QED  BY <3>4, <4>1, <4>2, <5>1, <6>1
        <5>2. CASE s # scc
          <6>1. ~ SCCPending(s)
            BY <1>2, <2>0, <2>1, <4>3, <5>2
          <6>2. s \in Cached(r) <=> s \in RulesOf(roles, r) /\ s \in DOMAIN sccs
            BY <3>2, <4>1, <6>1 DEF CacheCurrent
          <6> QED  BY <3>4, <5>2, <6>2
        <5> QED  BY <5>1, <5>2
      <4> QED  BY <3>4, <4>1, <4>2, <4>3
    <3>7. CacheCurrent'
      BY <1>2, <2>1, <3>6, Zenon DEF CacheCurrent
    <3> QED  BY <1>2, <2>1, <3>5, <3>7, Zenon DEF CacheInv
  <2> QED  BY <2>2, <2>3
<1>4. CASE handleSCCDeleted
  <2>0. PICK scc : scc = Head(sccEvents).scc
    OBVIOUS
  <2>1. /\ sccEvents # <<>> /\ SCCHandled /\ listedRoles = <<>> /\ listedRoles' = <<>>
        /\ Head(sccEvents).type # "added"
    BY <1>4 DEF handleSCCDeleted, SCCEvent, TypeOK
  <2>2. CASE raced' \/ missed'
    BY <1>2, <2>1, <2>2, Zenon DEF CacheInv
  <2>3. CASE ~ raced' /\ ~ missed'
    <3>1. ~ raced /\ ~ missed /\ listedSCCs = <<>> /\ listedSCCs' = <<>>
      BY <1>4, <2>3, Zenon DEF handleSCCDeleted, SCCHandled, TypeOK
    <3>2. CacheCurrent
      BY <3>1 DEF CacheInv
    <3>3. \A r : Cached(r)' = Cached(r) \ {scc}
      BY <1>4, <2>0, CachedDeleted, Zenon DEF handleSCCDeleted
    <3>4. ListedSCCsCurrent' /\ ListedRolesCurrent'
      BY <2>1, <3>1 DEF ListedSCCsCurrent, ListedRolesCurrent
    <3>5. ASSUME NEW r \in Roles, ~ RolePending(r)'
          PROVE  /\ Cached(r)' \subseteq RulesOf(roles, r)
                 /\ \A s \in SCCs : ~ SCCPending(s)' =>
                      (s \in Cached(r)' <=> s \in RulesOf(roles, r) /\ s \in DOMAIN sccs)
      <4>1. ~ RolePending(r)
        BY <1>2, <2>1, <3>5, Zenon
      <4>2. Cached(r) \subseteq RulesOf(roles, r)
        BY <3>2, <4>1 DEF CacheCurrent
      <4>3. ASSUME NEW s \in SCCs, ~ SCCPending(s)'
            PROVE  s \in Cached(r)' <=> s \in RulesOf(roles, r) /\ s \in DOMAIN sccs
        <5>1. CASE s = scc
          <6>1. s \notin DOMAIN sccs
            BY <1>2, <2>0, <2>1, <4>3, <5>1
          <6> QED  BY <3>3, <5>1, <6>1
        <5>2. CASE s # scc
          <6>1. ~ SCCPending(s)
            BY <1>2, <2>0, <2>1, <4>3, <5>2, Zenon
          <6>2. s \in Cached(r) <=> s \in RulesOf(roles, r) /\ s \in DOMAIN sccs
            BY <3>2, <4>1, <6>1 DEF CacheCurrent
          <6> QED  BY <3>3, <5>2, <6>2
        <5> QED  BY <5>1, <5>2
      <4> QED  BY <3>3, <4>2, <4>3
    <3>6. CacheCurrent'
      BY <1>2, <2>1, <3>5, Zenon DEF CacheCurrent
    <3> QED  BY <1>2, <2>1, <3>4, <3>6 DEF CacheInv
  <2> QED  BY <2>2, <2>3
<1>5. CASE DropSCCTombstone
  <2>1. sccEvents # <<>> /\ SCCHandled /\ missed'
    BY <1>5 DEF DropSCCTombstone, SCCEvent
  <2> QED  BY <1>2, <2>1, Zenon DEF CacheInv
<1> QED  BY <1>1, <1>3, <1>4, <1>5 DEF SCCInformer

\* So does a resync of the roles, which repeats calls.
LEMMA ResyncKeepsCache == ASSUME Typed, CacheInv, ResyncRoles PROVE CacheInv'
<1> USE DEF Typed
<1>1. \A i \in DOMAIN roleEvents' :
        /\ roleEvents'[i].type = "modified" /\ roleEvents'[i].role \in DOMAIN roles
        /\ roleEvents'[i].rules = roles[roleEvents'[i].role]
  BY ResyncReports
<1>2. /\ roleEvents = <<>>
      /\ UNCHANGED <<roles, sccs, sccEvents, listedSCCs, listedRoles, usefulRoles, raced, missed>>
  BY DEF ResyncRoles, stores, handlers
<1>3. RoleEventsTrue' /\ RemovalFollows'
  BY <1>1, <1>2 DEF RoleEventsTrue, RemovalFollows, RulesOf
<1>4. \A x : ~ RolePending(x)
  BY <1>2 DEF RolePending
<1>5. \A x : /\ SCCPending(x)' <=> SCCPending(x)
             /\ Cached(x)' = Cached(x) /\ RulesOf(roles, x)' = RulesOf(roles, x)
  BY <1>2 DEF SCCPending, Cached, RulesOf
<1>6. SCCEventsTrue'
  BY <1>2 DEF CacheInv, SCCEventsTrue
<1>7. ListedSCCsCurrent => ListedSCCsCurrent'
  BY <1>2, <1>5 DEF ListedSCCsCurrent
<1>8. ListedRolesCurrent => ListedRolesCurrent'
  BY <1>2, <1>4 DEF ListedRolesCurrent, RulesOf
<1>9. CacheCurrent => CacheCurrent'
  BY <1>2, <1>4, <1>5 DEF CacheCurrent
<1> QED  BY <1>2, <1>3, <1>6, <1>7, <1>8, <1>9 DEF CacheInv

\* The cache starts as empty as the stores.
LEMMA CacheInvInit == Init => CacheInv
<1> SUFFICES ASSUME Init PROVE CacheInv
  OBVIOUS
<1>1. /\ roles = <<>> /\ sccs = <<>> /\ usefulRoles = <<>> /\ roleEvents = <<>>
      /\ sccEvents = <<>> /\ listedSCCs = <<>> /\ listedRoles = <<>>
  BY DEF Init
<1>2. RoleEventsTrue /\ SCCEventsTrue /\ RemovalFollows
  BY <1>1 DEF RoleEventsTrue, SCCEventsTrue, RemovalFollows
<1>3. ListedSCCsCurrent /\ ListedRolesCurrent
  BY <1>1 DEF ListedSCCsCurrent, ListedRolesCurrent
<1>4. CacheCurrent
  BY <1>1 DEF CacheCurrent, RulesOf, Cached
<1> QED  BY <1>2, <1>3, <1>4 DEF CacheInv

\* Every step keeps the cache's invariant.
LEMMA CacheInvNext == Typed /\ CacheInv /\ [Next]_vars => CacheInv'
<1> SUFFICES ASSUME Typed, CacheInv, [Next]_vars PROVE CacheInv'
  OBVIOUS
<1>1. CASE \/ BindingEvent \/ ResyncNamespace \/ UNCHANGED vars
           \/ Sync \/ (\E r \in Roles : SCCsFor(r)) \/ SyncEnds
  BY <1>1, CacheUntouched, Zenon DEF BindingEvent, ResyncNamespace, Sync, SCCsFor, SyncEnds, vars,
     stores, events, handlers
<1> QED  BY <1>1, StoresKeepCache, RoleInformerKeepsCache, SCCInformerKeepsCache,
            ResyncKeepsCache DEF Next

-----------------------------------------------------------------------------
(* The invariant of the namespace's sync.                                  *)

\* A change of the bindings of r would have queued the namespace.
Relevant(r) == ~ BindingPending(r) /\ ~ RemovalPending(r) /\ Cached(r) # {}
Agrees(B)   == \A r \in Roles : Relevant(r) => (r \in B <=> r \in bindings)

\* What a running sync has found in the SCCs and in the roles of B it has looked
\* up, and what the last one computed, is outdated only by changes whose calls
\* are still to be made.
FoundFor(B) ==
  \A s \in SCCs : ~ SCCPending(s) =>
    (s \in syncing[1].allowed <=>
       \/ s \in DOMAIN sccs /\ sccs[s] \in Direct
       \/ \E r \in B \ syncing[1].unread : s \in Cached(r))
ListedCurrent ==
  syncing # <<>> => \E B \in SUBSET Roles : /\ Agrees(B) /\ syncing[1].unread \subseteq B
                                            /\ FoundFor(B)
ComputedFor(B) ==
  \A s \in SCCs, c \in Contents : ~ SCCPending(s) =>
    (<<s, c>> \in computed <=>
       /\ s \in DOMAIN sccs /\ c = sccs[s]
       /\ c \in Direct \/ \E r \in B : s \in Cached(r))
ComputedCurrent ==
  syncing = <<>> => \E B \in SUBSET Roles : Agrees(B) /\ ComputedFor(B)

\* Nothing is claimed while the namespace is queued, or after a race, a missed
\* deletion, also one still to be reported of a binding, or the update of an SCC.
Excused == queued \/ raced \/ missed \/ unnoticed \/ BindingPending(BindingTombstone)
SyncInv == Excused \/ (ListedCurrent /\ ComputedCurrent)

\* A step that does not queue the namespace keeps the cache, and changes what
\* the sync saw only together with a call still to be made.
LEMMA SyncKept ==
  ASSUME SyncInv, UNCHANGED <<syncing, computed>>, Excused => Excused',
         ~ Excused' =>
           /\ \A r : Cached(r)' = Cached(r)
           /\ \A r \in Roles : Relevant(r)' => Relevant(r) /\ (r \in bindings' <=> r \in bindings)
           /\ \A s \in SCCs : ~ SCCPending(s)' =>
                /\ ~ SCCPending(s)
                /\ s \in DOMAIN sccs' <=> s \in DOMAIN sccs
                /\ s \in DOMAIN sccs => sccs'[s] = sccs[s]
  PROVE  SyncInv'
<1> SUFFICES ASSUME ~ Excused' PROVE ListedCurrent' /\ ComputedCurrent'
  BY Zenon DEF SyncInv
<1>1. ListedCurrent /\ ComputedCurrent
  BY Zenon DEF SyncInv
<1>2. \A B : Agrees(B) => Agrees(B)'
  BY DEF Agrees
<1>3. ListedCurrent'
  <2> SUFFICES ASSUME syncing' # <<>>
               PROVE  \E B \in SUBSET Roles :
                        (Agrees(B) /\ syncing[1].unread \subseteq B /\ FoundFor(B))'
    BY Zenon DEF ListedCurrent
  <2>1. PICK B \in SUBSET Roles : Agrees(B) /\ syncing[1].unread \subseteq B /\ FoundFor(B)
    BY <1>1, Zenon DEF ListedCurrent
  <2>2. FoundFor(B)'
    BY <2>1, Zenon DEF FoundFor
  <2> QED  BY <1>2, <2>1, <2>2, Zenon
<1>4. ComputedCurrent'
  <2> SUFFICES ASSUME syncing' = <<>> PROVE \E B \in SUBSET Roles : (Agrees(B) /\ ComputedFor(B))'
    BY Zenon DEF ComputedCurrent
  <2>1. PICK B \in SUBSET Roles : Agrees(B) /\ ComputedFor(B)
    BY <1>1, Zenon DEF ComputedCurrent
  <2>2. ComputedFor(B)'
    BY <2>1, Zenon DEF ComputedFor
  <2> QED  BY <1>2, <2>1, <2>2, Zenon
<1> QED  BY <1>3, <1>4

\* A change of a store is followed by a call that queues the namespace.
LEMMA StoresKeepSync == ASSUME Typed, SyncInv, Stores PROVE SyncInv'
<1> USE DEF Typed
<1>1. ASSUME NEW r \in Roles, NEW rules \in SUBSET SCCs, ModifyRole(r, rules) PROVE SyncInv'
  <2> DEFINE e == [type |-> "modified", role |-> r, rules |-> rules]
  <2>1. e \in RoleEvents /\ e.type = "modified"
    BY DEF RoleEvents
  <2> HIDE DEF e
  <2>2. roleEvents' = Append(roleEvents, e)
    BY <1>1 DEF ModifyRole, e
  <2>3. \A x : RemovalPending(x)' <=> RemovalPending(x)
    BY <2>1, <2>2, RolePendingAppended
  <2>4. \A x : /\ Cached(x)' = Cached(x) /\ (BindingPending(x)' <=> BindingPending(x))
               /\ SCCPending(x)' <=> SCCPending(x)
    BY <1>1, Zenon DEF ModifyRole, Cached, BindingPending, SCCPending
  <2>5. \A x : Relevant(x)' <=> Relevant(x)
    BY <2>3, <2>4 DEF Relevant
  <2> QED  BY <1>1, <2>4, <2>5, SyncKept, Zenon DEF ModifyRole, Excused, BindingPending, worker
<1>2. ASSUME NEW r \in Roles, RemoveRole(r) PROVE SyncInv'
  <2>1. PICK type \in {"removed", "missed"} :
          roleEvents' = Append(roleEvents, [type |-> type, role |-> r, rules |-> {}])
    BY <1>2, Zenon DEF RemoveRole
  <2> DEFINE e == [type |-> type, role |-> r, rules |-> {}]
  <2>2. e \in RoleEvents
    BY Zenon DEF RoleEvents
  <2> HIDE DEF e
  <2>3. roleEvents' = Append(roleEvents, e)
    BY <2>1 DEF e
  <2>4. \A x : RemovalPending(x) => RemovalPending(x)'
    BY <2>2, <2>3, RolePendingAppended
  <2>5. \A x : /\ Cached(x)' = Cached(x) /\ (BindingPending(x)' <=> BindingPending(x))
               /\ SCCPending(x)' <=> SCCPending(x)
    BY <1>2, Zenon DEF RemoveRole, Cached, BindingPending, SCCPending
  <2>6. \A x : Relevant(x)' => Relevant(x)
    BY <2>4, <2>5 DEF Relevant
  <2> QED  BY <1>2, <2>5, <2>6, SyncKept, Zenon DEF RemoveRole, Excused, BindingPending, worker
<1>3. ASSUME NEW r \in Roles, ChangeBinding(r) PROVE SyncInv'
  <2>0. PICK e \in {r, BindingTombstone} : bindingEvents' = Append(bindingEvents, e)
    BY <1>3, Zenon DEF ChangeBinding
  <2>1. \A x : BindingPending(x)' <=> BindingPending(x) \/ x = e
    <3>1. bindingEvents \in Seq(Roles \cup {BindingTombstone}) /\ e \in Roles \cup {BindingTombstone}
      BY DEF TypeOK
    <3> DEFINE n == Len(bindingEvents) + 1
    <3>2. /\ DOMAIN bindingEvents' = 1 .. n /\ DOMAIN bindingEvents = 1 .. Len(bindingEvents)
          /\ Len(bindingEvents) \in Nat /\ bindingEvents'[n] = e
          /\ \A i \in 1 .. Len(bindingEvents) : bindingEvents'[i] = bindingEvents[i]
      BY <2>0, <3>1, SeqAppend
    <3>3. /\ \A i \in DOMAIN bindingEvents' : i \in DOMAIN bindingEvents \/ i = n
          /\ \A i \in DOMAIN bindingEvents : /\ i \in DOMAIN bindingEvents'
                                             /\ bindingEvents'[i] = bindingEvents[i]
          /\ n \in DOMAIN bindingEvents' /\ bindingEvents'[n] = e
      BY <3>2
    <3> HIDE DEF n
    <3> QED  BY <3>3 DEF BindingPending
  <2>2. \A x : /\ Cached(x)' = Cached(x) /\ (RemovalPending(x)' <=> RemovalPending(x))
               /\ SCCPending(x)' <=> SCCPending(x)
    BY <1>3, Zenon DEF ChangeBinding, Cached, RemovalPending, SCCPending
  <2>3. CASE e = BindingTombstone
    BY <2>1, <2>3, Zenon DEF SyncInv, Excused
  <2>4. CASE e = r
    <3>1. \A x \in Roles : Relevant(x)' => Relevant(x) /\ x # r
      BY <2>1, <2>2, <2>4 DEF Relevant
    <3>2. \A x \in Roles : x # r => (x \in bindings' <=> x \in bindings)
      BY <1>3 DEF ChangeBinding
    <3>3. Excused => Excused'
      BY <1>3, <2>1, Zenon DEF ChangeBinding, Excused, worker
    <3> QED  BY <1>3, <2>2, <3>1, <3>2, <3>3, SyncKept, Zenon DEF ChangeBinding, worker
  <2> QED  BY <2>3, <2>4
<1>4. ASSUME NEW e \in SCCEvents, sccEvents' = Append(sccEvents, e),
             \A x : x # e.scc => /\ x \in DOMAIN sccs' <=> x \in DOMAIN sccs
                                 /\ x \in DOMAIN sccs => sccs'[x] = sccs[x],
             UNCHANGED <<bindings, roleEvents, bindingEvents, usefulRoles, queued, worker,
                         raced, missed>>
      PROVE  SyncInv'
  <2>1. \A x : SCCPending(x)' <=> SCCPending(x) \/ x = e.scc
    BY <1>4, SCCPendingAppended, Zenon
  <2>2. \A x : Cached(x)' = Cached(x) /\ (Relevant(x)' <=> Relevant(x))
    BY <1>4, Zenon DEF Cached, Relevant, BindingPending, RemovalPending
  <2> QED  BY <1>4, <2>1, <2>2, SyncKept, Zenon DEF Excused, BindingPending, worker
<1>5. ASSUME NEW s \in SCCs, NEW content \in Contents, AddSCC(s, content) PROVE SyncInv'
  <2> DEFINE e == [type |-> "added", scc |-> s]
  <2>1. e \in SCCEvents /\ e.scc = s
    BY DEF SCCEvents
  <2> HIDE DEF e
  <2>2. sccEvents' = Append(sccEvents, e) /\ sccs' = With(sccs, s, content)
    BY <1>5 DEF AddSCC, e
  <2>3. \A x : x # s => /\ x \in DOMAIN sccs' <=> x \in DOMAIN sccs
                        /\ x \in DOMAIN sccs => sccs'[x] = sccs[x]
    BY <2>2 DEF With
  <2> QED  BY <1>4, <1>5, <2>1, <2>2, <2>3, Zenon DEF AddSCC
<1>6. ASSUME NEW s \in SCCs, DeleteSCC(s) PROVE SyncInv'
  <2>1. PICK type \in {"deleted", "missed"} :
          sccEvents' = Append(sccEvents, [type |-> type, scc |-> s])
    BY <1>6 DEF DeleteSCC
  <2> DEFINE e == [type |-> type, scc |-> s]
  <2>2. e \in SCCEvents /\ e.scc = s
    BY DEF SCCEvents
  <2> HIDE DEF e
  <2>3. sccEvents' = Append(sccEvents, e) /\ sccs' = Without(sccs, s)
    BY <1>6, <2>1 DEF DeleteSCC, e
  <2>4. \A x : x # s => /\ x \in DOMAIN sccs' <=> x \in DOMAIN sccs
                        /\ x \in DOMAIN sccs => sccs'[x] = sccs[x]
    BY <2>3 DEF Without, Restrict
  <2> QED  BY <1>4, <1>6, <2>2, <2>3, <2>4, Zenon DEF DeleteSCC
<1>7. ASSUME NEW s \in SCCs, NEW content \in Contents, UpdateSCC(s, content) PROVE SyncInv'
  BY <1>7 DEF UpdateSCC, SyncInv, Excused
<1> QED  BY <1>1, <1>2, <1>3, <1>5, <1>6, <1>7 DEF Stores

\* A role's handler queues the namespace unless it leaves the cache as it is.
LEMMA RoleInformerKeepsSync == ASSUME Typed, SyncInv, RoleInformer PROVE SyncInv'
<1> USE DEF Typed
<1>1. CASE ListSCCs
  <2>1. \A x : /\ Cached(x)' = Cached(x) /\ (Relevant(x)' <=> Relevant(x))
               /\ SCCPending(x)' <=> SCCPending(x)
    BY <1>1, Zenon DEF ListSCCs, Cached, Relevant, BindingPending, RemovalPending, SCCPending, events
  <2> QED  BY <1>1, <2>1, SyncKept DEF ListSCCs, Excused, BindingPending, stores, events, worker
<1>2. ASSUME RoleHandled, roleEvents # <<>>
      PROVE  /\ UNCHANGED <<syncing, computed, unnoticed, bindings, sccs>>
             /\ \A x : /\ BindingPending(x)' <=> BindingPending(x)
                       /\ SCCPending(x)' <=> SCCPending(x)
             /\ \A x : RemovalPending(x) <=>
                  RemovalPending(x)' \/ (x = Head(roleEvents).role /\ Head(roleEvents).type # "modified")
  <2>1. \A x : RemovalPending(x) <=>
          RemovalPending(x)' \/ (x = Head(roleEvents).role /\ Head(roleEvents).type # "modified")
    BY <1>2, RolePendingTailed DEF RoleHandled
  <2> QED  BY <1>2, <2>1, Zenon DEF RoleHandled, stores, worker, BindingPending, SCCPending
<1>3. CASE handleRoleModified
  <2>0. PICK role : role = Head(roleEvents).role
    OBVIOUS
  <2>1. roleEvents # <<>> /\ RoleHandled /\ Head(roleEvents).type = "modified"
    BY <1>3, Zenon DEF handleRoleModified, TypeOK
  <2>2. role \in Roles
    BY <2>0, <2>1, RoleHead
  <2>3. Excused => Excused'
    BY <1>2, <1>3, <2>1, Zenon DEF handleRoleModified, Excused
  <2>4. ASSUME ~ Excused', NEW r PROVE Cached(r)' = Cached(r)
    <3> DEFINE allowed == syncRoleCache(Head(roleEvents).rules, listedSCCs[1])
    <3>1. allowed = Cached(role) /\ usefulRoles' = With(usefulRoles, role, allowed)
      BY <1>3, <2>0, <2>4, Zenon DEF handleRoleModified, Excused
    <3> HIDE DEF allowed
    <3> QED  BY <3>1 DEF Cached, With
  <2>5. ~ Excused' => \A x : Relevant(x)' <=> Relevant(x)
    BY <1>2, <2>1, <2>4 DEF Relevant
  <2> QED  BY <1>2, <2>1, <2>3, <2>4, <2>5, SyncKept
<1>4. CASE handleRoleRemoved
  <2>0. PICK role : role = Head(roleEvents).role
    OBVIOUS
  <2>1. roleEvents # <<>> /\ RoleHandled
    BY <1>4 DEF handleRoleRemoved, RoleEvent
  <2>2. Excused => Excused'
    BY <1>2, <1>4, <2>1, Zenon DEF handleRoleRemoved, Excused
  <2>3. ASSUME ~ Excused', NEW r PROVE Cached(r)' = Cached(r) /\ Cached(role) = {}
    <3>1. role \notin DOMAIN usefulRoles /\ usefulRoles' = Without(usefulRoles, role)
      BY <1>4, <2>0, <2>3, Zenon DEF handleRoleRemoved, Excused
    <3> QED  BY <3>1 DEF Cached, Without, Restrict
  <2>4. ASSUME ~ Excused', NEW x, Relevant(x)' PROVE Relevant(x)
    <3>1. x # role
      BY <2>3, <2>4 DEF Relevant
    <3> QED  BY <1>2, <2>0, <2>1, <2>3, <2>4, <3>1, Zenon DEF Relevant
  <2> QED  BY <1>2, <2>1, <2>2, <2>3, <2>4, SyncKept
<1>5. CASE DropRoleTombstone
  BY <1>5 DEF DropRoleTombstone, SyncInv, Excused
<1> QED  BY <1>1, <1>3, <1>4, <1>5 DEF RoleInformer

\* The SCC handlers queue the namespace when they changed the cache.
LEMMA SCCInformerKeepsSync == ASSUME Typed, SyncInv, SCCInformer PROVE SyncInv'
<1>1. CASE ListRoles
  <2>1. \A x : /\ Cached(x)' = Cached(x) /\ (Relevant(x)' <=> Relevant(x))
               /\ SCCPending(x)' <=> SCCPending(x)
    BY <1>1, Zenon DEF ListRoles, Cached, Relevant, BindingPending, RemovalPending, SCCPending, events
  <2> QED  BY <1>1, <2>1, SyncKept DEF ListRoles, Excused, BindingPending, stores, events, worker
<1>2. CASE handleSCCAdded \/ handleSCCDeleted \/ DropSCCTombstone
  BY <1>2 DEF handleSCCAdded, handleSCCDeleted, DropSCCTombstone, SyncInv, Excused
<1> QED  BY <1>1, <1>2 DEF SCCInformer

\* A binding is filtered out only if its role has nothing in the cache, or is
\* about to be removed from it.
LEMMA BindingKeepsSync == ASSUME Typed, CacheInv, SyncInv, BindingEvent PROVE SyncInv'
<1> USE DEF Typed
<1>0. PICK r : r = Head(bindingEvents)
  OBVIOUS
<1>1. /\ r \in Roles \cup {BindingTombstone} /\ bindingEvents # <<>>
      /\ bindingEvents' = Tail(bindingEvents)
  BY <1>0 DEF BindingEvent, TypeOK
<1>2. \A x : BindingPending(x) => BindingPending(x)' \/ x = r
  <2>1. /\ Head(bindingEvents) = bindingEvents[1]
        /\ \A i \in DOMAIN bindingEvents :
             i = 1 \/ (i - 1 \in DOMAIN bindingEvents' /\ bindingEvents'[i - 1] = bindingEvents[i])
    BY <1>1, SeqTail DEF TypeOK
  <2> QED  BY <1>0, <2>1 DEF BindingPending
<1>3. \A x : /\ Cached(x)' = Cached(x) /\ (RemovalPending(x)' <=> RemovalPending(x))
             /\ SCCPending(x)' <=> SCCPending(x)
  BY DEF BindingEvent, Cached, RemovalPending, SCCPending
<1>4. ASSUME ~ Excused' PROVE r \in Roles /\ ~ Relevant(r)'
  <2>0. r \in Roles
    BY <1>0, <1>1, <1>4, Zenon DEF BindingEvent, Excused
  <2>1. ~ raced /\ ~ missed /\ ~ (r \in DOMAIN roles /\ Cached(r) # {})
    BY <1>0, <1>4, Zenon DEF BindingEvent, Excused, IsRoleBindingRelevant
  <2>2. CASE Cached(r) = {}
    BY <1>3, <2>0, <2>2 DEF Relevant
  <2>3. CASE Cached(r) # {}
    <3>1. r \notin DOMAIN roles
      BY <2>1, <2>3
    <3>2. RolePending(r)
      BY <2>0, <2>1, <2>3, <3>1, Zenon DEF CacheInv, CacheCurrent, RulesOf
    <3>3. RemovalPending(r)
      BY <3>1, <3>2, Zenon DEF CacheInv, RemovalFollows, RolePending, RemovalPending
    <3> QED  BY <1>3, <2>0, <3>3 DEF Relevant
  <2> QED  BY <2>2, <2>3
<1>5. ~ Excused' => \A x \in Roles : Relevant(x)' => Relevant(x)
  BY <1>2, <1>3, <1>4 DEF Relevant
<1>6. Excused => Excused'
  BY <1>0, <1>2, Zenon DEF BindingEvent, Excused
<1> QED  BY <1>3, <1>5, <1>6, SyncKept DEF BindingEvent, stores

\* A resync of the roles keeps what is still to be synced queued.
LEMMA ResyncKeepsSync == ASSUME Typed, SyncInv, ResyncRoles PROVE SyncInv'
<1>1. roleEvents = <<>> /\ \A i \in DOMAIN roleEvents' : roleEvents'[i].type = "modified"
  BY ResyncReports, Zenon DEF Typed, ResyncRoles
<1>2. \A x : ~ RemovalPending(x) /\ ~ RemovalPending(x)'
  BY <1>1 DEF RemovalPending
<1>3. \A x : /\ Cached(x)' = Cached(x) /\ (BindingPending(x)' <=> BindingPending(x))
             /\ SCCPending(x)' <=> SCCPending(x)
  BY Zenon DEF ResyncRoles, Cached, BindingPending, SCCPending
<1>4. \A x : Relevant(x)' <=> Relevant(x)
  BY <1>2, <1>3 DEF Relevant
<1> QED  BY <1>3, <1>4, SyncKept, Zenon DEF ResyncRoles, Excused, BindingPending, stores, worker

\* A sync computes from the cache as it is, and ends or is queued again.
LEMMA SyncKeepsSync ==
  ASSUME Typed, SyncInv, Sync \/ (\E r \in Roles : SCCsFor(r)) \/ SyncEnds PROVE SyncInv'
<1> USE DEF Typed
<1>1. CASE Sync
  <2>1. /\ syncing' = <<[unread |-> bindings, allowed |-> NamedBy(sccs)]>>
        /\ bindings' = bindings /\ sccs' = sccs
    BY <1>1, Zenon DEF Sync, stores
  <2>2. /\ syncing' # <<>> /\ syncing'[1].unread = bindings
        /\ syncing'[1].allowed = NamedBy(sccs) /\ bindings \in SUBSET Roles
    BY <2>1 DEF TypeOK
  <2>3. FoundFor(bindings)'
    BY <2>1, <2>2 DEF FoundFor, NamedBy
  <2>4. Agrees(bindings)'
    BY <2>1, Zenon DEF Agrees
  <2>5. ListedCurrent'
    BY <2>1, <2>2, <2>3, <2>4, Zenon DEF ListedCurrent
  <2>6. ComputedCurrent'
    BY <2>2 DEF ComputedCurrent
  <2> QED  BY <2>5, <2>6 DEF SyncInv
<1>2. ASSUME UNCHANGED <<stores, events, usefulRoles>>
      PROVE  /\ \A x : /\ Cached(x)' = Cached(x) /\ (Relevant(x)' <=> Relevant(x))
                       /\ SCCPending(x)' <=> SCCPending(x)
             /\ \A B : Agrees(B)' <=> Agrees(B)
  <2>1. \A x : /\ Cached(x)' = Cached(x) /\ (Relevant(x)' <=> Relevant(x))
               /\ SCCPending(x)' <=> SCCPending(x)
    BY <1>2, Zenon DEF Cached, Relevant, BindingPending, RemovalPending, SCCPending, events
  <2> QED  BY <1>2, <2>1, Zenon DEF Agrees, stores
<1>3. ASSUME NEW r \in Roles, SCCsFor(r) PROVE SyncInv'
  <2> SUFFICES ASSUME ~ Excused' PROVE ListedCurrent' /\ ComputedCurrent'
    BY DEF SyncInv
  <2>1. /\ syncing # <<>> /\ r \in syncing[1].unread
        /\ syncing' = <<[unread  |-> syncing[1].unread \ {r},
                         allowed |-> syncing[1].allowed \cup Cached(r)]>>
        /\ UNCHANGED <<stores, events, usefulRoles, queued, unnoticed, raced, missed>>
    BY <1>3, Zenon DEF SCCsFor
  <2>2. /\ syncing' # <<>> /\ syncing'[1].unread = syncing[1].unread \ {r}
        /\ syncing'[1].allowed = syncing[1].allowed \cup Cached(r)
    BY <2>1
  <2>3. PICK B \in SUBSET Roles : Agrees(B) /\ syncing[1].unread \subseteq B /\ FoundFor(B)
    BY <2>1, Zenon DEF SyncInv, ListedCurrent, Excused, BindingPending, events
  <2>4. B \ syncing'[1].unread = (B \ syncing[1].unread) \cup {r}
    BY <2>1, <2>2, <2>3
  <2>5. FoundFor(B)'
    <3> SUFFICES ASSUME NEW s \in SCCs, ~ SCCPending(s)'
                 PROVE  s \in syncing'[1].allowed <=>
                          \/ s \in DOMAIN sccs' /\ sccs'[s] \in Direct
                          \/ \E x \in B \ syncing'[1].unread : s \in Cached(x)'
      BY Zenon DEF FoundFor
    <3>1. s \in syncing[1].allowed <=>
            \/ s \in DOMAIN sccs /\ sccs[s] \in Direct
            \/ \E x \in B \ syncing[1].unread : s \in Cached(x)
      BY <1>2, <2>1, <2>3, Zenon DEF FoundFor
    <3>2. s \in syncing'[1].allowed <=> s \in syncing[1].allowed \/ s \in Cached(r)
      BY <2>2
    <3>3. (\E x \in B \ syncing'[1].unread : s \in Cached(x)') <=>
            (\E x \in B \ syncing[1].unread : s \in Cached(x)) \/ s \in Cached(r)
      <4>1. \A x : Cached(x)' = Cached(x)
        BY <1>2, <2>1
      <4> QED  BY <2>4, <4>1, Zenon
    <3>4. sccs' = sccs
      BY <2>1 DEF stores
    <3> QED  BY <3>1, <3>2, <3>3, <3>4
  <2>6. syncing'[1].unread \subseteq B
    BY <2>2, <2>3
  <2>7. ListedCurrent'
    BY <1>2, <2>1, <2>3, <2>5, <2>6, Zenon DEF ListedCurrent
  <2> QED  BY <2>2, <2>7 DEF ComputedCurrent
<1>4. CASE SyncEnds
  <2> DEFINE allowed == syncing[1].allowed
  <2>1. CASE ~ allowed \subseteq DOMAIN sccs
    BY <1>4, <2>1, Zenon DEF SyncEnds, SyncInv, Excused
  <2>2. CASE allowed \subseteq DOMAIN sccs
    <3> SUFFICES ASSUME ~ Excused' PROVE ListedCurrent' /\ ComputedCurrent'
      BY DEF SyncInv
    <3>1. computed' = {<<scc, sccs[scc]>> : scc \in allowed} /\ queued' = queued
      BY <1>4, <2>2, Zenon DEF SyncEnds
    <3>2. /\ syncing # <<>> /\ syncing[1].unread = {} /\ syncing' = <<>>
          /\ UNCHANGED <<stores, events, usefulRoles, unnoticed, raced, missed>>
      BY <1>4, Zenon DEF SyncEnds
    <3>3. PICK B \in SUBSET Roles : Agrees(B) /\ FoundFor(B)
      BY <3>1, <3>2, Zenon DEF SyncInv, ListedCurrent, Excused, BindingPending, events
    <3>4. Agrees(B)'
      BY <1>2, <3>2, <3>3
    <3>5. ASSUME NEW s \in SCCs, NEW c \in Contents, ~ SCCPending(s)'
          PROVE  <<s, c>> \in computed' <=>
                   /\ s \in DOMAIN sccs /\ c = sccs[s]
                   /\ c \in Direct \/ \E r \in B : s \in Cached(r)
      <4>1. B \ syncing[1].unread = B
        BY <3>2
      <4>2. s \in allowed <=> \/ s \in DOMAIN sccs /\ sccs[s] \in Direct
                              \/ \E r \in B : s \in Cached(r)
        BY <1>2, <3>2, <3>3, <3>5, <4>1, Zenon DEF FoundFor
      <4> HIDE DEF allowed
      <4>3. <<s, c>> \in computed' <=> s \in allowed /\ c = sccs[s]
        BY <3>1, Zenon
      <4> QED  BY <2>2, <4>2, <4>3, Zenon
    <3>6. ComputedFor(B)'
      BY <1>2, <3>2, <3>5 DEF ComputedFor, stores
    <3>7. ComputedCurrent'
      BY <3>4, <3>6 DEF ComputedCurrent
    <3> QED  BY <3>2, <3>7 DEF ListedCurrent
  <2> QED  BY <2>1, <2>2
<1> QED  BY <1>1, <1>3, <1>4

\* Every step keeps what is not synced queued or still to be called.
LEMMA SyncInvNext == Typed /\ CacheInv /\ SyncInv /\ [Next]_vars => SyncInv'
<1> SUFFICES ASSUME Typed, CacheInv, SyncInv, [Next]_vars PROVE SyncInv'
  OBVIOUS
<1>1. CASE ResyncNamespace
  BY <1>1 DEF ResyncNamespace, SyncInv, Excused
<1>2. CASE UNCHANGED vars
  BY <1>2, SyncKept, Zenon DEF vars, stores, events, worker, Excused, Cached, Relevant,
     BindingPending, RemovalPending, SCCPending
<1> QED  BY <1>1, <1>2, StoresKeepSync, RoleInformerKeepsSync, SCCInformerKeepsSync,
            BindingKeepsSync, ResyncKeepsSync, SyncKeepsSync DEF Next

-----------------------------------------------------------------------------
\* The informers' handlers and the sync keep the types of all they share.
THEOREM CacheTypes == Spec => []TypeOK
<1>1. Typed => TypeOK
  BY DEF Typed
<1> QED  BY <1>1, TypedInit, TypedNext, PTL DEF Spec

\* With no calls to be made, the cache has what the stores allow.
LEMMA QuietCurrent ==
  ASSUME Typed, CacheInv, Quiet, ~ raced, ~ missed, NEW r \in Roles
  PROVE  Cached(r) = Allowed(r)
<1>1. CacheCurrent /\ \A x : ~ RolePending(x) /\ ~ SCCPending(x)
  BY DEF CacheInv, Quiet, RolePending, SCCPending
<1>2. \A s \in SCCs : s \in Cached(r) <=> s \in RulesOf(roles, r) /\ s \in DOMAIN sccs
  BY <1>1 DEF CacheCurrent
<1>3. Cached(r) \subseteq SCCs /\ DOMAIN sccs \subseteq SCCs
  BY DEF Typed, TypeOK, Cached
<1> QED  BY <1>2, <1>3 DEF Allowed, RulesOf

\* When all calls of handlers are done, the mapping that syncRoleCache and
\* syncRoleCacheSingleSCCAdded keep is what the stores say, unless handlers
\* overlapped or a deletion was missed.
THEOREM CacheIsCurrent == Spec => []CurrentUnlessRaced
<1>1. Typed /\ CacheInv => CurrentUnlessRaced
  BY QuietCurrent DEF CurrentUnlessRaced, CurrentMapping
<1> QED  BY <1>1, TypedInit, TypedNext, CacheInvInit, CacheInvNext, PTL DEF Spec

\* No event that changes what the service account may use is filtered out: a
\* namespace whose last sync is outdated is in the queue, unless handlers
\* overlapped, a deletion was missed or, since the last sync began, an SCC was
\* updated or a tombstone of a binding dropped.
THEOREM OutdatedIsQueued == Spec => []SyncedOrQueued
<1>1. Init => SyncInv
  BY DEF Init, SyncInv, Excused
<1>2. ASSUME Typed, CacheInv, SyncInv, Quiet, syncing = <<>>, ~ Excused
      PROVE  computed = Usable
  <2>1. PICK B \in SUBSET Roles : Agrees(B) /\ ComputedFor(B)
    BY <1>2 DEF SyncInv, ComputedCurrent
  <2>2. \A x : ~ SCCPending(x) /\ ~ BindingPending(x) /\ ~ RemovalPending(x)
    BY <1>2 DEF Quiet, SCCPending, BindingPending, RemovalPending
  <2>3. \A r \in Roles : Cached(r) = Allowed(r)
    BY <1>2, QuietCurrent DEF Excused
  <2>4. bindings \subseteq Roles /\ computed \subseteq SCCs \X Contents
    BY <1>2 DEF Typed, TypeOK
  <2>5. \A s : (\E r \in B : s \in Cached(r)) <=> (\E r \in bindings : s \in Allowed(r))
    BY <2>1, <2>2, <2>3, <2>4 DEF Agrees, Relevant
  <2>6. DOMAIN sccs \subseteq SCCs /\ \A s \in DOMAIN sccs : sccs[s] \in Contents
    BY <1>2 DEF Typed, TypeOK
  <2>7. \A s \in SCCs, c \in Contents :
          <<s, c>> \in computed <=> /\ s \in DOMAIN sccs /\ c = sccs[s]
                                    /\ c \in Direct \/ \E r \in bindings : s \in Allowed(r)
    <3> TAKE s \in SCCs, c \in Contents
    <3>1. <<s, c>> \in computed <=> /\ s \in DOMAIN sccs /\ c = sccs[s]
                                    /\ c \in Direct \/ \E r \in B : s \in Cached(r)
      <4>1. ~ SCCPending(s)
        BY <2>2
      <4> QED  BY <2>1, <4>1, Zenon DEF ComputedFor
    <3>2. (\E r \in B : s \in Cached(r)) <=> (\E r \in bindings : s \in Allowed(r))
      BY <2>5
    <3> QED  BY <3>1, <3>2
  <2> DEFINE U == NamedBy(sccs) \cup UNION {Allowed(r) : r \in bindings}
  <2>8. \A s : s \in U <=> \/ s \in DOMAIN sccs /\ sccs[s] \in Direct
                           \/ \E r \in bindings : s \in Allowed(r)
    BY DEF NamedBy
  <2>9. U \subseteq DOMAIN sccs
    BY DEF NamedBy, Allowed
  <2> HIDE DEF U
  <2>10. \A s \in SCCs, c \in Contents :
           <<s, c>> \in computed <=> <<s, c>> \in {<<scc, sccs[scc]>> : scc \in U}
    <3> TAKE s \in SCCs, c \in Contents
    <3>1. <<s, c>> \in {<<scc, sccs[scc]>> : scc \in U} <=> s \in U /\ c = sccs[s]
      OBVIOUS
    <3>2. <<s, c>> \in computed <=> /\ s \in DOMAIN sccs /\ c = sccs[s]
                                    /\ c \in Direct \/ \E r \in bindings : s \in Allowed(r)
      BY <2>7
    <3>3. s \in U <=> \/ s \in DOMAIN sccs /\ sccs[s] \in Direct
                      \/ \E r \in bindings : s \in Allowed(r)
      BY <2>8
    <3>4. s \in U => s \in DOMAIN sccs
      BY <2>9
    <3>5. <<s, c>> \in computed <=> s \in U /\ c = sccs[s]
      <4>1. CASE c = sccs[s]
        BY <3>2, <3>3, <3>4, <4>1, Zenon
      <4>2. CASE c # sccs[s]
        BY <3>2, <4>2
      <4> QED  BY <4>1, <4>2
    <3> QED  BY <3>1, <3>5
  <2>11. {<<scc, sccs[scc]>> : scc \in U} \subseteq SCCs \X Contents
    BY <2>6, <2>9
  <2>12. computed = {<<scc, sccs[scc]>> : scc \in U}
    BY <2>4, <2>10, <2>11
  <2> QED  BY <2>12 DEF U, Usable
<1>3. Typed /\ CacheInv /\ SyncInv => SyncedOrQueued
  BY <1>2 DEF SyncedOrQueued, Excused, Quiet, BindingPending
<1> QED  BY <1>1, <1>3, TypedInit, TypedNext, CacheInvInit, CacheInvNext, SyncInvNext, PTL DEF Spec
=============================================================================
