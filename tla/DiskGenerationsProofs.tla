----------------------- MODULE DiskGenerationsProofs -----------------------
(***************************************************************************)
(* Theorems about DiskGenerations, for any number of handles, processes    *)
(* and lineages, under any failures: the types, that a publication has the *)
(* directory to itself, and, if creates are alone (the run disk_create     *)
(* shows what happens when they are not), that what was saved stays.  Of   *)
(* the invariants, LockInv relates the permit and the lock to the places   *)
(* of the handles; SaveInv adds how far each publication has come, and     *)
(* that a graph has all that the generation it came from has.              *)
(***************************************************************************)
EXTENDS DiskGenerations, FiniteSetTheorems, TLAPS

-----------------------------------------------------------------------------
(* The permit and the lock: the inductive invariant, in named parts.       *)

\* A save, from its permit to its return.
Publishing(r) == r.place \in Save /\ ~r.creates

\* What the place of a handle says of its lineage and of its call.
CallOK(r) ==
    /\ r.creates => r.place \in {"creating"} \cup Save
    /\ r.place = "creating" => r.creates
    /\ r.place \in Live \cup {"creating"} => r.lineage # NoLineage
    /\ r.place = "leased" \/ Publishing(r) => r.using # NoLineage
    /\ r.place = "staged" => r.id # 0

LeaseOK ==
    /\ \A h \in Handles : h \in permit <=> Publishing(handles[h])
    /\ \A h, k \in permit : h = k
    /\ \A h \in permit : handles[h].using = owner

LockInv == TypeOK /\ (\A h \in Handles : CallOK(handles[h])) /\ LeaseOK

-----------------------------------------------------------------------------
(* Lemmas.                                                                 *)

\* What is left of a budget is a budget.
LEMMA SpendFacts ==
    ASSUME left \in Budget, NEW what \in {"writes", "publishes", "troubles"}, Spend(what)
    PROVE  left' \in Budget
  BY DEF Spend, Budget

\* A handle that is not there has a handle's fields, and no call.
LEMMA AbsentFacts == Absent \in Handle /\ CallOK(Absent) /\ ~Publishing(Absent)
  BY DiskAssumption DEF Absent, Handle, Place, Save, Live, CallOK, Publishing, NoLineage

\* A new lineage has a name.
LEMMA NewLineageFacts ==
    ASSUME NEW h, NEW l \in NewLineage(h)
    PROVE  l \in Lineages /\ l # NoLineage
  BY DiskAssumption DEF NewLineage, Unused, NoLineage

\* What a call on h goes on with differs from h in these fields.
LEMMA DetachedFacts ==
    ASSUME TypeOK, NEW h \in Handles, NEW now \in Detached(h), CallOK(handles[h]),
           handles[h].place \in Live
    PROVE  /\ now \in Handle
           /\ now.place = handles[h].place /\ now.using = handles[h].using
           /\ now.base = handles[h].base /\ now.maps = handles[h].maps
           /\ now.graph = handles[h].graph /\ now.id = handles[h].id
           /\ now.creates = handles[h].creates
           /\ now.lineage # NoLineage
           /\ handles[h].detached => now.detached
  <1>1. handles[h] \in Handle
    BY DEF TypeOK
  <1>2. CASE handles[h].revoked
    <2>1. PICK l \in NewLineage(h) :
              now = [handles[h] EXCEPT !.lineage = l, !.holds = FALSE, !.revoked = FALSE,
                                       !.detached = TRUE]
      BY <1>2 DEF Detached
    <2>2. l \in Lineages /\ l # NoLineage
      BY NewLineageFacts
    <2>3. QED
      BY <1>1, <2>1, <2>2 DEF Handle
  <1>3. CASE ~handles[h].revoked
    BY <1>1, <1>3 DEF Detached, CallOK
  <1>4. QED
    BY <1>2, <1>3

\* A call that returns leaves its handle idle, and its graph as it was.
LEMMA ReturnedFacts ==
    ASSUME NEW r \in Handle
    PROVE  /\ Returned(r) \in Handle
           /\ Returned(r).place = "idle" /\ ~Returned(r).creates
           /\ Returned(r).lineage = r.lineage /\ Returned(r).base = r.base
           /\ Returned(r).graph = r.graph /\ Returned(r).detached = r.detached
           /\ Returned(r).maps = r.maps
  BY DiskAssumption DEF Returned, Handle, Place, NoLineage

-----------------------------------------------------------------------------
\* Nobody has come to the directory.
LEMMA InitLock == Init => LockInv
  <1> SUFFICES ASSUME Init PROVE LockInv
    OBVIOUS
  <1>1. Ids = {} /\ gens \in [Ids -> SUBSET Nat] /\ IsFiniteSet(Ids)
    BY FS_EmptySet DEF Init, Ids
  <1>2. handles \in [Handles -> Handle] /\ \A h \in Handles : handles[h] = Absent
    BY AbsentFacts DEF Init
  <1>3. TypeOK
    BY <1>1, <1>2, DiskAssumption DEF Init, TypeOK, Nobody, NoLineage
  <1>4. QED
    BY <1>2, <1>3, AbsentFacts DEF Init, LockInv, LeaseOK, Nobody

\* A step of one call that neither enters nor leaves the permit.
LEMMA QuietLease ==
    ASSUME LockInv, NEW h \in Handles, NEW r \in Handle, Becomes(h, r),
           CallOK(r), ~Publishing(handles[h]), ~Publishing(r),
           permit' = permit,
           owner' = owner \/ KeepsLock \/ owner \in {NoLineage, owner'}
    PROVE  (\A k \in Handles : CallOK(handles[k]))' /\ LeaseOK'
  <1>1. handles \in [Handles -> Handle] /\ permit \subseteq Handles
    BY DEF LockInv, TypeOK
  <1>2. handles'[h] = r /\ \A k \in Handles \ {h} : handles'[k] = handles[k]
    BY <1>1 DEF Becomes
  <1>3. \A k \in Handles : CallOK(handles'[k])
    BY <1>2 DEF LockInv
  <1>4. \A k \in Handles : Publishing(handles'[k]) <=> Publishing(handles[k])
    BY <1>2
  <1>5. ASSUME NEW k \in permit' PROVE handles'[k].using = owner'
    <2>1. k \in Handles \ {h} /\ k \in permit /\ Publishing(handles[k]) 
      BY <1>1, <1>5 DEF LockInv, LeaseOK
    <2>2. handles'[k] = handles[k] /\ handles[k].using = owner /\ owner # NoLineage
      BY <1>2, <2>1 DEF LockInv, LeaseOK, CallOK
    <2>3. QED
      BY <2>1, <2>2 DEF KeepsLock
  <1>6. QED
    BY <1>3, <1>4, <1>5 DEF LockInv, LeaseOK

\* The call with the permit goes on under it.
LEMMA KeptLease ==
    ASSUME LockInv, NEW h \in Handles, NEW r \in Handle, Becomes(h, r),
           CallOK(r), Publishing(r) <=> Publishing(handles[h]),
           r.using = handles[h].using, UNCHANGED lease
    PROVE  (\A k \in Handles : CallOK(handles[k]))' /\ LeaseOK'
  <1>1. handles \in [Handles -> Handle] /\ permit \subseteq Handles
    BY DEF LockInv, TypeOK
  <1>2. handles'[h] = r /\ \A k \in Handles \ {h} : handles'[k] = handles[k]
    BY <1>1 DEF Becomes
  <1>3. \A k \in Handles : CallOK(handles'[k])
    BY <1>2 DEF LockInv
  <1>4. \A k \in Handles : /\ Publishing(handles'[k]) <=> Publishing(handles[k])
                           /\ handles'[k].using = handles[k].using
    BY <1>2
  <1>5. permit' = permit /\ owner' = owner
    BY DEF lease
  <1>6. QED
    BY <1>1, <1>3, <1>4, <1>5 DEF LockInv, LeaseOK

\* The call that has the permit, or a create, ends.
LEMMA LeftLease ==
    ASSUME LockInv, NEW h \in Handles, NEW r \in Handle, Becomes(h, r),
           CallOK(r), ~Publishing(r), permit' = permit \ {h}, KeepsLock
    PROVE  (\A k \in Handles : CallOK(handles[k]))' /\ LeaseOK'
  <1>1. handles \in [Handles -> Handle] /\ permit \subseteq Handles
    BY DEF LockInv, TypeOK
  <1>2. handles'[h] = r /\ \A k \in Handles \ {h} : handles'[k] = handles[k]
    BY <1>1 DEF Becomes
  <1>3. \A k \in Handles : CallOK(handles'[k])
    BY <1>2 DEF LockInv
  <1>4. \A k \in Handles : k \in permit' <=> Publishing(handles'[k])
    BY <1>2 DEF LockInv, LeaseOK
  <1>5. ASSUME NEW k \in permit' PROVE handles'[k].using = owner'
    <2>1. k \in Handles \ {h} /\ k \in permit
      BY <1>1, <1>5
    <2>2. handles'[k] = handles[k] /\ handles[k].using = owner
      BY <1>2, <2>1 DEF LockInv, LeaseOK
    <2>3. QED
      BY <2>1, <2>2 DEF KeepsLock
  <1>6. QED
    BY <1>3, <1>4, <1>5 DEF LockInv, LeaseOK

-----------------------------------------------------------------------------
(* The steps.                                                              *)

\* The types, of a step that touches neither the directory nor what was saved.
LEMMA TypeKept ==
    ASSUME TypeOK, UNCHANGED <<disk, saved>>, handles' \in [Handles -> Handle],
           owner' \in Lineages \cup {NoLineage}, permit' \subseteq Handles, left' \in Budget
    PROVE  TypeOK'
  BY DEF TypeOK, disk, Ids

\* A step of one handle leaves the others as they are.
LEMMA BecomesFacts ==
    ASSUME TypeOK, NEW h \in Handles, NEW r \in Handle, Becomes(h, r)
    PROVE  /\ handles' \in [Handles -> Handle]
           /\ handles'[h] = r /\ \A k \in Handles \ {h} : handles'[k] = handles[k]
  BY DEF TypeOK, Becomes

\* A load takes no lease, whether it finds its generation or not.
LEMMA ResolveLock ==
    ASSUME LockInv, NEW h \in Handles, Resolve(h) PROVE LockInv'
  <1> DEFINE r == [Absent EXCEPT !.place = "opening", !.id = current]
  <1>1. r \in Handle /\ CallOK(r) /\ ~Publishing(r)
    BY DiskAssumption DEF Absent, Handle, Place, Save, Live, CallOK, Publishing, NoLineage,
       LockInv, TypeOK
  <1>2. ~Publishing(handles[h]) /\ Becomes(h, r) /\ UNCHANGED <<disk, saved, left, permit, owner>>
    BY DEF Resolve, Publishing, Save, lease
  <1> HIDE DEF r
  <1>3. TypeOK'
    BY <1>1, <1>2, BecomesFacts, TypeKept DEF LockInv, TypeOK
  <1>4. QED
    BY <1>1, <1>2, <1>3, QuietLease DEF LockInv

\* Nor does the opening: the new lineage has none.
LEMMA OpenLock ==
    ASSUME LockInv, NEW h \in Handles, Open(h) PROVE LockInv'
  <1>1. PICK r \in Handle : CallOK(r) /\ ~Publishing(r) /\ Becomes(h, r)
    <2>1. CASE handles[h].id \in Ids
      <3>1. PICK l \in NewLineage(h) :
                Becomes(h, [Absent EXCEPT !.place = "idle", !.lineage = l,
                                          !.base = {handles[h].id},
                                          !.maps = handles[h].id,
                                          !.graph = gens[handles[h].id]])
        BY <2>1 DEF Open
      <3>2. l \in Lineages /\ l # NoLineage
        BY NewLineageFacts
      <3>3. handles[h].id \in Nat /\ gens[handles[h].id] \subseteq Nat
        BY <2>1 DEF LockInv, TypeOK, Handle
      <3>4. QED
        BY <3>1, <3>2, <3>3 DEF Absent, Handle, Place, Save, Live, CallOK, Publishing
    <2>2. CASE handles[h].id \notin Ids
      BY <2>2, AbsentFacts DEF Open
    <2>3. QED
      BY <2>1, <2>2
  <1>2. ~Publishing(handles[h]) /\ UNCHANGED <<disk, saved, left, permit, owner>>
    BY DEF Open, Publishing, Save, lease
  <1>3. TypeOK'
    BY <1>1, <1>2, BecomesFacts, TypeKept DEF LockInv, TypeOK
  <1>4. QED
    BY <1>1, <1>2, <1>3, QuietLease DEF LockInv

\* A fork is idle: it has its parent's lease, and no call.
LEMMA ForkLock ==
    ASSUME LockInv, NEW h \in Handles, NEW fork \in Handles, Fork(h, fork) PROVE LockInv'
  <1>1. /\ handles[h] \in Handle /\ CallOK(handles[h]) /\ ~Publishing(handles[h])
        /\ ~Publishing(handles[fork]) /\ Becomes(fork, handles[h])
        /\ UNCHANGED <<disk, saved, left, permit, owner>>
    BY DEF Fork, Publishing, Save, lease, LockInv, TypeOK
  <1>3. TypeOK'
    BY <1>1, BecomesFacts, TypeKept DEF LockInv, TypeOK
  <1>4. QED
    BY <1>1, <1>3, QuietLease DEF LockInv

\* The lock is its owner's or nobody's.
LEMMA KeepsLockFacts == ASSUME TypeOK, KeepsLock PROVE owner' \in Lineages \cup {NoLineage}
  BY DEF KeepsLock, TypeOK

\* A handle that is dropped was not in a save.
LEMMA DropLock ==
    ASSUME LockInv, NEW h \in Handles, Drop(h) PROVE LockInv'
  <1>1. ~Publishing(handles[h]) /\ Becomes(h, Absent) /\ KeepsLock
        /\ UNCHANGED <<disk, saved, left, permit>>
    BY DEF Drop, Publishing, Save
  <1>3. TypeOK'
    BY <1>1, AbsentFacts, BecomesFacts, TypeKept, KeepsLockFacts DEF LockInv, TypeOK
  <1>4. QED
    BY <1>1, <1>3, QuietLease, AbsentFacts DEF LockInv

\* A first write takes a lease that is free or its own: no save is under another's.
LEMMA MutateLock ==
    ASSUME LockInv, NEW h \in Handles, Mutate(h) PROVE LockInv'
  <1>0. /\ handles[h].place = "idle" /\ handles[h].place \in Live /\ TypeOK
        /\ CallOK(handles[h]) /\ ~handles[h].creates /\ ~Publishing(handles[h])
        /\ UNCHANGED <<disk, saved, permit>> /\ left.writes \in Nat
    BY DEF Mutate, LockInv, Live, Place, Save, CallOK, Publishing, TypeOK, Budget
  <1>1. left' \in Budget
    BY <1>0, SpendFacts DEF Mutate, TypeOK
  <1>2. PICK now \in Detached(h) :
          LET written == [now EXCEPT !.graph = @ \cup {left.writes}]
          IN  IF now.detached
              THEN Becomes(h, written) /\ KeepsLock
              ELSE /\ Grants(now)
                   /\ Becomes(h, [written EXCEPT !.holds = TRUE])
                   /\ owner' = now.lineage
    BY DEF Mutate
  <1>3. now \in Handle /\ now.place = "idle" /\ ~now.creates /\ now.lineage # NoLineage
    BY <1>0, DetachedFacts
  <1> DEFINE written == [now EXCEPT !.graph = @ \cup {left.writes}]
             held == [written EXCEPT !.holds = TRUE]
  <1>4. /\ written \in Handle /\ written.place = "idle" /\ ~written.creates
        /\ written.lineage # NoLineage
    BY <1>0, <1>3 DEF Handle
  <1>5. held \in Handle /\ held.place = "idle" /\ ~held.creates /\ held.lineage # NoLineage
    BY <1>4 DEF Handle
  <1>6. now.lineage \in Lineages \cup {NoLineage}
    BY <1>3 DEF Handle
  <1>7. PICK r \in Handle : /\ Becomes(h, r) /\ r.place = "idle" /\ ~r.creates
                            /\ r.lineage # NoLineage
                            /\ KeepsLock \/ owner \in {NoLineage, owner'}
                            /\ owner' \in Lineages \cup {NoLineage}
    <2>1. CASE now.detached
      BY <1>0, <1>2, <1>4, <2>1, KeepsLockFacts
    <2>2. CASE ~now.detached
      BY <1>2, <1>5, <1>6, <2>2 DEF Grants
    <2>3. QED
      BY <2>1, <2>2
  <1> HIDE DEF written, held
  <1>8. CallOK(r) /\ ~Publishing(r)
    BY <1>7 DEF CallOK, Publishing, Save
  <1>9. TypeOK'
    BY <1>0, <1>1, <1>7, BecomesFacts, TypeKept DEF TypeOK
  <1>10. QED
    BY <1>0, <1>7, <1>8, <1>9, QuietLease DEF LockInv

\* The flag alone takes nobody's lease.
LEMMA EndLock ==
    ASSUME LockInv, NEW h \in Handles, End(h) PROVE LockInv'
  <1>0. /\ handles[h].place = "idle" /\ TypeOK /\ handles \in [Handles -> Handle]
        /\ UNCHANGED <<disk, saved, permit, owner>>
    BY DEF End, LockInv, TypeOK, lease
  <1>1. left' \in Budget
    BY <1>0, SpendFacts DEF End, TypeOK
  <1>2. ASSUME NEW k \in Handles
        PROVE  /\ handles'[k] \in Handle
               /\ handles'[k].lineage = handles[k].lineage
               /\ handles'[k].creates = handles[k].creates
               /\ \/ /\ k # h /\ handles'[k].place = handles[k].place
                     /\ handles'[k].using = handles[k].using /\ handles'[k].id = handles[k].id
                  \/ k = h /\ handles'[k].place \in {"idle", "ending"}
    <2>1. handles[k] \in Handle
      BY <1>0
    <2> DEFINE revoked(j) == [handles[j] EXCEPT !.revoked = TRUE]
    <2>2. handles'[k] =
            IF k = h
            THEN IF owner = handles[h].lineage
                 THEN [revoked(h) EXCEPT !.place = "ending", !.using = owner]
                 ELSE revoked(h)
            ELSE IF handles[k].lineage = handles[h].lineage THEN revoked(k)
            ELSE handles[k]
      BY Zenon DEF End
    <2>3. owner \in Lineages \cup {NoLineage}
      BY <1>0 DEF TypeOK
    <2>4. CASE k # h
      BY <2>1, <2>2, <2>4 DEF Handle
    <2>5. CASE k = h
      <3> DEFINE ender == [handles[h] EXCEPT !.revoked = TRUE, !.place = "ending", !.using = owner]
      <3>1. /\ revoked(h) \in Handle /\ revoked(h).lineage = handles[h].lineage
            /\ revoked(h).creates = handles[h].creates /\ revoked(h).place = "idle"
        BY <1>0, <2>1, <2>5 DEF Handle
      <3>2. /\ ender \in Handle /\ ender.lineage = handles[h].lineage
            /\ ender.creates = handles[h].creates /\ ender.place = "ending"
        BY <1>0, <2>1, <2>3, <2>5 DEF Handle, Place
      <3>3. handles'[h] = ender \/ handles'[h] = revoked(h)
        BY <2>2, <2>5
      <3> HIDE DEF revoked, ender
      <3>4. QED
        BY <2>5, <3>1, <3>2, <3>3
    <2>6. QED
      BY <2>4, <2>5
  <1>3. handles' \in [Handles -> Handle]
    <2>1. handles' = [k \in Handles |-> handles'[k]]
      BY DEF End
    <2>2. QED
      BY <1>2, <2>1
  <1>4. \A k \in Handles : CallOK(handles'[k])
    BY <1>0, <1>2 DEF LockInv, CallOK, Publishing, Live, Save, Place
  <1>5. \A k \in Handles : Publishing(handles'[k]) <=> Publishing(handles[k])
    BY <1>0, <1>2 DEF Publishing, Save
  <1>6. LeaseOK'
    BY <1>0, <1>2, <1>5 DEF LockInv, LeaseOK, TypeOK, Publishing, Save
  <1>7. TypeOK'
    BY <1>0, <1>1, <1>3, TypeKept DEF TypeOK
  <1>8. QED
    BY <1>4, <1>6, <1>7 DEF LockInv

\* The lease goes when nobody is inside its permit.
LEMMA EndLeaseLock ==
    ASSUME LockInv, NEW h \in Handles, EndLease(h) PROVE LockInv'
  <1>1. /\ handles[h] \in Handle /\ ~handles[h].creates /\ ~Publishing(handles[h])
        /\ handles[h].lineage # NoLineage
        /\ Becomes(h, Returned(handles[h])) /\ permit = {} /\ owner' = NoLineage
        /\ UNCHANGED <<disk, saved, left, permit>>
    BY DEF EndLease, LockInv, TypeOK, Publishing, Save, CallOK, Live, Place, Nobody
  <1>2. /\ Returned(handles[h]) \in Handle /\ Returned(handles[h]).place = "idle"
        /\ ~Returned(handles[h]).creates /\ Returned(handles[h]).lineage # NoLineage
    BY <1>1, ReturnedFacts
  <1>3. CallOK(Returned(handles[h])) /\ ~Publishing(Returned(handles[h]))
    BY <1>2 DEF CallOK, Publishing, Save
  <1>4. TypeOK'
    BY <1>1, <1>2, BecomesFacts, TypeKept DEF LockInv, TypeOK
  <1>5. \A k \in Handles : CallOK(handles'[k]) /\ (Publishing(handles'[k]) <=> Publishing(handles[k]))
    BY <1>1, <1>2, <1>3, BecomesFacts DEF LockInv
  <1>6. QED
    BY <1>1, <1>4, <1>5 DEF LockInv, LeaseOK

\* A handle at rest.
LEMMA RestFacts ==
    ASSUME NEW r \in Handle, r.place \in {"idle", "leased"}, ~r.creates, r.lineage # NoLineage,
           r.place = "leased" => r.using # NoLineage
    PROVE  CallOK(r) /\ ~Publishing(r)
  BY DEF CallOK, Publishing, Save

\* A save takes its lease as a write does.
LEMMA SaveLeaseLock ==
    ASSUME LockInv, NEW h \in Handles, SaveLease(h) PROVE LockInv'
  <1>0. /\ handles[h].place = "idle" /\ handles[h].place \in Live /\ TypeOK
        /\ CallOK(handles[h]) /\ ~handles[h].creates /\ ~Publishing(handles[h])
        /\ UNCHANGED <<disk, saved, permit>>
    BY DEF SaveLease, LockInv, Live, Place, Save, CallOK, Publishing
  <1>1. left' \in Budget
    BY <1>0, SpendFacts DEF SaveLease, TypeOK
  <1>2. PICK now \in Detached(h) :
          IF Grants(now)
          THEN /\ Becomes(h, [now EXCEPT !.place = "leased", !.holds = TRUE,
                                         !.using = now.lineage])
               /\ owner' = now.lineage
          ELSE Becomes(h, now) /\ KeepsLock
    BY DEF SaveLease
  <1>3. now \in Handle /\ now.place = "idle" /\ ~now.creates /\ now.lineage # NoLineage
    BY <1>0, DetachedFacts
  <1>4. PICK r \in Handle : /\ Becomes(h, r) /\ r.place \in {"idle", "leased"} /\ ~r.creates
                            /\ r.lineage # NoLineage
                            /\ r.place = "leased" => r.using # NoLineage
                            /\ KeepsLock \/ owner \in {NoLineage, owner'}
                            /\ owner' \in Lineages \cup {NoLineage}
    <2>1. CASE Grants(now)
      <3> DEFINE r == [now EXCEPT !.place = "leased", !.holds = TRUE, !.using = now.lineage]
      <3>1. /\ r \in Handle /\ r.place = "leased" /\ ~r.creates /\ r.lineage = now.lineage
            /\ r.using = now.lineage /\ now.lineage \in Lineages \cup {NoLineage}
        BY <1>3 DEF Handle, Place, Save
      <3>2. Becomes(h, r) /\ owner' = now.lineage /\ owner \in {NoLineage, now.lineage}
        BY <1>2, <2>1 DEF Grants
      <3> HIDE DEF r
      <3>3. QED
        BY <1>3, <3>1, <3>2
    <2>2. CASE ~Grants(now)
      BY <1>0, <1>2, <1>3, <2>2, KeepsLockFacts
    <2>3. QED
      BY <2>1, <2>2
  <1>5. CallOK(r) /\ ~Publishing(r)
    BY <1>4, RestFacts
  <1>6. TypeOK'
    BY <1>0, <1>1, <1>4, BecomesFacts, TypeKept DEF TypeOK
  <1>7. QED
    BY <1>0, <1>4, <1>5, <1>6, QuietLease DEF LockInv

\* It enters a permit nobody has, of a lease that has the lock.
LEMMA SavePermitLock ==
    ASSUME LockInv, NEW h \in Handles, SavePermit(h) PROVE LockInv'
  <1>0. /\ handles[h].place = "leased" /\ handles[h].place \in Live /\ TypeOK
        /\ CallOK(handles[h]) /\ ~handles[h].creates /\ ~Publishing(handles[h])
        /\ handles[h].using # NoLineage
        /\ UNCHANGED <<disk, saved, left>>
    BY DEF SavePermit, LockInv, Live, Place, Save, CallOK, Publishing
  <1>1. PICK now \in Detached(h) :
          IF owner = now.using
          THEN /\ permit = Nobody /\ permit' = {h}
               /\ Becomes(h, [now EXCEPT !.place = "permitted"])
               /\ UNCHANGED owner
          ELSE Becomes(h, Returned(now)) /\ KeepsLock /\ UNCHANGED permit
    BY DEF SavePermit
  <1>2. /\ now \in Handle /\ now.place = "leased" /\ ~now.creates /\ now.lineage # NoLineage
        /\ now.using # NoLineage
    BY <1>0, DetachedFacts
  <1>3. CASE owner = now.using
    <2> DEFINE r == [now EXCEPT !.place = "permitted"]
    <2>1. /\ r \in Handle /\ r.place = "permitted" /\ ~r.creates /\ r.lineage # NoLineage
          /\ r.using = now.using
      BY <1>2 DEF Handle, Place, Save
    <2>2. permit = {} /\ permit' = {h} /\ Becomes(h, r) /\ owner' = owner
      BY <1>1, <1>3 DEF Nobody
    <2> HIDE DEF r
    <2>3. CallOK(r) /\ Publishing(r)
      BY <1>2, <2>1 DEF CallOK, Publishing, Save
    <2>4. TypeOK'
      BY <1>0, <2>1, <2>2, BecomesFacts, TypeKept DEF TypeOK
    <2>5. \A k \in Handles : CallOK(handles'[k]) /\ (k \in permit' <=> Publishing(handles'[k]))
      BY <1>0, <2>1, <2>2, <2>3, BecomesFacts DEF LockInv, LeaseOK
    <2>6. handles'[h].using = owner'
      BY <1>0, <1>3, <2>1, <2>2, BecomesFacts
    <2>7. QED
      BY <2>2, <2>4, <2>5, <2>6 DEF LockInv, LeaseOK
  <1>4. CASE owner # now.using
    <2>1. /\ Returned(now) \in Handle /\ Returned(now).place = "idle"
          /\ ~Returned(now).creates /\ Returned(now).lineage # NoLineage
      BY <1>2, ReturnedFacts
    <2>2. Becomes(h, Returned(now)) /\ KeepsLock /\ permit' = permit
      BY <1>1, <1>4
    <2>3. CallOK(Returned(now)) /\ ~Publishing(Returned(now))
      BY <2>1, RestFacts
    <2>4. TypeOK'
      BY <1>0, <2>1, <2>2, BecomesFacts, TypeKept, KeepsLockFacts DEF TypeOK
    <2>5. QED
      BY <1>0, <2>1, <2>2, <2>3, <2>4, QuietLease DEF LockInv
  <1>5. QED
    BY <1>3, <1>4

\* A call that fails, whatever it was doing.
LEMMA FailsLock ==
    ASSUME LockInv, NEW h \in Handles, handles[h].place \in Live \cup {"creating"},
           Fails(h), left' \in Budget
    PROVE  LockInv'
  <1> DEFINE r == IF handles[h].creates THEN Absent ELSE Returned(handles[h])
  <1>1. handles[h] \in Handle /\ handles[h].lineage # NoLineage
    BY DEF LockInv, TypeOK, CallOK
  <1>2. r \in Handle /\ CallOK(r) /\ ~Publishing(r)
    BY <1>1, AbsentFacts, ReturnedFacts, RestFacts
  <1>3. /\ Becomes(h, r) /\ KeepsLock /\ permit' = permit \ {h} /\ stages' = stages \ {h}
        /\ UNCHANGED <<gens, listed, current, durable, saved>>
    BY DEF Fails
  <1> HIDE DEF r
  <1>4. TypeOK'
    BY <1>2, <1>3, BecomesFacts, KeepsLockFacts DEF LockInv, TypeOK, Ids
  <1>5. QED
    BY <1>2, <1>3, <1>4, LeftLease DEF LockInv

\* A failure is paid for.
LEMMA MayFailFacts ==
    ASSUME TypeOK, NEW fault, MayFail(fault) PROVE left' \in Budget
  BY SpendFacts DEF MayFail, TypeOK

\* The stage is named under the permit, if the call has one.
LEMMA BeginLock ==
    ASSUME LockInv, NEW h \in Handles, handles[h].place \in {"permitted", "creating"}, Begin(h)
    PROVE  LockInv'
  <1>1. CASE MayFail("begin") /\ Fails(h)
    BY <1>1, FailsLock, MayFailFacts DEF LockInv, Live, Place, Save
  <1>2. CASE /\ stages' = {h}
             /\ \E id \in NextId :
                   Becomes(h, [handles[h] EXCEPT !.place = "staged", !.id = id])
             /\ UNCHANGED <<gens, listed, current, durable, lease, saved, left>>
    <2>1. PICK id \in NextId : Becomes(h, [handles[h] EXCEPT !.place = "staged", !.id = id])
      BY <1>2
    <2>2. id \in Nat \ {0}
      BY DEF NextId, LockInv, TypeOK
    <2> DEFINE r == [handles[h] EXCEPT !.place = "staged", !.id = id]
    <2>3. /\ handles[h] \in Handle /\ CallOK(handles[h])
      BY DEF LockInv, TypeOK
    <2>4. /\ r \in Handle /\ r.place = "staged" /\ r.id = id /\ r.using = handles[h].using
          /\ r.creates = handles[h].creates /\ r.lineage = handles[h].lineage
      BY <2>2, <2>3 DEF Handle, Place, Save
    <2>5. CallOK(r) /\ (Publishing(r) <=> Publishing(handles[h])) /\ Becomes(h, r)
      BY <2>1, <2>2, <2>3, <2>4 DEF CallOK, Publishing, Save, Live, Place
    <2> HIDE DEF r
    <2>6. TypeOK'
      BY <1>2, <2>4, <2>5, BecomesFacts DEF LockInv, TypeOK, Ids, lease
    <2>7. QED
      BY <1>2, <2>4, <2>5, <2>6, KeptLease DEF LockInv
  <1>3. QED
    BY <1>1, <1>2 DEF Begin

\* The comparison with CURRENT ends the save or lets it go on.
LEMMA SaveBeginLock ==
    ASSUME LockInv, NEW h \in Handles, SaveBegin(h) PROVE LockInv'
  <1>1. CASE Unguarded(h) \/ current \in handles[h].base
    BY <1>1, BeginLock DEF SaveBegin
  <1>2. CASE ~(Unguarded(h) \/ current \in handles[h].base)
    BY <1>2, FailsLock DEF SaveBegin, LockInv, TypeOK, Live, Place, Save
  <1>3. QED
    BY <1>1, <1>2

\* The call goes on under its permit, if it has one.
LEMMA GoesOnLock ==
    ASSUME LockInv, NEW h \in Handles, NEW p \in Save \ {"staged"}, handles[h].place \in Save,
           Becomes(h, [handles[h] EXCEPT !.place = p]), UNCHANGED lease, left' \in Budget,
           gens' \in [DOMAIN gens' -> SUBSET Nat], DOMAIN gens' \subseteq Nat \ {0},
           IsFiniteSet(DOMAIN gens'), listed' \subseteq Nat, current' \in Nat,
           durable' \subseteq Nat, stages' \subseteq Handles, saved' \subseteq Nat
    PROVE  LockInv'
  <1> DEFINE r == [handles[h] EXCEPT !.place = p]
  <1>1. handles[h] \in Handle /\ CallOK(handles[h])
    BY DEF LockInv, TypeOK
  <1>2. /\ r \in Handle /\ r.place = p /\ r.using = handles[h].using
        /\ r.creates = handles[h].creates /\ r.lineage = handles[h].lineage
    BY <1>1 DEF Handle, Place
  <1>3. CallOK(r) /\ (Publishing(r) <=> Publishing(handles[h])) /\ Becomes(h, r)
    BY <1>1, <1>2 DEF CallOK, Publishing, Save, Live, Place
  <1> HIDE DEF r
  <1>4. TypeOK'
    BY <1>2, <1>3, BecomesFacts DEF LockInv, TypeOK, Ids, lease
  <1>5. QED
    BY <1>2, <1>3, <1>4, KeptLease DEF LockInv

\* The generations stay a finite map with the new one.
LEMMA RenameLock ==
    ASSUME LockInv, NEW h \in Handles, Rename(h) PROVE LockInv'
  <1>1. /\ TypeOK /\ handles[h].place = "staged" /\ handles[h] \in Handle
        /\ handles[h].id \in Nat \ {0} /\ handles[h].graph \subseteq Nat
    BY DEF Rename, LockInv, TypeOK, CallOK, Handle
  <1>2. CASE Fails(h) /\ left' \in Budget
    BY <1>1, <1>2, FailsLock DEF Live, Place, Save
  <1>3. CASE /\ gens' = [id \in Ids \cup {handles[h].id} |->
                             IF id \in Ids THEN gens[id] ELSE handles[h].graph]
             /\ stages' = stages \ {h}
             /\ Becomes(h, [handles[h] EXCEPT !.place = "renamed"])
             /\ UNCHANGED <<listed, current, durable, lease, saved, left>>
    <2>1. DOMAIN gens' = Ids \cup {handles[h].id} /\ IsFiniteSet(DOMAIN gens')
      BY <1>1, <1>3, FS_AddElement DEF TypeOK
    <2>2. gens' \in [DOMAIN gens' -> SUBSET Nat] /\ DOMAIN gens' \subseteq Nat \ {0}
      BY <1>1, <1>3, <2>1 DEF TypeOK
    <2>3. QED
      BY <1>1, <1>3, <2>1, <2>2, GoesOnLock DEF TypeOK, Save
  <1>4. QED
    BY <1>1, <1>2, <1>3, MayFailFacts DEF Rename, TypeOK

\* The sync of generations/ is under the permit.
LEMMA SyncListLock ==
    ASSUME LockInv, NEW h \in Handles, SyncList(h) PROVE LockInv'
  <1>1. TypeOK /\ handles[h].place = "renamed" /\ handles[h].place \in Live \cap Save
    BY DEF SyncList, LockInv, Live, Place, Save
  <1>2. CASE MayFail("list") /\ Fails(h)
    BY <1>1, <1>2, FailsLock, MayFailFacts
  <1>3. CASE /\ listed' = Ids
             /\ Becomes(h, [handles[h] EXCEPT !.place = "listed"])
             /\ UNCHANGED <<gens, current, durable, stages, lease, saved, left>>
    BY <1>1, <1>3, GoesOnLock DEF TypeOK, Save, Ids
  <1>4. QED
    BY <1>2, <1>3 DEF SyncList

\* So is the move of CURRENT,
LEMMA SelectLock ==
    ASSUME LockInv, NEW h \in Handles, Select(h) PROVE LockInv'
  <1>1. /\ TypeOK /\ handles[h].place = "listed" /\ handles[h].place \in Live \cap Save
        /\ handles[h].id \in Nat
    BY DEF Select, LockInv, Live, Place, Save, TypeOK, Handle
  <1>2. CASE MayFail("select") /\ Fails(h)
    BY <1>1, <1>2, FailsLock, MayFailFacts
  <1>3. CASE /\ current' = handles[h].id
             /\ durable' = durable \cup {handles[h].id}
             /\ saved' = IF Unguarded(h) THEN saved \cap handles[h].graph ELSE saved
             /\ Becomes(h, [handles[h] EXCEPT !.place = "selected"])
             /\ UNCHANGED <<gens, listed, stages, lease, left>>
    BY <1>1, <1>3, GoesOnLock DEF TypeOK, Save, Ids
  <1>4. QED
    BY <1>2, <1>3 DEF Select

\* and its sync.
LEMMA SyncRootLock ==
    ASSUME LockInv, NEW h \in Handles, SyncRoot(h) PROVE LockInv'
  <1>1. TypeOK /\ handles[h].place = "selected" /\ handles[h].place \in Live \cap Save
    BY DEF SyncRoot, LockInv, Live, Place, Save
  <1>2. CASE MayFail("root") /\ Fails(h)
    BY <1>1, <1>2, FailsLock, MayFailFacts
  <1>3. CASE /\ durable' = {current}
             /\ Becomes(h, [handles[h] EXCEPT !.place = "synced"])
             /\ UNCHANGED <<gens, listed, current, stages, lease, saved, left>>
    BY <1>1, <1>3, GoesOnLock DEF TypeOK, Save, Ids
  <1>4. QED
    BY <1>2, <1>3 DEF SyncRoot

\* A save that returns leaves its permit, and what is left of the generations is a map.
LEMMA FinishLock ==
    ASSUME LockInv, NEW h \in Handles, Finish(h) PROVE LockInv'
  <1> DEFINE back == Returned(handles[h])
             rebased == [Returned(handles[h]) EXCEPT !.base = {handles[h].id},
                                                     !.maps = handles[h].id,
                                                     !.detached = FALSE]
             dropped == [rebased EXCEPT !.holds = FALSE]
  <1>1. /\ TypeOK /\ handles[h] \in Handle /\ handles[h].lineage # NoLineage
        /\ handles[h].id \in Nat /\ handles[h].graph \subseteq Nat
    BY DEF Finish, LockInv, TypeOK, CallOK, Live, Place, Save, Handle
  <1>2. /\ back \in Handle /\ back.place = "idle" /\ ~back.creates /\ back.lineage # NoLineage
    BY <1>1, ReturnedFacts
  <1>3. /\ rebased \in Handle /\ rebased.place = "idle" /\ ~rebased.creates
        /\ rebased.lineage # NoLineage
    <2> HIDE DEF back
    <2>1. rebased = [back EXCEPT !.base = {handles[h].id}, !.maps = handles[h].id,
                                 !.detached = FALSE]
      BY DEF back
    <2>2. QED
      BY <1>1, <1>2, <2>1 DEF Handle
  <1>4. /\ dropped \in Handle /\ dropped.place = "idle" /\ ~dropped.creates
        /\ dropped.lineage # NoLineage
    <2> HIDE DEF rebased
    <2>1. QED
      BY <1>3 DEF Handle
  <1>5. /\ KeepsLock /\ permit' = permit \ {h} /\ UNCHANGED <<current, durable, stages>>
    BY DEF Finish
  <1>6. \/ /\ Becomes(h, dropped)
           /\ \E gone \in SUBSET (Outdated \ Pinned(h)) :
                 gens' = [id \in Ids \ gone |-> gens[id]]
           /\ listed' = listed \cap DOMAIN gens'
           /\ saved' = saved \cup handles[h].graph
           /\ UNCHANGED left
        \/ /\ MayFail("finish")
           /\ Becomes(h, rebased)
           /\ UNCHANGED <<gens, listed, saved>>
    BY DEF Finish
  <1> HIDE DEF back, rebased, dropped
  <1>7. /\ gens' \in [DOMAIN gens' -> SUBSET Nat] /\ DOMAIN gens' \subseteq Nat \ {0}
        /\ IsFiniteSet(DOMAIN gens') /\ listed' \subseteq Nat /\ saved' \subseteq Nat
        /\ left' \in Budget
    <2>1. CASE /\ \E gone \in SUBSET (Outdated \ Pinned(h)) :
                     gens' = [id \in Ids \ gone |-> gens[id]]
               /\ listed' = listed \cap DOMAIN gens'
               /\ saved' = saved \cup handles[h].graph
               /\ UNCHANGED left
      <3>1. PICK gone : gens' = [id \in Ids \ gone |-> gens[id]]
        BY <2>1
      <3>2. DOMAIN gens' = Ids \ gone /\ IsFiniteSet(Ids \ gone)
        BY <1>1, <3>1, FS_Subset DEF TypeOK
      <3>3. QED
        BY <1>1, <2>1, <3>1, <3>2 DEF TypeOK
    <2>2. CASE MayFail("finish") /\ UNCHANGED <<gens, listed, saved>>
      BY <1>1, <2>2, MayFailFacts DEF TypeOK, Ids
    <2>3. QED
      BY <1>6, <2>1, <2>2
  <1>8. PICK r \in Handle : /\ Becomes(h, r) /\ r.place = "idle" /\ ~r.creates
                            /\ r.lineage # NoLineage
    BY <1>3, <1>4, <1>6
  <1>9. CallOK(r) /\ ~Publishing(r)
    BY <1>8, RestFacts
  <1>10. TypeOK'
    BY <1>1, <1>5, <1>7, <1>8, BecomesFacts, KeepsLockFacts DEF TypeOK, Ids
  <1>11. QED
    BY <1>5, <1>8, <1>9, <1>10, LeftLease DEF LockInv

\* A create takes no lease, in a directory that has a graph or has none.
LEMMA CreateLock ==
    ASSUME LockInv, NEW h \in Handles, Create(h) PROVE LockInv'
  <1>0. /\ TypeOK /\ ~Publishing(handles[h]) /\ UNCHANGED <<disk, saved, permit, owner>>
        /\ left' \in Budget
    BY SpendFacts DEF Create, LockInv, TypeOK, Publishing, Save, lease
  <1>1. PICK l \in NewLineage(h) :
          Becomes(h, IF current # 0
                     THEN [Absent EXCEPT !.place = "idle", !.lineage = l]
                     ELSE [Absent EXCEPT !.place = "creating", !.lineage = l,
                                         !.creates = TRUE])
    BY DEF Create
  <1>2. l \in Lineages /\ l # NoLineage
    BY NewLineageFacts
  <1>3. PICK r \in Handle : CallOK(r) /\ ~Publishing(r) /\ Becomes(h, r)
    BY <1>1, <1>2 DEF Absent, Handle, Place, Save, Live, CallOK, Publishing
  <1>4. TypeOK'
    BY <1>0, <1>3, BecomesFacts, TypeKept DEF TypeOK
  <1>5. QED
    BY <1>0, <1>3, <1>4, QuietLease DEF LockInv

\* It was under no permit.
LEMMA CreateEndsLock ==
    ASSUME LockInv, NEW h \in Handles, CreateEnds(h) PROVE LockInv'
  <1> DEFINE back == Returned(handles[h])
             r == [back EXCEPT !.base = {current}]
  <1>1. /\ TypeOK /\ handles[h] \in Handle /\ handles[h].lineage # NoLineage
        /\ ~Publishing(handles[h]) /\ Becomes(h, r) /\ UNCHANGED <<disk, lease, saved, left>>
    BY DEF CreateEnds, LockInv, TypeOK, CallOK, Live, Place, Save, Publishing
  <1>2. /\ back \in Handle /\ back.place = "idle" /\ ~back.creates /\ back.lineage # NoLineage
    BY <1>1, ReturnedFacts
  <1> HIDE DEF back
  <1>3. r \in Handle /\ r.place = "idle" /\ ~r.creates /\ r.lineage # NoLineage
    BY <1>1, <1>2 DEF Handle, TypeOK
  <1> HIDE DEF r
  <1>4. CallOK(r) /\ ~Publishing(r)
    BY <1>3, RestFacts
  <1>5. TypeOK'
    BY <1>1, <1>3, BecomesFacts, TypeKept DEF TypeOK, lease
  <1>6. QED
    BY <1>1, <1>3, <1>4, <1>5, QuietLease DEF LockInv, lease

\* A process that dies takes its permits and its locks with it, no other's.
LEMMA CrashLock ==
    ASSUME LockInv, NEW P \in Processes, Crash(P) PROVE LockInv'
  <1>1. /\ TypeOK /\ permit' = permit \ P /\ stages' = stages \ P
        /\ UNCHANGED <<gens, listed, current, durable, saved>>
        /\ KeepsLock /\ left' \in Budget
        /\ handles' = [h \in Handles |-> IF h \in P THEN Absent ELSE handles[h]]
    BY SpendFacts DEF Crash, LockInv, TypeOK
  <1>2. TypeOK'
    BY <1>1, AbsentFacts, KeepsLockFacts DEF TypeOK, Ids
  <1>3. \A h \in Handles : CallOK(handles'[h])
    BY <1>1, AbsentFacts DEF LockInv
  <1>4. \A h \in Handles : h \in permit' <=> Publishing(handles'[h])
    BY <1>1, AbsentFacts DEF LockInv, LeaseOK
  <1>5. ASSUME NEW h \in permit' PROVE handles'[h].using = owner'
    <2>1. h \in Handles /\ h \in permit /\ h \notin P
      BY <1>1, <1>5 DEF TypeOK
    <2>2. handles'[h] = handles[h] /\ handles[h].using = owner
      BY <1>1, <2>1 DEF LockInv, LeaseOK
    <2>3. QED
      BY <1>1, <2>1, <2>2 DEF KeepsLock
  <1>6. QED
    BY <1>1, <1>2, <1>3, <1>4, <1>5 DEF LockInv, LeaseOK

\* Nothing holds anything after a power loss.
LEMMA PowerLossLock ==
    ASSUME LockInv, PowerLoss PROVE LockInv'
  <1>1. /\ TypeOK /\ permit' = {} /\ stages' = {} /\ owner' = NoLineage /\ saved' = saved
        /\ current' \in durable /\ durable' = {current'}
        /\ left' \in Budget
        /\ handles' = [h \in Handles |-> Absent]
    BY SpendFacts DEF PowerLoss, LockInv, TypeOK, Nobody
  <1>2. PICK kept \in SUBSET (Ids \ listed) :
          /\ gens' = [id \in (Ids \cap listed) \cup kept |-> gens[id]]
          /\ listed' = DOMAIN gens'
    BY DEF PowerLoss
  <1>3. DOMAIN gens' \subseteq Ids /\ IsFiniteSet(DOMAIN gens')
    BY <1>1, <1>2, FS_Subset DEF TypeOK
  <1>4. gens' \in [DOMAIN gens' -> SUBSET Nat]
    BY <1>1, <1>2 DEF TypeOK
  <1>5. TypeOK'
    BY <1>1, <1>2, <1>3, <1>4, AbsentFacts DEF TypeOK, Ids
  <1>6. QED
    BY <1>1, <1>5, AbsentFacts DEF LockInv, LeaseOK

\* Every step preserves the invariant.
LEMMA NextLock == LockInv /\ [Next]_vars => LockInv'
  <1> SUFFICES ASSUME LockInv, [Next]_vars PROVE LockInv'
    OBVIOUS
  <1>1. ASSUME NEW h \in Handles, Resolve(h) \/ Open(h) \/ Mutate(h) \/ Drop(h) PROVE LockInv'
    BY <1>1, ResolveLock, OpenLock, MutateLock, DropLock
  <1>2. ASSUME NEW h \in Handles, End(h) \/ EndLease(h) PROVE LockInv'
    BY <1>2, EndLock, EndLeaseLock
  <1>3. ASSUME NEW h \in Handles, Saves(h) PROVE LockInv'
    BY <1>3, SaveLeaseLock, SavePermitLock, SaveBeginLock, RenameLock, SyncListLock,
       SelectLock, SyncRootLock, FinishLock DEF Saves
  <1>4. ASSUME NEW h \in Handles, Create(h) \/ CreateBegin(h) \/ CreateEnds(h) PROVE LockInv'
    BY <1>4, CreateLock, BeginLock, CreateEndsLock DEF CreateBegin
  <1>5. ASSUME NEW h \in Handles, NEW fork \in Handles, Fork(h, fork) PROVE LockInv'
    BY <1>5, ForkLock
  <1>6. ASSUME NEW P \in Processes, Crash(P) PROVE LockInv'
    BY <1>6, CrashLock
  <1>7. ASSUME PowerLoss PROVE LockInv'
    BY <1>7, PowerLossLock
  <1>8. ASSUME UNCHANGED vars PROVE LockInv'
    BY <1>8 DEF vars, disk, lease, LockInv, TypeOK, LeaseOK, CallOK, Publishing, Ids
  <1>9. QED
    BY <1>1, <1>2, <1>3, <1>4, <1>5, <1>6, <1>7, <1>8 DEF Next

\* Type correctness: every variable of the directory and of its handles keeps its
\* type, for any number of handles, processes and lineages.
THEOREM DiskTypeCorrect == Spec => []TypeOK
  <1>1. LockInv => TypeOK
    BY DEF LockInv
  <1>2. QED
    BY <1>1, InitLock, NextLock, PTL DEF Spec

\* From its permit to its return a save has the directory to itself, and no
\* revocation, failure, crash or create leaves the permit held or the lock elsewhere.
THEOREM PublicationIsAlone == Spec => []PublishesAlone
  <1>1. LockInv => PublishesAlone
    BY DEF LockInv, LeaseOK, TypeOK, PublishesAlone, Publishing
  <1>2. QED
    BY <1>1, InitLock, NextLock, PTL DEF Spec

-----------------------------------------------------------------------------
(* What is saved: the inductive invariant, in named parts.                 *)

\* Between the choice of an id and the pointer's move; and what is there of it.
Ahead    == {"staged", "renamed", "listed"}
Whole    == {"renamed", "listed", "selected", "synced"}
Entered  == {"listed", "selected", "synced"}
Pointed  == {"selected", "synced"}

\* How far a publication has come.
StageOK(r) ==
    /\ r.place \in Ahead => r.id > current
    /\ r.place \in Whole => r.id \in Ids /\ gens[r.id] = r.graph
    /\ r.place \in Entered => r.id \in listed
    /\ r.place \in Pointed => r.id = current
    /\ r.place = "synced" => durable = {r.id}
    /\ r.place \in Ahead /\ ~r.detached /\ r.base # {} => saved \subseteq r.graph

\* A graph has all that the generation it came from has.
SourceOK(r) ==
    /\ current = 0 => r.place = "none" \/ r.creates
    /\ r.place = "opening" => r.id <= current
    /\ r.creates => r.base = {}
    /\ r.place \in Live /\ ~r.detached =>
          \A b \in r.base : b <= current /\ (b \in Ids => gens[b] \subseteq r.graph)

HandleOK(r) == StageOK(r) /\ SourceOK(r)

\* A create has the directory to itself.
CreateOK ==
    \A h, k \in Handles : handles[h].creates /\ k # h => handles[k].place = "none"

SaveInv ==
    /\ LockInv
    /\ \A h \in Handles : HandleOK(handles[h])
    /\ CreateOK
    /\ SelectedResolves
    /\ SavedStays

-----------------------------------------------------------------------------
(* Lemmas.                                                                 *)

\* There is no CURRENT and nothing was saved.
LEMMA InitSave == Init => SaveInv
  <1> SUFFICES ASSUME Init PROVE SaveInv
    OBVIOUS
  <1>1. Ids = {} /\ durable = {0} /\ current = 0 /\ saved = {}
    BY DEF Init, Ids
  <1>2. \A h \in Handles : handles[h] = Absent /\ Absent.place = "none" /\ ~Absent.creates
    BY DEF Init, Absent
  <1>3. HandleOK(Absent)
    BY DEF HandleOK, StageOK, SourceOK, Absent, Ahead, Whole, Entered, Pointed, Live, Place
  <1>4. SelectedResolves /\ SavedStays
    BY <1>1 DEF SelectedResolves, SavedStays
  <1>5. QED
    BY <1>2, <1>3, <1>4, InitLock DEF SaveInv, CreateOK

\* Of the calls at most one is in a save or a create.
LEMMA OneInSave ==
    ASSUME SaveInv, NEW h \in Handles, handles[h].place \in Save,
           NEW k \in Handles, k # h
    PROVE  handles[k].place \notin Save
  <1>1. CASE handles[h].creates \/ handles[k].creates
    BY <1>1 DEF SaveInv, CreateOK, Save
  <1>2. CASE ~handles[h].creates /\ ~handles[k].creates
    BY <1>2 DEF SaveInv, LockInv, LeaseOK, Publishing
  <1>3. QED
    BY <1>1, <1>2

\* A step of one call that moves nothing on the disk but its stage.
LEMMA QuietSave ==
    ASSUME SaveInv, LockInv', NEW h \in Handles, NEW r \in Handle, Becomes(h, r),
           UNCHANGED <<gens, listed, current, durable, saved>>,
           HandleOK(r), r.creates => handles[h].creates,
           handles[h].place = "none" =>
              r.place = "none" \/ \A k \in Handles : ~handles[k].creates
    PROVE  SaveInv'
  <1>1. /\ handles'[h] = r
        /\ \A k \in Handles \ {h} : handles'[k] = handles[k]
    BY BecomesFacts DEF SaveInv, LockInv
  <1>2. Ids' = Ids
    BY DEF Ids
  <1>3. (\A k \in Handles : HandleOK(handles[k]))'
    <2>1. \A k \in Handles : HandleOK(handles'[k])
      BY <1>1 DEF SaveInv
    <2>2. QED
      BY <1>2, <2>1 DEF HandleOK, StageOK, SourceOK
  <1>4. CreateOK'
    BY <1>1 DEF SaveInv, CreateOK
  <1>5. SelectedResolves' /\ SavedStays'
    BY <1>2 DEF SaveInv, SelectedResolves, SavedStays, Contents
  <1>6. QED
    BY <1>3, <1>4, <1>5 DEF SaveInv

\* The publication at hand moves the disk on: the other handles do not notice.
LEMMA OthersUnaware ==
    ASSUME SaveInv, NEW h \in Handles, handles[h].place \in Save,
           NEW k \in Handles, k # h, handles'[k] = handles[k],
           current' \in Nat, current' >= current,
           \A b \in Ids' : b <= current => b \in Ids /\ gens'[b] = gens[b]
    PROVE  HandleOK(handles[k])'
  <1>1. HandleOK(handles[k]) /\ handles[k].place \notin Save /\ handles[k] \in Handle
    BY OneInSave DEF SaveInv, LockInv, TypeOK
  <1>2. StageOK(handles[k])'
    BY <1>1 DEF StageOK, Ahead, Whole, Entered, Pointed, Save
  <1>3. current \in Nat /\ handles[k].id \in Nat /\ handles[k].base \subseteq Nat
    BY <1>1 DEF SaveInv, LockInv, TypeOK, Handle
  <1>4. SourceOK(handles[k])'
    <2>1. (current = 0 => handles[k].place = "none" \/ handles[k].creates)'
      BY <1>1, <1>3 DEF HandleOK, SourceOK
    <2>2. (handles[k].place = "opening" => handles[k].id <= current)'
      BY <1>1, <1>3 DEF HandleOK, SourceOK
    <2>3. ASSUME handles[k].place \in Live, ~handles[k].detached, NEW b \in handles[k].base
          PROVE  b <= current' /\ (b \in Ids' => gens'[b] \subseteq handles[k].graph)
      <3>1. b \in Nat /\ b <= current /\ (b \in Ids => gens[b] \subseteq handles[k].graph)
        BY <1>1, <1>3, <2>3 DEF HandleOK, SourceOK
      <3>2. QED
        BY <1>3, <3>1
    <2>4. QED
      BY <1>1, <2>1, <2>2, <2>3 DEF HandleOK, SourceOK
  <1>5. QED
    BY <1>2, <1>4 DEF HandleOK

\* So a step of the publication is right if it is right for its own handle.
LEMMA PublicationSave ==
    ASSUME SaveInv, LockInv', NEW h \in Handles, handles[h].place \in Save,
           NEW r \in Handle, Becomes(h, r), r.creates => handles[h].creates,
           current' >= current,
           \A b \in Ids' : b <= current => b \in Ids /\ gens'[b] = gens[b],
           HandleOK(r)', SelectedResolves', SavedStays'
    PROVE  SaveInv'
  <1>1. /\ handles'[h] = r
        /\ \A k \in Handles \ {h} : handles'[k] = handles[k]
    BY BecomesFacts DEF SaveInv, LockInv
  <1>2. current' \in Nat
    BY DEF LockInv, TypeOK
  <1>3. ASSUME NEW k \in Handles PROVE HandleOK(handles[k])'
    <2>1. CASE k # h
      BY <1>1, <1>2, <2>1, OthersUnaware
    <2>2. CASE k = h
      BY <1>1, <2>2 DEF HandleOK, StageOK, SourceOK
    <2>3. QED
      BY <2>1, <2>2
  <1>4. handles[h].place # "none"
    BY DEF Save
  <1>5. CreateOK'
    BY <1>1, <1>4 DEF SaveInv, CreateOK
  <1>6. QED
    BY <1>3, <1>5 DEF SaveInv

\* A handle that came from where h came from, and has what h has.
LEMMA RestSave ==
    ASSUME SaveInv, NEW h \in Handles, handles[h].place \in Live, ~handles[h].creates,
           NEW r, ~r.creates, r.place \in Live \ {"staged", "renamed", "listed", "selected", "synced"},
           r.base = handles[h].base, handles[h].graph \subseteq r.graph,
           handles[h].detached => r.detached
    PROVE  HandleOK(r)
  BY DEF SaveInv, HandleOK, StageOK, SourceOK, Live, Place, Save, Ahead, Whole, Entered, Pointed

\* Nothing is asked of a handle that is not there.
LEMMA AbsentSave == HandleOK(Absent) /\ Absent.place = "none" /\ ~Absent.creates
  BY DEF HandleOK, StageOK, SourceOK, Absent, Ahead, Whole, Entered, Pointed, Live, Place

-----------------------------------------------------------------------------
(* The steps of a handle that is not in a save.                            *)

\* A load begins at CURRENT, and in no create.
LEMMA ResolveSave ==
    ASSUME CreatesAlone, SaveInv, LockInv', NEW h \in Handles, Resolve(h) PROVE SaveInv'
  <1> DEFINE r == [Absent EXCEPT !.place = "opening", !.id = current]
  <1>1. /\ r \in Handle /\ r.place = "opening" /\ r.id = current /\ ~r.creates
    BY DiskAssumption DEF Absent, Handle, Place, Save, NoLineage, SaveInv, LockInv, TypeOK
  <1>2. /\ Becomes(h, r) /\ current # 0 /\ UNCHANGED <<gens, listed, current, durable, saved>>
        /\ \A k \in Handles : ~handles[k].creates
    BY DEF Resolve, disk, Admitted
  <1> HIDE DEF r
  <1>3. HandleOK(r)
    BY <1>1, <1>2 DEF HandleOK, StageOK, SourceOK, Live, Place, Save, Ahead, Whole, Entered,
       Pointed, SaveInv, LockInv, TypeOK
  <1>4. QED
    BY <1>1, <1>2, <1>3, QuietSave

\* What it opens, if it is still there, is where its graph comes from.
LEMMA OpenSave ==
    ASSUME SaveInv, LockInv', NEW h \in Handles, Open(h) PROVE SaveInv'
  <1>1. /\ handles[h].place = "opening" /\ UNCHANGED <<gens, listed, current, durable, saved>>
        /\ HandleOK(handles[h]) /\ ~handles[h].creates /\ handles[h] \in Handle
    BY DEF Open, disk, SaveInv, LockInv, TypeOK, CallOK, Save
  <1>2. CASE handles[h].id \in Ids
    <2>1. PICK l \in NewLineage(h) :
              Becomes(h, [Absent EXCEPT !.place = "idle", !.lineage = l,
                                        !.base = {handles[h].id},
                                        !.maps = handles[h].id,
                                        !.graph = gens[handles[h].id]])
      BY <1>2 DEF Open
    <2> DEFINE r == [Absent EXCEPT !.place = "idle", !.lineage = l, !.base = {handles[h].id},
                                   !.maps = handles[h].id, !.graph = gens[handles[h].id]]
    <2>2. l \in Lineages /\ handles[h].id \in Nat /\ gens[handles[h].id] \subseteq Nat
      BY <1>1, <1>2, NewLineageFacts DEF Handle, SaveInv, LockInv, TypeOK
    <2>3. /\ r \in Handle /\ r.place = "idle" /\ r.base = {handles[h].id} /\ ~r.creates
          /\ r.graph = gens[handles[h].id]
      BY <2>2 DEF Absent, Handle, Place, Save
    <2>4. Becomes(h, r)
      BY <2>1
    <2> HIDE DEF r
    <2>5. HandleOK(r)
      BY <1>1, <2>3 DEF HandleOK, StageOK, SourceOK, Ahead, Whole, Entered, Pointed
    <2>6. QED
      BY <1>1, <2>3, <2>4, <2>5, QuietSave
  <1>3. CASE handles[h].id \notin Ids
    BY <1>1, <1>3, AbsentFacts, AbsentSave, QuietSave DEF Open
  <1>4. QED
    BY <1>2, <1>3

\* A fork comes from where its parent comes from.
LEMMA ForkSave ==
    ASSUME SaveInv, LockInv', NEW h \in Handles, NEW fork \in Handles, Fork(h, fork)
    PROVE  SaveInv'
  <1>1. /\ handles[h] \in Handle /\ HandleOK(handles[h]) /\ ~handles[h].creates
        /\ handles[h].place = "idle" /\ Becomes(fork, handles[h])
        /\ UNCHANGED <<gens, listed, current, durable, saved>>
    BY DEF Fork, disk, SaveInv, LockInv, TypeOK, CallOK, Save
  <1>2. \A k \in Handles : ~handles[k].creates
    BY <1>1 DEF SaveInv, CreateOK
  <1>3. QED
    BY <1>1, <1>2, QuietSave

\* A handle that is gone says nothing.
LEMMA DropSave ==
    ASSUME SaveInv, LockInv', NEW h \in Handles, Drop(h) PROVE SaveInv'
  BY AbsentFacts, AbsentSave, QuietSave DEF Drop, disk

\* At rest a handle is there, and is no create.
LEMMA IdleFacts ==
    ASSUME SaveInv, NEW h \in Handles, handles[h].place \in {"idle", "leased", "ending"}
    PROVE  /\ handles[h].place \in Live /\ ~handles[h].creates /\ handles[h] \in Handle
           /\ CallOK(handles[h]) /\ TypeOK
  BY DEF SaveInv, LockInv, TypeOK, CallOK, Live, Place, Save

\* A write adds to the graph, or to that of a detached handle.
LEMMA MutateSave ==
    ASSUME SaveInv, LockInv', NEW h \in Handles, Mutate(h) PROVE SaveInv'
  <1>0. /\ handles[h].place = "idle" /\ UNCHANGED <<gens, listed, current, durable, saved>>
        /\ left.writes \in Nat
    BY DEF Mutate, disk, SaveInv, LockInv, TypeOK, Budget
  <1>1. /\ handles[h].place \in Live /\ ~handles[h].creates /\ CallOK(handles[h]) /\ TypeOK
    BY <1>0, IdleFacts
  <1>2. PICK now \in Detached(h) :
          LET written == [now EXCEPT !.graph = @ \cup {left.writes}]
          IN  \/ Becomes(h, written)
              \/ Becomes(h, [written EXCEPT !.holds = TRUE])
    BY DEF Mutate
  <1>3. /\ now \in Handle /\ now.place = "idle" /\ ~now.creates /\ now.base = handles[h].base
        /\ now.graph = handles[h].graph /\ (handles[h].detached => now.detached)
    BY <1>0, <1>1, DetachedFacts
  <1> DEFINE written == [now EXCEPT !.graph = @ \cup {left.writes}]
             held == [written EXCEPT !.holds = TRUE]
  <1>4. /\ written \in Handle /\ written.place = "idle" /\ ~written.creates
        /\ written.base = now.base /\ written.detached = now.detached
        /\ now.graph \subseteq written.graph
    BY <1>0, <1>3 DEF Handle
  <1>5. /\ held \in Handle /\ held.place = "idle" /\ ~held.creates
        /\ held.base = now.base /\ held.detached = now.detached
        /\ now.graph \subseteq held.graph
    <2> HIDE DEF written
    <2>1. QED
      BY <1>4 DEF Handle
  <1>6. Becomes(h, written) \/ Becomes(h, held)
    BY <1>2
  <1> HIDE DEF written, held
  <1>7. PICK r \in Handle : /\ Becomes(h, r) /\ r.place = "idle" /\ ~r.creates
                            /\ r.base = now.base /\ r.detached = now.detached
                            /\ now.graph \subseteq r.graph
    BY <1>4, <1>5, <1>6
  <1>8. HandleOK(r)
    BY <1>1, <1>3, <1>7, RestSave DEF Live, Place
  <1>9. QED
    BY <1>0, <1>7, <1>8, QuietSave

\* The end of authority leaves the graph as it is.
LEMMA EndLeaseSave ==
    ASSUME SaveInv, LockInv', NEW h \in Handles, EndLease(h) PROVE SaveInv'
  <1>1. /\ handles[h].place = "ending" /\ Becomes(h, Returned(handles[h]))
        /\ UNCHANGED <<gens, listed, current, durable, saved>>
    BY DEF EndLease, disk
  <1>2. handles[h].place \in Live /\ ~handles[h].creates /\ handles[h] \in Handle
    BY <1>1, IdleFacts
  <1>3. QED
    BY <1>1, <1>2, ReturnedFacts, RestSave, QuietSave DEF Live, Place

\* So does the lease of a save, on the handle or on its detached self,
LEMMA SaveLeaseSave ==
    ASSUME SaveInv, LockInv', NEW h \in Handles, SaveLease(h) PROVE SaveInv'
  <1>0. handles[h].place = "idle" /\ UNCHANGED <<gens, listed, current, durable, saved>>
    BY DEF SaveLease, disk
  <1>1. /\ handles[h].place \in Live /\ ~handles[h].creates /\ CallOK(handles[h]) /\ TypeOK
    BY <1>0, IdleFacts
  <1>2. PICK now \in Detached(h) :
          \/ Becomes(h, [now EXCEPT !.place = "leased", !.holds = TRUE, !.using = now.lineage])
          \/ Becomes(h, now)
    BY DEF SaveLease
  <1>3. /\ now \in Handle /\ now.place = "idle" /\ ~now.creates /\ now.base = handles[h].base
        /\ now.graph = handles[h].graph /\ (handles[h].detached => now.detached)
    BY <1>0, <1>1, DetachedFacts
  <1> DEFINE leased == [now EXCEPT !.place = "leased", !.holds = TRUE, !.using = now.lineage]
  <1>4. /\ leased \in Handle /\ leased.place = "leased" /\ ~leased.creates
        /\ leased.base = now.base /\ leased.detached = now.detached
        /\ leased.graph = now.graph
    BY <1>3 DEF Handle, Place
  <1>5. Becomes(h, leased) \/ Becomes(h, now)
    BY <1>2
  <1> HIDE DEF leased
  <1>6. PICK r \in Handle : /\ Becomes(h, r) /\ r.place \in {"idle", "leased"} /\ ~r.creates
                            /\ r.base = now.base /\ r.detached = now.detached
                            /\ r.graph = now.graph
    BY <1>3, <1>4, <1>5
  <1>7. HandleOK(r)
    BY <1>1, <1>3, <1>6, RestSave DEF Live, Place
  <1>8. QED
    BY <1>0, <1>6, <1>7, QuietSave

\* and its permit.
LEMMA SavePermitSave ==
    ASSUME SaveInv, LockInv', NEW h \in Handles, SavePermit(h) PROVE SaveInv'
  <1>0. handles[h].place = "leased" /\ UNCHANGED <<gens, listed, current, durable, saved>>
    BY DEF SavePermit, disk
  <1>1. /\ handles[h].place \in Live /\ ~handles[h].creates /\ CallOK(handles[h]) /\ TypeOK
    BY <1>0, IdleFacts
  <1>2. PICK now \in Detached(h) :
          \/ Becomes(h, [now EXCEPT !.place = "permitted"])
          \/ Becomes(h, Returned(now))
    BY DEF SavePermit
  <1>3. /\ now \in Handle /\ ~now.creates /\ now.base = handles[h].base
        /\ now.graph = handles[h].graph /\ (handles[h].detached => now.detached)
    BY <1>0, <1>1, DetachedFacts
  <1> DEFINE permitted == [now EXCEPT !.place = "permitted"]
  <1>4. /\ permitted \in Handle /\ permitted.place = "permitted" /\ ~permitted.creates
        /\ permitted.base = now.base /\ permitted.detached = now.detached
        /\ permitted.graph = now.graph
    BY <1>3 DEF Handle, Place, Save
  <1>5. Becomes(h, permitted) \/ Becomes(h, Returned(now))
    BY <1>2
  <1> HIDE DEF permitted
  <1>6. PICK r \in Handle : /\ Becomes(h, r) /\ r.place \in {"idle", "permitted"}
                            /\ ~r.creates /\ r.base = now.base
                            /\ r.detached = now.detached /\ r.graph = now.graph
    BY <1>3, <1>4, <1>5, ReturnedFacts
  <1>7. HandleOK(r)
    BY <1>1, <1>3, <1>6, RestSave DEF Live, Place, Save
  <1>8. QED
    BY <1>0, <1>6, <1>7, QuietSave

\* The flag changes no graph and no place but the caller's.
LEMMA EndSave ==
    ASSUME SaveInv, LockInv', NEW h \in Handles, End(h) PROVE SaveInv'
  <1>0. /\ handles[h].place = "idle" /\ handles \in [Handles -> Handle]
        /\ UNCHANGED <<gens, listed, current, durable, saved>>
    BY DEF End, disk, SaveInv, LockInv, TypeOK
  <1>1. ASSUME NEW k \in Handles
        PROVE  /\ handles'[k].creates = handles[k].creates
               /\ handles'[k].base = handles[k].base /\ handles'[k].graph = handles[k].graph
               /\ handles'[k].detached = handles[k].detached
               /\ handles'[k].id = handles[k].id
               /\ \/ handles'[k].place = handles[k].place
                  \/ k = h /\ handles'[k].place = "ending"
    <2>1. handles[k] \in Handle
      BY <1>0
    <2> DEFINE revoked(j) == [handles[j] EXCEPT !.revoked = TRUE]
    <2>2. handles'[k] =
            IF k = h
            THEN IF owner = handles[h].lineage
                 THEN [revoked(h) EXCEPT !.place = "ending", !.using = owner]
                 ELSE revoked(h)
            ELSE IF handles[k].lineage = handles[h].lineage THEN revoked(k)
            ELSE handles[k]
      BY Zenon DEF End
    <2>4. CASE k # h
      BY <2>1, <2>2, <2>4 DEF Handle
    <2>5. CASE k = h
      BY <2>1, <2>2, <2>5 DEF Handle
    <2>6. QED
      BY <2>4, <2>5
  <1>2. Ids' = Ids
    BY <1>0 DEF Ids
  <1>3. (\A k \in Handles : HandleOK(handles[k]))'
    <2>1. ASSUME NEW k \in Handles PROVE HandleOK(handles'[k])
      <3>1. HandleOK(handles[k])
        BY DEF SaveInv
      <3>2. QED
        BY <1>0, <1>1, <3>1 DEF HandleOK, StageOK, SourceOK, Live, Place, Ahead, Whole,
           Entered, Pointed
    <2>2. QED
      BY <1>0, <1>2, <2>1 DEF HandleOK, StageOK, SourceOK
  <1>4. CreateOK'
    BY <1>0, <1>1 DEF SaveInv, CreateOK
  <1>5. SelectedResolves' /\ SavedStays'
    BY <1>0, <1>2 DEF SaveInv, SelectedResolves, SavedStays, Contents
  <1>6. QED
    BY <1>3, <1>4, <1>5 DEF SaveInv

-----------------------------------------------------------------------------
(* The steps of a save and of a create.                                    *)

\* A call that fails leaves the disk as it is, but for its stage.
LEMMA FailsSave ==
    ASSUME SaveInv, LockInv', NEW h \in Handles, handles[h].place \in Save \cup {"creating"},
           Fails(h)
    PROVE  SaveInv'
  <1>1. UNCHANGED <<gens, listed, current, durable, saved>> /\ handles[h] \in Handle
    BY DEF Fails, SaveInv, LockInv, TypeOK
  <1>2. CASE handles[h].creates
    BY <1>1, <1>2, AbsentFacts, AbsentSave, QuietSave DEF Fails
  <1>3. CASE ~handles[h].creates
    <2>1. handles[h].place \in Save
      BY <1>3 DEF SaveInv, LockInv, CallOK
    <2>2. handles[h].place \in Live /\ "idle" \in Live /\ handles[h].place # "none"
      BY <2>1 DEF Live, Place, Save
    <2>3. Becomes(h, Returned(handles[h]))
      BY <1>3 DEF Fails
    <2>4. /\ Returned(handles[h]) \in Handle /\ Returned(handles[h]).place = "idle"
          /\ ~Returned(handles[h]).creates
          /\ Returned(handles[h]).base = handles[h].base
          /\ Returned(handles[h]).graph = handles[h].graph
          /\ Returned(handles[h]).detached = handles[h].detached
      BY <1>1, ReturnedFacts
    <2>5. HandleOK(Returned(handles[h]))
      BY <1>3, <2>2, <2>4, RestSave
    <2>6. QED
      BY <1>1, <2>2, <2>3, <2>4, <2>5, QuietSave
  <1>4. QED
    BY <1>2, <1>3

\* The next id is past all that are there.
LEMMA NextIdFacts ==
    ASSUME TypeOK, NEW id \in NextId
    PROVE  id \in Nat /\ id > current /\ id \notin Ids
  <1> DEFINE known == Ids \cup {current}
  <1>1. PICK k \in known : id = k + 1 /\ \A j \in known : j <= k
    BY DEF NextId
  <1>2. known \subseteq Nat
    BY DEF TypeOK
  <1>3. k \in Nat /\ id \in Nat /\ current <= k /\ \A j \in Ids : j \in Nat /\ j <= k
    BY <1>1, <1>2
  <1>4. current \in Nat
    BY <1>2
  <1>5. id > current
    BY <1>1, <1>3, <1>4
  <1>6. id \notin Ids
    BY <1>1, <1>3
  <1>7. QED
    BY <1>3, <1>5, <1>6

\* A save that is compared comes from CURRENT, so its graph has all that is saved.
LEMMA BeginSave ==
    ASSUME SaveInv, LockInv', NEW h \in Handles, Begin(h),
           handles[h].place \in {"permitted", "creating"},
           handles[h].place = "permitted" => Unguarded(h) \/ current \in handles[h].base
    PROVE  SaveInv'
  <1>1. CASE Fails(h)
    BY <1>1, FailsSave DEF Save
  <1>2. CASE /\ \E id \in NextId :
                   Becomes(h, [handles[h] EXCEPT !.place = "staged", !.id = id])
             /\ UNCHANGED <<gens, listed, current, durable, saved>>
    <2>1. PICK id \in NextId : Becomes(h, [handles[h] EXCEPT !.place = "staged", !.id = id])
      BY <1>2
    <2> DEFINE r == [handles[h] EXCEPT !.place = "staged", !.id = id]
    <2>2. /\ handles[h] \in Handle /\ HandleOK(handles[h]) /\ CallOK(handles[h]) /\ TypeOK
      BY DEF SaveInv, LockInv, TypeOK
    <2>3. id \in Nat /\ id > current
      BY <2>2, NextIdFacts
    <2>4. /\ r \in Handle /\ r.place = "staged" /\ r.id = id
          /\ r.creates = handles[h].creates /\ r.base = handles[h].base
          /\ r.graph = handles[h].graph /\ r.detached = handles[h].detached
      BY <2>2, <2>3 DEF Handle, Place, Save
    <2>5. Becomes(h, r)
      BY <2>1
    <2> HIDE DEF r
    <2>6. CASE handles[h].place = "permitted"
      <3>1. handles[h].place \in Live
        BY <2>6 DEF Live, Place, Save
      <3>2. SourceOK(r)
        BY <2>2, <2>4, <2>6, <3>1 DEF HandleOK, SourceOK
      <3>3. ASSUME ~r.detached, r.base # {} PROVE saved \subseteq r.graph
        <4>1. current \in handles[h].base /\ ~handles[h].detached
          BY <2>4, <2>6, <3>3 DEF Unguarded
        <4>2. current \in Ids => gens[current] \subseteq r.graph
          BY <2>2, <2>4, <3>1, <4>1 DEF HandleOK, SourceOK
        <4>3. saved \subseteq Contents(current)
          BY DEF SaveInv, SavedStays
        <4>4. QED
          BY <4>2, <4>3 DEF Contents
      <3>4. StageOK(r)
        BY <2>3, <2>4, <3>3 DEF StageOK, Ahead, Whole, Entered, Pointed
      <3>5. QED
        BY <1>2, <2>4, <2>5, <2>6, <3>2, <3>4, QuietSave DEF HandleOK
    <2>7. CASE handles[h].place = "creating"
      <3>1. handles[h].creates /\ handles[h].base = {}
        BY <2>2, <2>7 DEF CallOK, HandleOK, SourceOK
      <3>2. QED
        BY <1>2, <2>3, <2>4, <2>5, <2>7, <3>1, QuietSave
           DEF HandleOK, StageOK, SourceOK, Ahead, Whole, Entered, Pointed
    <2>8. QED
      BY <2>6, <2>7
  <1>3. QED
    BY <1>1, <1>2 DEF Begin

\* One that is refused changes nothing.
LEMMA SaveBeginSave ==
    ASSUME SaveInv, LockInv', NEW h \in Handles, SaveBegin(h) PROVE SaveInv'
  <1>1. CASE Unguarded(h) \/ current \in handles[h].base
    BY <1>1, BeginSave DEF SaveBegin
  <1>2. CASE ~(Unguarded(h) \/ current \in handles[h].base)
    BY <1>2, FailsSave DEF SaveBegin, Save
  <1>3. QED
    BY <1>1, <1>2

\* What a publication's handle keeps when its place moves.
LEMMA MovedFacts ==
    ASSUME TypeOK, NEW h \in Handles, NEW p \in Save,
           Becomes(h, [handles[h] EXCEPT !.place = p])
    PROVE  \E r \in Handle :
              /\ Becomes(h, r) /\ r.place = p /\ r.id = handles[h].id
              /\ r.creates = handles[h].creates /\ r.base = handles[h].base
              /\ r.graph = handles[h].graph /\ r.detached = handles[h].detached
  <1>1. handles[h] \in Handle
    BY DEF TypeOK
  <1> DEFINE r == [handles[h] EXCEPT !.place = p]
  <1>2. /\ r \in Handle /\ r.place = p /\ r.id = handles[h].id
        /\ r.creates = handles[h].creates /\ r.base = handles[h].base
        /\ r.graph = handles[h].graph /\ r.detached = handles[h].detached
    BY <1>1 DEF Handle, Place
  <1>3. Becomes(h, r)
    OBVIOUS
  <1> HIDE DEF r
  <1>4. QED
    BY <1>2, <1>3

\* What is known of a publication's handle.
LEMMA StageFacts ==
    ASSUME SaveInv, NEW h \in Handles, handles[h].place \in Save
    PROVE  /\ TypeOK /\ CreateOK /\ SelectedResolves /\ SavedStays
           /\ HandleOK(handles[h]) /\ handles[h].place \in Live /\ handles[h] \in Handle
           /\ handles[h].id \in Nat /\ current \in Nat /\ Ids \subseteq Nat \ {0}
  BY DEF SaveInv, LockInv, TypeOK, Live, Place, Save, Handle

\* The new generation is nobody's base, and CURRENT does not name it yet.
LEMMA RenameSave ==
    ASSUME SaveInv, LockInv', NEW h \in Handles, Rename(h) PROVE SaveInv'
  <1>1. CASE Fails(h)
    BY <1>1, FailsSave DEF Rename, Save
  <1>2. CASE /\ handles[h].id \notin Ids
             /\ gens' = [id \in Ids \cup {handles[h].id} |->
                             IF id \in Ids THEN gens[id] ELSE handles[h].graph]
             /\ Becomes(h, [handles[h] EXCEPT !.place = "renamed"])
             /\ UNCHANGED <<listed, current, durable, saved>>
    <2>1. handles[h].place = "staged" /\ handles[h].place \in Save
      BY DEF Rename, Save
    <2>2. PICK r \in Handle :
              /\ Becomes(h, r) /\ r.place = "renamed" /\ r.id = handles[h].id
              /\ r.creates = handles[h].creates /\ r.base = handles[h].base
              /\ r.graph = handles[h].graph /\ r.detached = handles[h].detached
      BY <1>2, <2>1, StageFacts, MovedFacts DEF Save
    <2>4. /\ Ids' = Ids \cup {handles[h].id} /\ gens'[handles[h].id] = handles[h].graph
          /\ \A b \in Ids : gens'[b] = gens[b]
      BY <1>2 DEF Ids
    <2>5. handles[h].id > current
      BY <2>1, StageFacts DEF HandleOK, StageOK, Ahead
    <2>6. \A b \in Ids' : b <= current => b \in Ids /\ gens'[b] = gens[b]
      BY <2>1, <2>4, <2>5, StageFacts
    <2>7. HandleOK(r)'
      <3>1. StageOK(r)'
        BY <1>2, <2>1, <2>2, <2>4, StageFacts
           DEF HandleOK, StageOK, Ahead, Whole, Entered, Pointed
      <3>2. SourceOK(r)'
        <4>1. SourceOK(handles[h]) /\ handles[h].place \in Live
          BY <2>1, StageFacts DEF HandleOK
        <4>2. handles[h].place # "none" /\ r.place # "opening"
          BY <2>1, <2>2
        <4>3. \A b \in r.base : b <= current => (b \in Ids' => b \in Ids /\ gens'[b] = gens[b])
          BY <2>6
        <4>4. QED
          BY <1>2, <2>2, <4>1, <4>2, <4>3 DEF SourceOK
      <3>3. QED
        BY <3>1, <3>2 DEF HandleOK
    <2>8. SelectedResolves' /\ SavedStays'
      BY <1>2, <2>1, <2>4, StageFacts DEF SelectedResolves, SavedStays, Contents
    <2>9. current' >= current
      BY <1>2, <2>1, StageFacts
    <2>10. QED
      BY <2>1, <2>2, <2>6, <2>7, <2>8, <2>9, PublicationSave
  <1>3. QED
    BY <1>1, <1>2 DEF Rename

\* The new generation's entry is on the platter before CURRENT names it.
LEMMA SyncListSave ==
    ASSUME SaveInv, LockInv', NEW h \in Handles, SyncList(h) PROVE SaveInv'
  <1>1. CASE Fails(h)
    BY <1>1, FailsSave DEF SyncList, Save
  <1>2. CASE /\ listed' = Ids
             /\ Becomes(h, [handles[h] EXCEPT !.place = "listed"])
             /\ UNCHANGED <<gens, current, durable, saved>>
    <2>1. handles[h].place = "renamed" /\ handles[h].place \in Save
      BY DEF SyncList, Save
    <2>2. PICK r \in Handle :
              /\ Becomes(h, r) /\ r.place = "listed" /\ r.id = handles[h].id
              /\ r.creates = handles[h].creates /\ r.base = handles[h].base
              /\ r.graph = handles[h].graph /\ r.detached = handles[h].detached
      BY <1>2, <2>1, StageFacts, MovedFacts DEF Save
    <2>4. Ids' = Ids /\ gens' = gens /\ current' = current
      BY <1>2 DEF Ids
    <2>5. StageOK(r)'
      BY <1>2, <2>1, <2>2, <2>4, StageFacts
         DEF HandleOK, StageOK, Ahead, Whole, Entered, Pointed
    <2>6. SourceOK(r)'
      BY <2>1, <2>2, <2>4, StageFacts DEF HandleOK, SourceOK
    <2>7. SelectedResolves' /\ SavedStays'
      BY <1>2, <2>1, <2>4, StageFacts DEF SelectedResolves, SavedStays, Contents
    <2>8. QED
      BY <2>1, <2>2, <2>4, <2>5, <2>6, <2>7, StageFacts, PublicationSave DEF HandleOK
  <1>3. QED
    BY <1>1, <1>2 DEF SyncList

\* CURRENT names the old generation or the new one, and either has what is saved.
LEMMA SelectSave ==
    ASSUME SaveInv, LockInv', NEW h \in Handles, Select(h) PROVE SaveInv'
  <1>1. CASE Fails(h)
    BY <1>1, FailsSave DEF Select, Save
  <1>2. CASE /\ current' = handles[h].id
             /\ durable' = durable \cup {handles[h].id}
             /\ saved' = IF Unguarded(h) THEN saved \cap handles[h].graph ELSE saved
             /\ Becomes(h, [handles[h] EXCEPT !.place = "selected"])
             /\ UNCHANGED <<gens, listed>>
    <2>1. handles[h].place = "listed" /\ handles[h].place \in Save
      BY DEF Select, Save
    <2>2. PICK r \in Handle :
              /\ Becomes(h, r) /\ r.place = "selected" /\ r.id = handles[h].id
              /\ r.creates = handles[h].creates /\ r.base = handles[h].base
              /\ r.graph = handles[h].graph /\ r.detached = handles[h].detached
      BY <1>2, <2>1, StageFacts, MovedFacts DEF Save
    <2>4. Ids' = Ids /\ gens' = gens
      BY <1>2 DEF Ids
    <2>5. /\ handles[h].id > current /\ handles[h].id \in Ids /\ handles[h].id \in listed
          /\ gens[handles[h].id] = handles[h].graph
      BY <2>1, StageFacts DEF HandleOK, StageOK, Ahead, Whole, Entered
    <2>6. StageOK(r)'
      BY <1>2, <2>2, <2>4, <2>5 DEF StageOK, Ahead, Whole, Entered, Pointed
    <2>7. SourceOK(r)'
      <3>1. SourceOK(handles[h]) /\ handles[h].place \in Live
        BY <2>1, StageFacts DEF HandleOK
      <3>2. handles[h].base \subseteq Nat /\ current' # 0
        BY <1>2, <2>1, <2>5, StageFacts DEF Handle
      <3>3. QED
        BY <1>2, <2>1, <2>2, <2>4, <2>5, <3>1, <3>2, StageFacts DEF SourceOK
    <2>8. saved' \subseteq saved /\ saved' \subseteq handles[h].graph
      BY <1>2, <2>1, StageFacts DEF HandleOK, StageOK, Ahead, Unguarded
    <2>9. SavedStays'
      BY <1>2, <2>1, <2>4, <2>5, <2>8, StageFacts DEF SavedStays, Contents
    <2>10. SelectedResolves'
      BY <1>2, <2>1, <2>4, <2>5, StageFacts DEF SelectedResolves
    <2>11. current' >= current
      BY <1>2, <2>1, <2>5, StageFacts
    <2>12. QED
      BY <2>1, <2>2, <2>4, <2>6, <2>7, <2>9, <2>10, <2>11, PublicationSave DEF HandleOK
  <1>3. QED
    BY <1>1, <1>2 DEF Select

\* From here only the new one.
LEMMA SyncRootSave ==
    ASSUME SaveInv, LockInv', NEW h \in Handles, SyncRoot(h) PROVE SaveInv'
  <1>1. CASE Fails(h)
    BY <1>1, FailsSave DEF SyncRoot, Save
  <1>2. CASE /\ durable' = {current}
             /\ Becomes(h, [handles[h] EXCEPT !.place = "synced"])
             /\ UNCHANGED <<gens, listed, current, saved>>
    <2>1. handles[h].place = "selected" /\ handles[h].place \in Save
      BY DEF SyncRoot, Save
    <2>2. PICK r \in Handle :
              /\ Becomes(h, r) /\ r.place = "synced" /\ r.id = handles[h].id
              /\ r.creates = handles[h].creates /\ r.base = handles[h].base
              /\ r.graph = handles[h].graph /\ r.detached = handles[h].detached
      BY <1>2, <2>1, StageFacts, MovedFacts DEF Save
    <2>4. Ids' = Ids /\ gens' = gens /\ current' = current
      BY <1>2 DEF Ids
    <2>5. StageOK(r)'
      BY <1>2, <2>1, <2>2, <2>4, StageFacts
         DEF HandleOK, StageOK, Ahead, Whole, Entered, Pointed
    <2>6. SourceOK(r)'
      BY <2>1, <2>2, <2>4, StageFacts DEF HandleOK, SourceOK
    <2>7. SelectedResolves' /\ SavedStays'
      BY <1>2, <2>1, <2>4, StageFacts DEF SelectedResolves, SavedStays, Contents
    <2>8. QED
      BY <2>1, <2>2, <2>4, <2>5, <2>6, <2>7, StageFacts, PublicationSave DEF HandleOK
  <1>3. QED
    BY <1>1, <1>2 DEF SyncRoot

\* The prune takes only what is older than CURRENT, and no power loss goes back to it.
LEMMA FinishSave ==
    ASSUME SaveInv, LockInv', NEW h \in Handles, Finish(h) PROVE SaveInv'
  <1> DEFINE back == Returned(handles[h])
             rebased == [Returned(handles[h]) EXCEPT !.base = {handles[h].id},
                                                     !.maps = handles[h].id,
                                                     !.detached = FALSE]
             dropped == [rebased EXCEPT !.holds = FALSE]
  <1>1. /\ handles[h].place = "synced" /\ handles[h].place \in Save /\ ~handles[h].creates
        /\ UNCHANGED <<current, durable>>
    BY DEF Finish, Save
  <1>2. /\ handles[h].id = current /\ current \in Ids /\ current \in listed
        /\ gens[current] = handles[h].graph /\ durable = {current} /\ current # 0
    BY <1>1, StageFacts DEF HandleOK, StageOK, Ahead, Whole, Entered, Pointed
  <1>3. /\ back \in Handle /\ back.place = "idle" /\ ~back.creates
        /\ back.graph = handles[h].graph
    BY <1>1, StageFacts, ReturnedFacts
  <1>4. /\ rebased \in Handle /\ rebased.place = "idle" /\ ~rebased.creates
        /\ rebased.graph = handles[h].graph /\ rebased.base = {current}
    <2> HIDE DEF back
    <2>1. rebased = [back EXCEPT !.base = {handles[h].id}, !.maps = handles[h].id,
                                 !.detached = FALSE]
      BY DEF back
    <2>2. QED
      BY <1>1, <1>2, <1>3, <2>1, StageFacts DEF Handle
  <1>5. /\ dropped \in Handle /\ dropped.place = "idle" /\ ~dropped.creates
        /\ dropped.graph = handles[h].graph /\ dropped.base = {current}
    <2> HIDE DEF rebased
    <2>1. QED
      BY <1>4 DEF Handle
  <1>6. \/ /\ Becomes(h, dropped)
           /\ \E gone \in SUBSET (Outdated \ Pinned(h)) :
                 gens' = [id \in Ids \ gone |-> gens[id]]
           /\ listed' = listed \cap DOMAIN gens'
           /\ saved' = saved \cup handles[h].graph
        \/ Becomes(h, rebased) /\ UNCHANGED <<gens, listed, saved>>
    BY DEF Finish
  <1> HIDE DEF back, rebased, dropped
  <1>7. PICK r \in Handle : /\ Becomes(h, r) /\ r.place = "idle" /\ ~r.creates
                            /\ r.graph = handles[h].graph /\ r.base = {current}
    BY <1>4, <1>5, <1>6
  <1>8. /\ Ids' \subseteq Ids /\ \A b \in Ids' : gens'[b] = gens[b]
        /\ current \in Ids' /\ current \in listed'
        /\ saved' \subseteq saved \cup handles[h].graph
    <2>1. CASE /\ \E gone \in SUBSET (Outdated \ Pinned(h)) :
                     gens' = [id \in Ids \ gone |-> gens[id]]
               /\ listed' = listed \cap DOMAIN gens'
               /\ saved' = saved \cup handles[h].graph
      <3>1. PICK gone \in SUBSET (Outdated \ Pinned(h)) :
                gens' = [id \in Ids \ gone |-> gens[id]]
        BY <2>1
      <3>2. current \notin gone
        <4>1. gone \subseteq Outdated
          BY <3>1
        <4>2. \A id \in Outdated : id < current
          BY DEF Outdated
        <4>3. QED
          BY <1>1, <4>1, <4>2, StageFacts
      <3>3. Ids' = Ids \ gone /\ \A b \in Ids' : gens'[b] = gens[b]
        BY <3>1 DEF Ids
      <3>4. QED
        BY <1>2, <2>1, <3>2, <3>3 DEF Ids
    <2>2. CASE UNCHANGED <<gens, listed, saved>>
      BY <1>2, <2>2 DEF Ids
    <2>3. QED
      BY <1>6, <2>1, <2>2
  <1>9. saved' \subseteq Contents(current)' /\ durable' \cup {current'} = {current}
    <2>1. saved \subseteq gens[current]
      BY <1>1, <1>2, StageFacts DEF SavedStays, Contents
    <2>2. gens'[current] = handles[h].graph
      BY <1>2, <1>8
    <2>3. QED
      BY <1>1, <1>2, <1>8, <2>1, <2>2 DEF Contents
  <1>10. SavedStays' /\ SelectedResolves'
    BY <1>1, <1>2, <1>8, <1>9 DEF SavedStays, SelectedResolves, Contents
  <1>11. HandleOK(r)'
    BY <1>1, <1>2, <1>7, <1>8, StageFacts
       DEF HandleOK, StageOK, SourceOK, Ahead, Whole, Entered, Pointed
  <1>12. current' >= current
    BY <1>1, StageFacts
  <1>13. QED
    BY <1>1, <1>7, <1>8, <1>10, <1>11, <1>12, PublicationSave

\* A create in an empty directory finds no handle but its own.
LEMMA CreateSave ==
    ASSUME CreatesAlone, SaveInv, LockInv', NEW h \in Handles, Create(h) PROVE SaveInv'
  <1>1. /\ handles[h].place = "none" /\ UNCHANGED <<gens, listed, current, durable, saved>>
        /\ \A k \in Handles : ~handles[k].creates
    BY DEF Create, disk, Admitted
  <1>2. PICK l \in NewLineage(h) :
          Becomes(h, IF current # 0
                     THEN [Absent EXCEPT !.place = "idle", !.lineage = l]
                     ELSE [Absent EXCEPT !.place = "creating", !.lineage = l,
                                         !.creates = TRUE])
    BY DEF Create
  <1>3. l \in Lineages
    BY NewLineageFacts
  <1>4. CASE current # 0
    <2>1. PICK r \in Handle : /\ Becomes(h, r) /\ r.place = "idle" /\ ~r.creates
                              /\ r.base = {}
      <3> DEFINE given == [Absent EXCEPT !.place = "idle", !.lineage = l]
      <3>1. /\ given \in Handle /\ given.place = "idle" /\ ~given.creates
            /\ given.base = {}
        BY <1>3 DEF Absent, Handle, Place, NoLineage
      <3>2. Becomes(h, given)
        BY <1>2, <1>4
      <3> HIDE DEF given
      <3>3. QED
        BY <3>1, <3>2
    <2>2. HandleOK(r)
      BY <1>4, <2>1 DEF HandleOK, StageOK, SourceOK, Ahead, Whole, Entered, Pointed
    <2>3. QED
      BY <1>1, <2>1, <2>2, QuietSave
  <1>5. CASE current = 0
    <2>1. PICK r \in Handle : /\ Becomes(h, r) /\ r.place = "creating" /\ r.creates
                              /\ r.base = {}
      <3> DEFINE begun == [Absent EXCEPT !.place = "creating", !.lineage = l,
                                         !.creates = TRUE]
      <3>1. /\ begun \in Handle /\ begun.place = "creating" /\ begun.creates
            /\ begun.base = {}
        BY <1>3 DEF Absent, Handle, Place, NoLineage
      <3>2. Becomes(h, begun)
        BY <1>2, <1>5
      <3> HIDE DEF begun
      <3>3. QED
        BY <3>1, <3>2
    <2>2. HandleOK(r)
      BY <2>1 DEF HandleOK, StageOK, SourceOK, Ahead, Whole, Entered, Pointed, Live, Place, Save
    <2>3. /\ handles'[h] = r
          /\ \A k \in Handles \ {h} : handles'[k] = handles[k]
      BY <2>1, BecomesFacts DEF SaveInv, LockInv
    <2>4. \A k \in Handles : handles[k].place = "none"
      BY <1>1, <1>5 DEF SaveInv, HandleOK, SourceOK
    <2>5. CreateOK'
      BY <1>1, <2>3, <2>4 DEF CreateOK
    <2>6. Ids' = Ids
      BY <1>1 DEF Ids
    <2>7. (\A k \in Handles : HandleOK(handles[k]))'
      <3>1. \A k \in Handles : HandleOK(handles'[k])
        BY <2>2, <2>3 DEF SaveInv
      <3>2. QED
        BY <1>1, <2>6, <3>1 DEF HandleOK, StageOK, SourceOK
    <2>8. SelectedResolves' /\ SavedStays'
      BY <1>1, <2>6 DEF SaveInv, SelectedResolves, SavedStays, Contents
    <2>9. QED
      BY <2>5, <2>7, <2>8 DEF SaveInv
  <1>6. QED
    BY <1>4, <1>5

\* Its stage is named as a save's is.
LEMMA CreateBeginSave ==
    ASSUME SaveInv, LockInv', NEW h \in Handles, CreateBegin(h) PROVE SaveInv'
  BY BeginSave DEF CreateBegin

\* It ends on the generation it published.
LEMMA CreateEndsSave ==
    ASSUME SaveInv, LockInv', NEW h \in Handles, CreateEnds(h) PROVE SaveInv'
  <1> DEFINE back == Returned(handles[h])
             rebased == [back EXCEPT !.base = {current}]
  <1>1. /\ handles[h].place = "synced" /\ handles[h].place \in Save
        /\ Becomes(h, rebased) /\ UNCHANGED <<gens, listed, current, durable, saved>>
    BY DEF CreateEnds, Save, disk
  <1>2. /\ handles[h].id = current /\ current \in Ids
        /\ gens[current] = handles[h].graph /\ current # 0
    BY <1>1, StageFacts DEF HandleOK, StageOK, Ahead, Whole, Entered, Pointed
  <1>3. back \in Handle /\ back.place = "idle" /\ ~back.creates /\ back.graph = handles[h].graph
    BY <1>1, StageFacts, ReturnedFacts
  <1>4. /\ rebased \in Handle /\ rebased.place = "idle" /\ ~rebased.creates
        /\ rebased.graph = handles[h].graph /\ rebased.base = {current}
    <2> HIDE DEF back
    <2>1. QED
      BY <1>1, <1>3, StageFacts DEF Handle
  <1> HIDE DEF back, rebased
  <1>5. HandleOK(rebased)
    BY <1>1, <1>2, <1>4, StageFacts
       DEF HandleOK, StageOK, SourceOK, Ahead, Whole, Entered, Pointed
  <1>6. handles[h].place # "none"
    BY <1>1
  <1>7. QED
    BY <1>1, <1>4, <1>5, <1>6, QuietSave

-----------------------------------------------------------------------------
(* Crashes.                                                                *)

\* A process that dies leaves the disk as it is.
LEMMA CrashSave ==
    ASSUME SaveInv, LockInv', NEW P \in Processes, Crash(P) PROVE SaveInv'
  <1>1. /\ UNCHANGED <<gens, listed, current, durable, saved>>
        /\ handles' = [h \in Handles |-> IF h \in P THEN Absent ELSE handles[h]]
    BY DEF Crash
  <1>2. Ids' = Ids
    BY <1>1 DEF Ids
  <1>3. (\A k \in Handles : HandleOK(handles[k]))'
    <2>1. \A k \in Handles : HandleOK(handles'[k])
      BY <1>1, AbsentSave DEF SaveInv
    <2>2. QED
      BY <1>1, <1>2, <2>1 DEF HandleOK, StageOK, SourceOK
  <1>4. CreateOK'
    BY <1>1, AbsentSave DEF SaveInv, CreateOK
  <1>5. SelectedResolves' /\ SavedStays'
    BY <1>1, <1>2 DEF SaveInv, SelectedResolves, SavedStays, Contents
  <1>6. QED
    BY <1>3, <1>4, <1>5 DEF SaveInv

\* CURRENT falls back at most to what its last sync leaves, which is still there.
LEMMA PowerLossSave ==
    ASSUME SaveInv, LockInv', PowerLoss PROVE SaveInv'
  <1>1. /\ current' \in durable /\ durable' = {current'} /\ saved' = saved
        /\ handles' = [h \in Handles |-> Absent]
    BY DEF PowerLoss
  <1>2. PICK kept \in SUBSET (Ids \ listed) :
          /\ gens' = [id \in (Ids \cap listed) \cup kept |-> gens[id]]
          /\ listed' = DOMAIN gens'
    BY DEF PowerLoss
  <1>3. /\ Ids' = (Ids \cap listed) \cup kept /\ listed' = Ids'
        /\ \A b \in Ids' : gens'[b] = gens[b] /\ b \in Ids
    BY <1>2 DEF Ids
  <1>4. durable \subseteq (Ids \cap listed) \cup {0} /\ 0 \notin Ids
    BY DEF SaveInv, SelectedResolves, LockInv, TypeOK
  <1>5. SelectedResolves'
    BY <1>1, <1>3, <1>4 DEF SelectedResolves
  <1>6. SavedStays'
    <2>1. saved \subseteq Contents(current')
      BY <1>1 DEF SaveInv, SavedStays
    <2>2. CASE current' \in Ids
      BY <1>1, <1>3, <1>4, <2>1, <2>2 DEF SavedStays, Contents
    <2>3. CASE current' \notin Ids
      BY <1>1, <2>1, <2>3 DEF SavedStays, Contents
    <2>4. QED
      BY <2>2, <2>3
  <1>7. (\A k \in Handles : HandleOK(handles[k]))'
    BY <1>1 DEF HandleOK, StageOK, SourceOK, Absent, Ahead, Whole, Entered, Pointed, Live, Place
  <1>8. CreateOK'
    BY <1>1, AbsentSave DEF CreateOK
  <1>9. QED
    BY <1>5, <1>6, <1>7, <1>8 DEF SaveInv

-----------------------------------------------------------------------------
\* Every step preserves the invariant, if creates are alone.
LEMMA NextSave == CreatesAlone /\ SaveInv /\ [Next]_vars => SaveInv'
  <1> SUFFICES ASSUME CreatesAlone, SaveInv, [Next]_vars PROVE SaveInv'
    OBVIOUS
  <1>0. LockInv'
    BY NextLock DEF SaveInv
  <1>1. ASSUME NEW h \in Handles, Resolve(h) \/ Open(h) \/ Mutate(h) \/ Drop(h) PROVE SaveInv'
    BY <1>0, <1>1, ResolveSave, OpenSave, MutateSave, DropSave
  <1>2. ASSUME NEW h \in Handles, End(h) \/ EndLease(h) PROVE SaveInv'
    BY <1>0, <1>2, EndSave, EndLeaseSave
  <1>3. ASSUME NEW h \in Handles, Saves(h) PROVE SaveInv'
    BY <1>0, <1>3, SaveLeaseSave, SavePermitSave, SaveBeginSave, RenameSave, SyncListSave,
       SelectSave, SyncRootSave, FinishSave DEF Saves
  <1>4. ASSUME NEW h \in Handles, Create(h) \/ CreateBegin(h) \/ CreateEnds(h) PROVE SaveInv'
    BY <1>0, <1>4, CreateSave, CreateBeginSave, CreateEndsSave
  <1>5. ASSUME NEW h \in Handles, NEW fork \in Handles, Fork(h, fork) PROVE SaveInv'
    BY <1>0, <1>5, ForkSave
  <1>6. ASSUME NEW P \in Processes, Crash(P) PROVE SaveInv'
    BY <1>0, <1>6, CrashSave
  <1>7. ASSUME PowerLoss PROVE SaveInv'
    BY <1>0, <1>7, PowerLossSave
  <1>8. ASSUME UNCHANGED vars PROVE SaveInv'
    BY <1>0, <1>8 DEF vars, disk, SaveInv, HandleOK, StageOK, SourceOK, CreateOK,
       SelectedResolves, SavedStays, Contents, Ids
  <1>9. QED
    BY <1>1, <1>2, <1>3, <1>4, <1>5, <1>6, <1>7, <1>8 DEF Next

\* What a save acknowledged is in whatever generation CURRENT may name, now or after
\* a power loss, for any handles, processes and failures, if creates are alone.
THEOREM SavesStay == ASSUME CreatesAlone PROVE Spec => []SavedStays
  <1>1. SaveInv => SavedStays
    BY DEF SaveInv
  <1>2. SaveInv /\ [Next]_vars => SaveInv'
    BY NextSave
  <1>3. QED
    BY <1>1, <1>2, InitSave, PTL DEF Spec

\* Under the same condition CURRENT always names a generation that is there and that
\* no power loss and no prune takes.
THEOREM PointerResolves == ASSUME CreatesAlone PROVE Spec => []SelectedResolves
  <1>1. SaveInv => SelectedResolves
    BY DEF SaveInv
  <1>2. SaveInv /\ [Next]_vars => SaveInv'
    BY NextSave
  <1>3. QED
    BY <1>1, <1>2, InitSave, PTL DEF Spec

-----------------------------------------------------------------------------
(* What readers map.                                                       *)

\* A handle goes from the last sync of a publication to rest in Finish or in
\* CreateEnds only.
LEMMA ReturnFacts ==
    ASSUME TypeOK, Next, NEW h \in Handles,
           handles[h].place = "synced", handles'[h].place = "idle"
    PROVE  Finish(h) \/ CreateEnds(h)
  <1>1. ASSUME NEW k \in Handles, NEW r, Becomes(k, r)
        PROVE  k = h
    <2>1. k # h => handles'[h] = handles[h]
      BY <1>1 DEF TypeOK, Becomes
    <2> QED
      BY <2>1
  <1>2. ASSUME NEW k \in Handles, Resolve(k) PROVE FALSE
    <2>1. \E r : Becomes(k, r)
      BY <1>2, Zenon DEF Resolve
    <2>2. handles[k].place # "synced"
      BY <1>2, Zenon DEF Resolve
    <2> QED
      BY <1>1, <2>1, <2>2
  <1>3. ASSUME NEW k \in Handles, Open(k) PROVE FALSE
    <2>1. \E r : Becomes(k, r)
      BY <1>3, Zenon DEF Open
    <2>2. handles[k].place # "synced"
      BY <1>3, Zenon DEF Open
    <2> QED
      BY <1>1, <2>1, <2>2
  <1>4. ASSUME NEW k \in Handles, Drop(k) PROVE FALSE
    <2>1. \E r : Becomes(k, r)
      BY <1>4, Zenon DEF Drop
    <2>2. handles[k].place # "synced"
      BY <1>4, Zenon DEF Drop
    <2> QED
      BY <1>1, <2>1, <2>2
  <1>5. ASSUME NEW k \in Handles, Mutate(k) PROVE FALSE
    <2>1. \E r : Becomes(k, r)
      BY <1>5, Zenon DEF Mutate
    <2>2. handles[k].place # "synced"
      BY <1>5, Zenon DEF Mutate
    <2> QED
      BY <1>1, <2>1, <2>2
  <1>6. ASSUME NEW k \in Handles, SaveLease(k) PROVE FALSE
    <2>1. \E r : Becomes(k, r)
      BY <1>6, Zenon DEF SaveLease
    <2>2. handles[k].place # "synced"
      BY <1>6, Zenon DEF SaveLease
    <2> QED
      BY <1>1, <2>1, <2>2
  <1>7. ASSUME NEW k \in Handles, SavePermit(k) PROVE FALSE
    <2>1. \E r : Becomes(k, r)
      BY <1>7, Zenon DEF SavePermit
    <2>2. handles[k].place # "synced"
      BY <1>7, Zenon DEF SavePermit
    <2> QED
      BY <1>1, <2>1, <2>2
  <1>8. ASSUME NEW k \in Handles, EndLease(k) PROVE FALSE
    <2>1. \E r : Becomes(k, r)
      BY <1>8, Zenon DEF EndLease
    <2>2. handles[k].place # "synced"
      BY <1>8, Zenon DEF EndLease
    <2> QED
      BY <1>1, <2>1, <2>2
  <1>9. ASSUME NEW k \in Handles, Create(k) PROVE FALSE
    <2>1. \E r : Becomes(k, r)
      BY <1>9, Zenon DEF Create
    <2>2. handles[k].place # "synced"
      BY <1>9, Zenon DEF Create
    <2> QED
      BY <1>1, <2>1, <2>2
  <1>10. ASSUME NEW k \in Handles, SaveBegin(k) PROVE FALSE
    <2>1. \E r : Becomes(k, r)
      BY <1>10, Zenon DEF SaveBegin, Begin, Fails
    <2>2. handles[k].place # "synced"
      BY <1>10, Zenon DEF SaveBegin
    <2> QED
      BY <1>1, <2>1, <2>2
  <1>11. ASSUME NEW k \in Handles, CreateBegin(k) PROVE FALSE
    <2>1. \E r : Becomes(k, r)
      BY <1>11, Zenon DEF CreateBegin, Begin, Fails
    <2>2. handles[k].place # "synced"
      BY <1>11, Zenon DEF CreateBegin
    <2> QED
      BY <1>1, <2>1, <2>2
  <1>12. ASSUME NEW k \in Handles, Rename(k) PROVE FALSE
    <2>1. \E r : Becomes(k, r)
      BY <1>12, Zenon DEF Rename, Fails
    <2>2. handles[k].place # "synced"
      BY <1>12, Zenon DEF Rename
    <2> QED
      BY <1>1, <2>1, <2>2
  <1>13. ASSUME NEW k \in Handles, SyncList(k) PROVE FALSE
    <2>1. \E r : Becomes(k, r)
      BY <1>13, Zenon DEF SyncList, Fails
    <2>2. handles[k].place # "synced"
      BY <1>13, Zenon DEF SyncList
    <2> QED
      BY <1>1, <2>1, <2>2
  <1>14. ASSUME NEW k \in Handles, Select(k) PROVE FALSE
    <2>1. \E r : Becomes(k, r)
      BY <1>14, Zenon DEF Select, Fails
    <2>2. handles[k].place # "synced"
      BY <1>14, Zenon DEF Select
    <2> QED
      BY <1>1, <2>1, <2>2
  <1>15. ASSUME NEW k \in Handles, SyncRoot(k) PROVE FALSE
    <2>1. \E r : Becomes(k, r)
      BY <1>15, Zenon DEF SyncRoot, Fails
    <2>2. handles[k].place # "synced"
      BY <1>15, Zenon DEF SyncRoot
    <2> QED
      BY <1>1, <2>1, <2>2
  <1>16. ASSUME NEW k \in Handles, End(k) PROVE FALSE
    <2>1. k # h
      BY <1>16 DEF End
    <2>2. handles'[h] \in {handles[h], [handles[h] EXCEPT !.revoked = TRUE]}
      BY <1>16, <2>1, Zenon DEF End
    <2>3. handles[h] \in Handle
      BY DEF TypeOK
    <2> QED
      BY <2>2, <2>3 DEF Handle
  <1>17. ASSUME NEW k \in Handles, Finish(k) \/ CreateEnds(k) PROVE k = h
    <2>1. \E r : Becomes(k, r)
      BY <1>17, Zenon DEF Finish, CreateEnds
    <2> QED
      BY <1>1, <2>1
  <1>18. ASSUME NEW k \in Handles, NEW fork \in Handles, Fork(k, fork) PROVE FALSE
    <2>1. handles[fork].place = "none" /\ Becomes(fork, handles[k])
      BY <1>18, Zenon DEF Fork
    <2> QED
      BY <1>1, <2>1
  <1>19. Absent.place = "none"
    BY DEF Absent
  <1>20. ASSUME NEW P \in Processes, Crash(P) PROVE FALSE
    <2>1. handles'[h] \in {handles[h], Absent}
      BY <1>20, Zenon DEF Crash
    <2> QED
      BY <1>19, <2>1
  <1>21. ~PowerLoss
    <2>1. ASSUME PowerLoss PROVE handles'[h] = Absent
      BY <2>1, Zenon DEF PowerLoss
    <2> QED
      BY <1>19, <2>1
  <1> QED
    BY <1>2, <1>3, <1>4, <1>5, <1>6, <1>7, <1>8, <1>9, <1>10, <1>11, <1>12, <1>13, <1>14, <1>15, <1>16, <1>17, <1>18, <1>20, <1>21,
       Zenon DEF Next, Saves

\* The prune of a finished save, by whichever handle of a process, with however
\* many readers and whatever the window, deletes no generation that another live
\* handle of that process maps (prune_generations and its pins).
THEOREM ReadersAreSpared == Spec => ReadersKeepFiles
  <1>1. TypeOK /\ [Next]_vars =>
          [\A h, k \in Handles :
             /\ handles[h].place = "synced" /\ handles'[h].place = "idle"
             /\ k # h /\ handles[k].place \in Live /\ handles[k].maps \in Ids
             /\ \E P \in Processes : {h, k} \subseteq P
             => handles[k].maps \in DOMAIN gens']_vars
    <2> SUFFICES ASSUME TypeOK, Next, NEW h \in Handles, NEW k \in Handles,
                        handles[h].place = "synced", handles'[h].place = "idle",
                        k # h, handles[k].place \in Live, handles[k].maps \in Ids,
                        \E P \in Processes : {h, k} \subseteq P
                 PROVE  handles[k].maps \in DOMAIN gens'
      OBVIOUS
    <2>1. handles[k].maps \in Pinned(h)
      BY DEF Pinned
    <2>2. CASE Finish(h)
      BY <2>1, <2>2 DEF Finish, Ids
    <2>3. CASE CreateEnds(h)
      BY <2>3 DEF CreateEnds, disk, Ids
    <2> QED
      BY <2>2, <2>3, ReturnFacts
  <1> QED
    BY <1>1, DiskTypeCorrect, PTL DEF Spec, ReadersKeepFiles
=============================================================================
