------------------------- MODULE SemanticCache_proofs -------------------------
(***************************************************************************)
(* Proofs about the semantic cache: the admission of its misses            *)
(* (MissAdmission) for any requests, keys, slots, queue sizes and          *)
(* priorities, and its entries, versions and articles (KnowledgeCache) for *)
(* any number of requests, questions, entries and mishaps.                 *)
(***************************************************************************)
EXTENDS MissAdmission, KnowledgeCache, FiniteSetTheorems, TLAPS

-----------------------------------------------------------------------------
(* The coalescer and the scheduler: the inductive invariant *)

\* The leases a slot is in use for: granted and not published yet, or recorded as held.
Using == {l \in Requests : admitted[l] = "granted" /\ (req[l].pc = "await" \/ holds[l] = "TRUE")}

SlotsAreCounted == IsFiniteSet(Using) /\ active = Cardinality(Using)

\* A slot is recorded as held only for an owner that was granted one and told so.
HeldWasGranted ==
    \A l \in Requests : holds[l] = "TRUE" => admitted[l] = "granted" /\ req[l].pc \in {"running", "done"}

\* Those queued wait for an answer of acquire, and those that wait are queued.
QueueIsWaiters ==
    /\ \A l \in queue : req[l].pc = "await" /\ admitted[l] \in {"queued", "denied"}
    /\ \A l \in Requests : Live(l) => l \in queue

SlotInv == SlotsAreCounted /\ HeldWasGranted /\ QueueIsWaiters /\ NoIdleSlotWhileQueued

\* An owner's lease bears its name.
OwnersHaveLeases ==
    \A r \in Requests : req[r].pc \in {"register", "acquire", "await", "running"} => req[r].lease = r

\* What the maps hold is a lease of that key, begun, and not cleaned up.
MapsHoldLeases ==
    /\ \A k \in Keys : byKey[k] # None =>
          LET l == byKey[k] IN
          Key[l] = k /\ req[l].lease = l /\ req[l].pc # "new" /\ l \notin cleaned
    /\ \A l \in byLease : Registered(l) /\ l \notin cleaned
    /\ \A l \in cleaned : Registered(l)

LeaseInv == OwnersHaveLeases /\ MapsHoldLeases /\ OneOwnerPerKey

\* The request owns a lease, begun.
Begun(l) == req[l].lease = l /\ req[l].pc \notin {"new", "waiting"}

\* Those parked wait on a lease begun, never on their own, and it has a future.
ParkedOnOwners ==
    \A r \in Requests :
        /\ req[r].pc = "waiting" => \E l \in Requests : req[r].lease = l /\ Begun(l)
        /\ req[r].lease = r => Begun(r)
        /\ Begun(r) => future[r] # "none"

\* An owner that awaits the scheduler has asked it.
OwnersHaveAsked == \A r \in Requests : req[r].pc = "await" => admitted[r] # "none"

ParkInv == ParkedOnOwners /\ OwnersHaveAsked

AdmissionInv == TypeOK /\ SlotInv /\ LeaseInv /\ ParkInv

-----------------------------------------------------------------------------
(* Steps of a request *)

\* What begin writes of the request.
LEMMA BeginEffect ==
    ASSUME TypeOK, NEW r \in Requests, Begin(r)
    PROVE  /\ req' \in [Requests -> Lookup]
           /\ \A q \in Requests \ {r} : req'[q] = req[q]
           /\ req[r].pc = "new"
           /\ \/ /\ byKey[Key[r]] = None
                 /\ byKey' = [byKey EXCEPT ![Key[r]] = r]
                 /\ future' = [future EXCEPT ![r] = "open"]
                 /\ req'[r].pc = "register" /\ req'[r].lease = r
              \/ /\ byKey[Key[r]] # None
                 /\ req'[r].pc = "waiting" /\ req'[r].lease = byKey[Key[r]]
                 /\ UNCHANGED <<byKey, future>>
  <1>1. /\ req \in [Requests -> Lookup] /\ byKey \in [Keys -> Requests \cup {None}]
        /\ Key[r] \in Keys
    BY AdmissionAssumption DEF TypeOK
  <1>2. ASSUME NEW step \in {"register", "waiting"}, NEW l \in Requests \cup {None},
               req' = [req EXCEPT ![r].pc = step, ![r].lease = l]
        PROVE  /\ req' \in [Requests -> Lookup]
               /\ \A q \in Requests \ {r} : req'[q] = req[q]
               /\ req'[r].pc = step /\ req'[r].lease = l
    <2> DEFINE x == [req[r] EXCEPT !.pc = step, !.lease = l]
    <2>1. x \in Lookup /\ x.pc = step /\ x.lease = l
      BY <1>1 DEF Lookup
    <2>2. req' = [req EXCEPT ![r] = x]
      BY <1>1, <1>2
    <2> HIDE DEF x
    <2>3. QED
      BY <1>1, <2>1, <2>2
  <1>3. CASE /\ byKey[Key[r]] = None
             /\ byKey' = [byKey EXCEPT ![Key[r]] = r]
             /\ future' = [future EXCEPT ![r] = "open"]
             /\ req' = [req EXCEPT ![r].pc = "register", ![r].lease = r]
    BY <1>2, <1>3 DEF Begin
  <1>4. CASE /\ byKey[Key[r]] # None
             /\ req' = [req EXCEPT ![r].pc = "waiting", ![r].lease = byKey[Key[r]]]
             /\ UNCHANGED <<byKey, future>>
    <2>1. byKey[Key[r]] \in Requests \cup {None}
      BY <1>1
    <2>2. /\ req' \in [Requests -> Lookup]
          /\ \A q \in Requests \ {r} : req'[q] = req[q]
          /\ req'[r].pc = "waiting" /\ req'[r].lease = byKey[Key[r]]
      BY <1>2, <1>4, <2>1
    <2>3. QED
      BY <1>4, <2>2 DEF Begin
  <1>5. QED
    BY <1>3, <1>4 DEF Begin

\* A lookup's step after begin: where it goes from where, its lease kept.
Goes(r, from, to) ==
    /\ req[r].pc \in from /\ req'[r].pc = to /\ req'[r].lease = req[r].lease
    /\ \A q \in Requests \ {r} : req'[q] = req[q]

\* Register, acquire, publish, finish and served each move one lookup on and keep its lease.
LEMMA GoesOn ==
    ASSUME TypeOK, NEW r \in Requests
    PROVE  /\ Register(r) => req' \in [Requests -> Lookup] /\ Goes(r, {"register"}, "acquire")
           /\ Acquire(r) => req' \in [Requests -> Lookup] /\ Goes(r, {"acquire"}, "await")
           /\ Publish(r) => req' \in [Requests -> Lookup] /\ Goes(r, {"await"}, "running")
           /\ OwnerFinishes(r) => req' \in [Requests -> Lookup] /\ Goes(r, {"running"}, "done")
           /\ Served(r) => req' \in [Requests -> Lookup] /\ Goes(r, {"waiting"}, "done")
  <1>1. req \in [Requests -> Lookup]
    BY DEF TypeOK
  <1>2. ASSUME NEW step \in {"acquire", "await", "running", "done"},
               req' = [req EXCEPT ![r].pc = step]
        PROVE  /\ req' \in [Requests -> Lookup] /\ req'[r].pc = step /\ req'[r].lease = req[r].lease
               /\ \A q \in Requests \ {r} : req'[q] = req[q]
    <2> DEFINE x == [req[r] EXCEPT !.pc = step]
    <2>1. x \in Lookup /\ x.pc = step /\ x.lease = req[r].lease
      BY <1>1 DEF Lookup
    <2>2. req' = [req EXCEPT ![r] = x]
      BY <1>1, <1>2
    <2> HIDE DEF x
    <2>3. QED
      BY <1>1, <2>1, <2>2
  <1>3. ASSUME Register(r)
        PROVE  req' \in [Requests -> Lookup] /\ Goes(r, {"register"}, "acquire")
    BY <1>2, <1>3 DEF Register, Goes
  <1>4. ASSUME Acquire(r)
        PROVE  req' \in [Requests -> Lookup] /\ Goes(r, {"acquire"}, "await")
    BY <1>2, <1>4 DEF Acquire, Goes
  <1>5. ASSUME Publish(r)
        PROVE  req' \in [Requests -> Lookup] /\ Goes(r, {"await"}, "running")
    BY <1>2, <1>5 DEF Publish, Decided, Goes
  <1>6. ASSUME OwnerFinishes(r)
        PROVE  req' \in [Requests -> Lookup] /\ Goes(r, {"running"}, "done")
    BY <1>2, <1>6 DEF OwnerFinishes, Goes
  <1>7. ASSUME Served(r)
        PROVE  req' \in [Requests -> Lookup] /\ Goes(r, {"waiting"}, "done")
    BY <1>2, <1>7 DEF Served, Answered, Goes
  <1>8. QED
    BY <1>3, <1>4, <1>5, <1>6, <1>7

-----------------------------------------------------------------------------
(* Type correctness *)

\* What the scheduler's lock covers: nothing else takes slots or waiters.
LEMMA DispatchType ==
    ASSUME TypeOK, NEW used \in 0..(MaxConcurrent - 1), Dispatch(used)
    PROVE  /\ active' \in 0..MaxConcurrent
           /\ admitted' \in [Requests -> {"none", "queued", "granted", "denied"}]
           /\ queue' \subseteq queue /\ IsFiniteSet(queue') /\ Cardinality(queue') <= MaxQueue
  <1>1. /\ queue \subseteq Requests /\ IsFiniteSet(queue) /\ Cardinality(queue) <= MaxQueue
        /\ admitted \in [Requests -> {"none", "queued", "granted", "denied"}]
    BY DEF TypeOK
  <1>2. /\ queue' \subseteq queue
        /\ active' \in {used, used + 1}
        /\ admitted' \in [Requests -> {"none", "queued", "granted", "denied"}]
    BY <1>1 DEF Dispatch
  <1>3. IsFiniteSet(queue') /\ Cardinality(queue') <= Cardinality(queue)
    BY <1>1, <1>2, FS_Subset
  <1>4. Cardinality(queue') \in Nat /\ Cardinality(queue) \in Nat /\ MaxQueue \in Nat
    BY <1>1, <1>3, FS_CardinalityType, AdmissionAssumption
  <1>5. active' \in 0..MaxConcurrent
    BY <1>2, AdmissionAssumption
  <1>6. QED
    BY <1>1, <1>2, <1>3, <1>4, <1>5

\* Every action keeps the types, the slots within MaxConcurrent and the queue within MaxQueue.
LEMMA TypeNext == TypeOK /\ [Next]_vars => TypeOK'
  <1> SUFFICES ASSUME TypeOK, [Next]_vars PROVE TypeOK'
    OBVIOUS
  <1> USE AdmissionAssumption DEF coalescer, scheduler, slots, clear
  <1>1. ASSUME NEW r \in Requests, Begin(r) PROVE TypeOK'
    <2>1. /\ req' \in [Requests -> Lookup]
          /\ byKey' \in [Keys -> Requests \cup {None}]
          /\ future' \in [Requests -> {"none", "open", "over"}]
      BY <1>1, BeginEffect DEF TypeOK
    <2>2. QED
      BY <1>1, <2>1 DEF Begin, TypeOK
  <1>2. ASSUME NEW r \in Requests, Register(r) PROVE TypeOK'
    <2>1. req' \in [Requests -> Lookup]
      BY <1>2, GoesOn
    <2>2. QED
      BY <1>2, <2>1 DEF Register, TypeOK
  <1>3. ASSUME NEW r \in Requests, OwnerFinishes(r) PROVE TypeOK'
    <2>1. req' \in [Requests -> Lookup]
      BY <1>3, GoesOn
    <2>2. future' \in [Requests -> {"none", "open", "over"}]
      BY <1>3 DEF OwnerFinishes, TypeOK
    <2>3. QED
      BY <1>3, <2>1, <2>2 DEF OwnerFinishes, TypeOK
  <1>4. ASSUME NEW l \in Requests, LeaseTimeout(l) PROVE TypeOK'
    BY <1>4 DEF LeaseTimeout, TypeOK
  <1>5. ASSUME NEW l \in Requests, Cleanup(l) PROVE TypeOK'
    <2>1. byKey' \in [Keys -> Requests \cup {None}] /\ byLease' \subseteq Requests
      BY <1>5 DEF Cleanup, RemoveOwner, ForgetsLease, TypeOK
    <2>2. QED
      BY <1>5, <2>1 DEF Cleanup, TypeOK
  <1>6. ASSUME NEW r \in Requests, Served(r) PROVE TypeOK'
    <2>1. req' \in [Requests -> Lookup]
      BY <1>6, GoesOn
    <2>2. QED
      BY <1>6, <2>1 DEF Served, TypeOK
  <1>7. CASE ClearFutures
    <2>1. clears' \in 0..MaxClears
      BY <1>7 DEF ClearFutures, TypeOK
    <2>2. QED
      BY <1>7, <2>1 DEF ClearFutures, TypeOK
  <1>8. CASE ClearMaps
    BY <1>8 DEF ClearMaps, TypeOK
  <1>9. ASSUME NEW r \in Requests, Acquire(r) PROVE TypeOK'
    <2>1. req' \in [Requests -> Lookup]
      BY <1>9, GoesOn
    <2>2. admitted' \in [Requests -> {"none", "queued", "granted", "denied"}]
      BY <1>9 DEF Acquire, TypeOK
    <2>3. active' \in 0..MaxConcurrent
      BY <1>9 DEF Acquire, TypeOK
    <2>4. enqueuedAt' \in [Requests -> Nat]
      <3>1. \A instant \in Instants : instant \in Nat
        BY DEF Instants, TypeOK
      <3>2. QED
        BY <1>9, <3>1 DEF Acquire, TypeOK
    <2>5. queue' \subseteq Requests /\ IsFiniteSet(queue') /\ Cardinality(queue') <= MaxQueue
      <3>1. queue \subseteq Requests /\ IsFiniteSet(queue) /\ Cardinality(queue) <= MaxQueue
        BY DEF TypeOK
      <3>2. CASE queue' = queue
        BY <3>1, <3>2
      <3>3. CASE queue' = queue \cup {r} /\ ~QueueFull
        <4>1. Cardinality(queue) \in Nat
          BY <3>1, FS_CardinalityType
        <4>2. /\ IsFiniteSet(queue \cup {r})
              /\ Cardinality(queue \cup {r}) \in {Cardinality(queue), Cardinality(queue) + 1}
          BY <3>1, <4>1, FS_AddElement
        <4>3. QED
          BY <3>1, <3>3, <4>1, <4>2 DEF QueueFull
      <3>4. QED
        BY <1>9, <3>2, <3>3 DEF Acquire
    <2>6. QED
      BY <1>9, <2>1, <2>2, <2>3, <2>4, <2>5 DEF Acquire, TypeOK
  <1>10. ASSUME NEW l \in Requests, WaiterTimeout(l) PROVE TypeOK'
    BY <1>10 DEF WaiterTimeout, TypeOK
  <1>11. CASE AgeWaiters
    <2>1. priority' \in [Requests -> 0..MaxPriority]
      BY <1>11 DEF AgeWaiters, TypeOK
    <2>2. QED
      BY <1>11, <2>1 DEF AgeWaiters, TypeOK
  <1>12. ASSUME NEW r \in Requests, Publish(r) PROVE TypeOK'
    <2>1. req' \in [Requests -> Lookup]
      BY <1>12, GoesOn
    <2>2. holds' \in [Requests -> {"absent", "TRUE", "FALSE"}]
      BY <1>12 DEF Publish, TypeOK
    <2>3. queue' \subseteq queue /\ queue \subseteq Requests
      BY <1>12 DEF Publish, TypeOK
    <2>4. IsFiniteSet(queue') /\ Cardinality(queue') <= MaxQueue
      <3>1. IsFiniteSet(queue) /\ Cardinality(queue) <= MaxQueue
        BY DEF TypeOK
      <3>2. IsFiniteSet(queue') /\ Cardinality(queue') <= Cardinality(queue)
        BY <2>3, <3>1, FS_Subset
      <3>3. Cardinality(queue') \in Nat /\ Cardinality(queue) \in Nat
        BY <3>1, <3>2, FS_CardinalityType
      <3>4. QED
        BY <3>1, <3>2, <3>3
    <2>5. QED
      BY <1>12, <2>1, <2>2, <2>3, <2>4 DEF Publish, TypeOK
  <1>13. ASSUME NEW l \in Requests, ReleaseSlot(l) PROVE TypeOK'
    <2>1. holds' \in [Requests -> {"absent", "TRUE", "FALSE"}] /\ released' \subseteq Requests
      BY <1>13 DEF ReleaseSlot, TypeOK
    <2>2. CASE Dispatch(IF active > 0 THEN active - 1 ELSE 0)
      <3>1. (IF active > 0 THEN active - 1 ELSE 0) \in 0..(MaxConcurrent - 1)
        BY DEF TypeOK
      <3>2. /\ active' \in 0..MaxConcurrent
            /\ admitted' \in [Requests -> {"none", "queued", "granted", "denied"}]
            /\ queue' \subseteq queue /\ IsFiniteSet(queue') /\ Cardinality(queue') <= MaxQueue
        BY <2>2, <3>1, DispatchType
      <3>3. QED
        BY <1>13, <2>1, <3>2 DEF ReleaseSlot, TypeOK
    <2>3. CASE UNCHANGED <<admitted, active, queue>>
      BY <1>13, <2>1, <2>3 DEF ReleaseSlot, TypeOK
    <2>4. QED
      BY <1>13, <2>2, <2>3 DEF ReleaseSlot
  <1>14. CASE UNCHANGED vars
    BY <1>14 DEF vars, TypeOK
  <1>15. QED
    BY <1>1, <1>2, <1>3, <1>4, <1>5, <1>6, <1>7, <1>8, <1>9, <1>10, <1>11, <1>12, <1>13, <1>14
       DEF Next, LeaseStep, Timers, Callbacks

-----------------------------------------------------------------------------
(* Leases *)

\* A request that goes on keeps its lease, and what is registered stays so.
Onward ==
    \A r \in Requests :
        /\ req'[r].lease = req[r].lease
        /\ req[r].pc # "new" => req'[r].pc # "new"
        /\ Registered(r) => Registered(r)'
        /\ req'[r].pc \in {"register", "acquire", "await", "running"}
              => req[r].pc \in {"register", "acquire", "await", "running"}

\* A step of one lookup after begin moves the requests on.
LEMMA OnwardSteps ==
    ASSUME NEW r \in Requests,
           \/ Goes(r, {"register"}, "acquire") \/ Goes(r, {"acquire"}, "await")
           \/ Goes(r, {"await"}, "running") \/ Goes(r, {"running"}, "done")
           \/ Goes(r, {"waiting"}, "done")
    PROVE  Onward
  BY DEF Onward, Goes, Registered

\* So does a step that leaves the requests alone.
LEMMA OnwardStays == UNCHANGED req => Onward
  BY DEF Onward, Registered

\* Leases are as before when the coalescer's state is and the requests go on.
LEMMA LeaseFrame ==
    ASSUME TypeOK, LeaseInv, Onward, UNCHANGED <<byKey, byLease, cleaned, dropped>>,
           \A l \in Requests : future'[l] = "open" => future[l] = "open"
    PROVE  LeaseInv'
  <1>1. OwnersHaveLeases'
    BY DEF LeaseInv, OwnersHaveLeases, Onward
  <1>2. MapsHoldLeases'
    <2>1. \A l \in byLease \cup cleaned : l \in Requests
      BY DEF TypeOK
    <2>2. \A k \in Keys : byKey[k] # None => byKey[k] \in Requests
      BY DEF TypeOK
    <2>3. QED
      BY <2>1, <2>2 DEF LeaseInv, MapsHoldLeases, Onward
  <1>3. OneOwnerPerKey'
    BY DEF LeaseInv, OneOwnerPerKey
  <1>4. QED
    BY <1>1, <1>2, <1>3 DEF LeaseInv

\* Every action keeps one owner per key, and the maps to the leases in flight.
LEMMA LeaseNext == TypeOK /\ LeaseInv /\ [Next]_vars => LeaseInv'
  <1> SUFFICES ASSUME TypeOK, LeaseInv, [Next]_vars PROVE LeaseInv'
    OBVIOUS
  <1> USE DEF coalescer, scheduler, slots, clear
  <1>0. /\ OwnersHaveLeases /\ MapsHoldLeases /\ OneOwnerPerKey
        /\ byKey \in [Keys -> Requests \cup {None}]
        /\ future \in [Requests -> {"none", "open", "over"}]
        /\ byLease \subseteq Requests /\ cleaned \subseteq Requests
        /\ Key \in [Requests -> Keys] /\ None \notin Requests
    BY AdmissionAssumption DEF LeaseInv, TypeOK
  <1>1. ASSUME NEW r \in Requests, Begin(r) PROVE LeaseInv'
    <2>1. /\ req' \in [Requests -> Lookup]
          /\ \A q \in Requests \ {r} : req'[q] = req[q]
          /\ req[r].pc = "new"
          /\ UNCHANGED <<byLease, cleaned, dropped>>
      BY <1>1, BeginEffect DEF Begin
    <2>2. r \notin byLease /\ r \notin cleaned
      BY <1>0, <2>1 DEF MapsHoldLeases, Registered
    <2>3. \A l \in Requests \ {r} : Registered(l) => Registered(l)'
      BY <2>1 DEF Registered
    <2>4. CASE /\ byKey[Key[r]] = None
               /\ byKey' = [byKey EXCEPT ![Key[r]] = r]
               /\ future' = [future EXCEPT ![r] = "open"]
               /\ req'[r].pc = "register" /\ req'[r].lease = r
      <3>1. OwnersHaveLeases'
        BY <1>0, <2>1, <2>4 DEF OwnersHaveLeases
      <3>2. MapsHoldLeases'
        <4>1. \A k \in Keys \ {Key[r]} : byKey'[k] = byKey[k] /\ byKey[k] # r
          BY <1>0, <2>1, <2>4 DEF MapsHoldLeases
        <4>2. byKey'[Key[r]] = r
          BY <1>0, <2>4
        <4>3. \A k \in Keys : byKey'[k] # None =>
                LET l == byKey'[k] IN
                Key[l] = k /\ req'[l].lease = l /\ req'[l].pc # "new" /\ l \notin cleaned
          <5> SUFFICES ASSUME NEW k \in Keys, byKey'[k] # None
                       PROVE  /\ Key[byKey'[k]] = k /\ req'[byKey'[k]].lease = byKey'[k]
                              /\ req'[byKey'[k]].pc # "new" /\ byKey'[k] \notin cleaned
            OBVIOUS
          <5>1. CASE k = Key[r]
            BY <2>2, <2>4, <4>2, <5>1
          <5>2. CASE k # Key[r]
            <6>1. byKey'[k] = byKey[k] /\ byKey[k] \in Requests \ {r}
              BY <1>0, <4>1, <5>2
            <6>2. QED
              BY <1>0, <2>1, <6>1 DEF MapsHoldLeases
          <5>3. QED
            BY <5>1, <5>2
        <4>4. QED
          BY <1>0, <2>1, <2>2, <2>3, <4>3 DEF MapsHoldLeases
      <3>3. OneOwnerPerKey'
        BY <1>0, <2>1, <2>4 DEF OneOwnerPerKey
      <3>4. QED
        BY <3>1, <3>2, <3>3 DEF LeaseInv
    <2>5. CASE /\ req'[r].pc = "waiting"
               /\ UNCHANGED <<byKey, future>>
      <3>1. OwnersHaveLeases'
        BY <1>0, <2>1, <2>5 DEF OwnersHaveLeases
      <3>2. \A k \in Keys : byKey[k] # None => byKey[k] \in Requests \ {r}
        BY <1>0, <2>1 DEF MapsHoldLeases
      <3>3. MapsHoldLeases'
        BY <1>0, <2>1, <2>2, <2>3, <2>5, <3>2 DEF MapsHoldLeases
      <3>4. OneOwnerPerKey'
        BY <1>0, <2>1, <2>5 DEF OneOwnerPerKey
      <3>5. QED
        BY <3>1, <3>3, <3>4 DEF LeaseInv
    <2>6. QED
      BY <1>1, <2>4, <2>5, BeginEffect
  <1>2. ASSUME NEW r \in Requests, Register(r) PROVE LeaseInv'
    <2>1. /\ Goes(r, {"register"}, "acquire") /\ byLease' = byLease \cup {r}
          /\ UNCHANGED <<byKey, future, cleaned, dropped>>
      BY <1>2, GoesOn DEF Register
    <2>2. Onward
      BY <2>1, OnwardSteps
    <2>3. req[r].lease = r /\ r \notin cleaned /\ Registered(r)'
      BY <1>0, <2>1 DEF OwnersHaveLeases, MapsHoldLeases, Registered, Goes
    <2>4. \A k \in Keys : byKey[k] # None => byKey[k] \in Requests
      BY <1>0
    <2>5. OwnersHaveLeases'
      BY <1>0, <2>2 DEF OwnersHaveLeases, Onward
    <2>6. MapsHoldLeases'
      BY <1>0, <2>1, <2>2, <2>3, <2>4 DEF MapsHoldLeases, Onward
    <2>7. OneOwnerPerKey'
      BY <1>0, <2>1 DEF OneOwnerPerKey
    <2>8. QED
      BY <2>5, <2>6, <2>7 DEF LeaseInv
  <1>3. ASSUME NEW r \in Requests, OwnerFinishes(r) PROVE LeaseInv'
    <2>1. Onward
      BY <1>3, GoesOn, OnwardSteps
    <2>2. QED
      BY <1>0, <1>3, <2>1, LeaseFrame DEF OwnerFinishes
  <1>4. ASSUME NEW l \in Requests, LeaseTimeout(l) PROVE LeaseInv'
    BY <1>0, <1>4, OnwardStays, LeaseFrame DEF LeaseTimeout, LeaseRuns, OpenFuture
  <1>5. ASSUME NEW l \in Requests, Cleanup(l) PROVE LeaseInv'
    <2>1. /\ Registered(l) /\ future[l] = "over" /\ UNCHANGED <<req, future, dropped>>
          /\ byKey' = [byKey EXCEPT ![Key[l]] = IF @ = l THEN None ELSE @]
          /\ byLease' = byLease \ {l} /\ cleaned' = cleaned \cup {l}
      BY <1>5 DEF Cleanup, RemoveOwner, ForgetsLease, Done
    <2>2. \A k \in Keys : byKey'[k] # None => byKey'[k] = byKey[k] /\ byKey[k] # l
      BY <1>0, <2>1 DEF MapsHoldLeases
    <2>3. \A x \in Requests : Registered(x)' <=> Registered(x)
      BY <2>1 DEF Registered
    <2>4. OwnersHaveLeases'
      BY <1>0, <2>1 DEF OwnersHaveLeases
    <2>5. MapsHoldLeases'
      BY <1>0, <2>1, <2>2, <2>3 DEF MapsHoldLeases
    <2>6. OneOwnerPerKey'
      <3> SUFFICES ASSUME NEW x \in Requests, future[x] = "open", x \notin dropped
                   PROVE  byKey'[Key[x]] = x
        BY <2>1 DEF OneOwnerPerKey
      <3>1. byKey[Key[x]] = x /\ x # l /\ Key[x] \in Keys
        BY <1>0, <2>1 DEF OneOwnerPerKey
      <3>2. QED
        BY <1>0, <2>1, <3>1
    <2>7. QED
      BY <2>4, <2>5, <2>6 DEF LeaseInv
  <1>6. ASSUME NEW r \in Requests, Served(r) PROVE LeaseInv'
    <2>1. Onward
      BY <1>6, GoesOn, OnwardSteps
    <2>2. QED
      BY <1>6, <2>1, LeaseFrame DEF Served
  <1>7. CASE ClearFutures
    BY <1>0, <1>7, OnwardStays, LeaseFrame DEF ClearFutures
  <1>8. CASE ClearMaps
    <2>1. /\ byKey' = [k \in Keys |-> None] /\ byLease' = {}
          /\ dropped' = dropped \cup {l \in Requests : (\E k \in Keys : byKey[k] = l) /\ ~Done(l)}
          /\ UNCHANGED <<req, future, cleaned>>
      BY <1>8 DEF ClearMaps
    <2>2. OwnersHaveLeases' /\ MapsHoldLeases'
      BY <1>0, <2>1 DEF OwnersHaveLeases, MapsHoldLeases, Registered
    <2>3. OneOwnerPerKey'
      BY <1>0, <2>1 DEF OneOwnerPerKey, Done
    <2>4. QED
      BY <2>2, <2>3 DEF LeaseInv
  <1>9. ASSUME NEW r \in Requests, Acquire(r) PROVE LeaseInv'
    <2>1. Onward
      BY <1>9, GoesOn, OnwardSteps
    <2>2. QED
      BY <1>9, <2>1, LeaseFrame DEF Acquire
  <1>10. ASSUME NEW l \in Requests, WaiterTimeout(l) PROVE LeaseInv'
    BY <1>10, OnwardStays, LeaseFrame DEF WaiterTimeout
  <1>11. CASE AgeWaiters
    BY <1>11, OnwardStays, LeaseFrame DEF AgeWaiters
  <1>12. ASSUME NEW r \in Requests, Publish(r) PROVE LeaseInv'
    <2>1. Onward
      BY <1>12, GoesOn, OnwardSteps
    <2>2. QED
      BY <1>12, <2>1, LeaseFrame DEF Publish
  <1>13. ASSUME NEW l \in Requests, ReleaseSlot(l) PROVE LeaseInv'
    BY <1>13, OnwardStays, LeaseFrame DEF ReleaseSlot
  <1>14. CASE UNCHANGED vars
    BY <1>14, OnwardStays, LeaseFrame DEF vars
  <1>15. QED
    BY <1>1, <1>2, <1>3, <1>4, <1>5, <1>6, <1>7, <1>8, <1>9, <1>10, <1>11, <1>12, <1>13, <1>14
       DEF Next, LeaseStep, Timers, Callbacks

-----------------------------------------------------------------------------
(* Slots *)

\* The slots are as before when the scheduler's state is, and nobody starts or stops to wait.
LEMMA SlotFrame ==
    ASSUME TypeOK, SlotInv, UNCHANGED <<admitted, active, queue, holds>>,
           \A r \in Requests :
              /\ req'[r].pc = "await" <=> req[r].pc = "await"
              /\ req[r].pc \in {"running", "done"} => req'[r].pc \in {"running", "done"}
    PROVE  SlotInv'
  <1>1. Using' = Using
    BY DEF Using
  <1>2. SlotsAreCounted'
    BY <1>1 DEF SlotInv, SlotsAreCounted
  <1>3. queue \subseteq Requests
    BY DEF TypeOK
  <1>4. HeldWasGranted' /\ QueueIsWaiters' /\ NoIdleSlotWhileQueued'
    BY <1>3 DEF SlotInv, HeldWasGranted, QueueIsWaiters, NoIdleSlotWhileQueued, Live
  <1>5. QED
    BY <1>2, <1>4 DEF SlotInv

\* A slot is given back, and goes to the first live waiter if there is one.
LEMMA GiveBack ==
    ASSUME TypeOK, SlotInv, NEW l \in Requests, holds[l] = "TRUE",
           Dispatch(IF active > 0 THEN active - 1 ELSE 0),
           holds' = [holds EXCEPT ![l] = "absent"], UNCHANGED req
    PROVE  SlotInv'
  <1>0. /\ IsFiniteSet(Using) /\ active = Cardinality(Using)
        /\ HeldWasGranted /\ QueueIsWaiters /\ NoIdleSlotWhileQueued
        /\ holds \in [Requests -> {"absent", "TRUE", "FALSE"}]
        /\ admitted \in [Requests -> {"none", "queued", "granted", "denied"}]
        /\ queue \subseteq Requests
    BY DEF SlotInv, SlotsAreCounted, TypeOK
  <1>1. l \in Using /\ admitted[l] = "granted" /\ req[l].pc # "await"
    BY <1>0 DEF HeldWasGranted, Using
  <1>2. /\ IsFiniteSet(Using \ {l}) /\ Cardinality(Using \ {l}) = active - 1
        /\ active \in Nat /\ active > 0
    <2>1. IsFiniteSet(Using \ {l}) /\ Cardinality(Using \ {l}) = Cardinality(Using) - 1
      BY <1>0, <1>1, FS_RemoveElement
    <2>2. Cardinality(Using) \in Nat /\ Cardinality(Using \ {l}) \in Nat
      BY <1>0, <2>1, FS_CardinalityType
    <2>3. QED
      BY <1>0, <2>1, <2>2
  <1>3. /\ holds'[l] = "absent" /\ \A x \in Requests \ {l} : holds'[x] = holds[x]
    BY <1>0
  <1> DEFINE live == {x \in queue : Live(x)}
  <1>4. CASE live = {} /\ active' = active - 1 /\ queue' = {} /\ UNCHANGED admitted
    <2>1. Using' = Using \ {l}
      BY <1>1, <1>3, <1>4 DEF Using
    <2>2. SlotsAreCounted'
      BY <1>2, <1>4, <2>1 DEF SlotsAreCounted
    <2>3. HeldWasGranted'
      BY <1>0, <1>3, <1>4 DEF HeldWasGranted
    <2>4. QueueIsWaiters' /\ NoIdleSlotWhileQueued'
      BY <1>0, <1>4 DEF QueueIsWaiters, NoIdleSlotWhileQueued, Live
    <2>5. QED
      BY <2>2, <2>3, <2>4 DEF SlotInv
  <1>5. ASSUME NEW next \in live, NEW skipped \in SUBSET (queue \ live),
               active' = active, admitted' = [admitted EXCEPT ![next] = "granted"],
               queue' = queue \ (skipped \cup {next})
        PROVE  SlotInv'
    <2>1. /\ next \in Requests /\ admitted[next] = "queued" /\ req[next].pc = "await" /\ next # l
      BY <1>0, <1>1 DEF Live, QueueIsWaiters
    <2>2. admitted'[next] = "granted" /\ \A x \in Requests \ {next} : admitted'[x] = admitted[x]
      BY <1>0, <1>5
    <2>3. Using' = (Using \ {l}) \cup {next} /\ next \notin Using \ {l}
      BY <1>1, <1>3, <2>1, <2>2 DEF Using
    <2>4. SlotsAreCounted'
      <3>1. /\ IsFiniteSet((Using \ {l}) \cup {next})
            /\ Cardinality((Using \ {l}) \cup {next}) = Cardinality(Using \ {l}) + 1
        BY <1>2, <2>3, FS_AddElement
      <3>2. QED
        BY <1>2, <1>5, <2>3, <3>1 DEF SlotsAreCounted
    <2>5. HeldWasGranted'
      BY <1>0, <1>3, <2>1, <2>2 DEF HeldWasGranted
    <2>6. QueueIsWaiters'
      <3>1. \A x \in queue' : req'[x].pc = "await" /\ admitted'[x] \in {"queued", "denied"}
        BY <1>0, <1>5, <2>2 DEF QueueIsWaiters
      <3>2. \A x \in Requests : Live(x)' => x \in queue'
        <4> SUFFICES ASSUME NEW x \in Requests, admitted'[x] = "queued" PROVE x \in queue'
          BY DEF Live
        <4>1. x # next /\ admitted[x] = "queued"
          BY <2>2
        <4>2. x \in live
          BY <1>0, <4>1 DEF QueueIsWaiters, Live
        <4>3. QED
          BY <1>5, <4>1, <4>2
      <3>3. QED
        BY <3>1, <3>2 DEF QueueIsWaiters
    <2>7. NoIdleSlotWhileQueued'
      <3>1. active = MaxConcurrent
        BY <1>0, <1>5 DEF NoIdleSlotWhileQueued
      <3>2. QED
        BY <1>5, <3>1 DEF NoIdleSlotWhileQueued
    <2>8. QED
      BY <2>4, <2>5, <2>6, <2>7 DEF SlotInv
  <1>6. (IF active > 0 THEN active - 1 ELSE 0) = active - 1 /\ (active - 1) + 1 = active
    BY <1>2
  <1>7. QED
    BY <1>4, <1>5, <1>6 DEF Dispatch

\* Every action keeps the count of slots right, and nobody queued beside a free one.
LEMMA SlotNext == TypeOK /\ SlotInv /\ [Next]_vars => SlotInv'
  <1> SUFFICES ASSUME TypeOK, SlotInv, [Next]_vars PROVE SlotInv'
    OBVIOUS
  <1> USE DEF coalescer, scheduler, slots, clear
  <1>0. /\ IsFiniteSet(Using) /\ active = Cardinality(Using)
        /\ HeldWasGranted /\ QueueIsWaiters /\ NoIdleSlotWhileQueued
        /\ holds \in [Requests -> {"absent", "TRUE", "FALSE"}]
        /\ admitted \in [Requests -> {"none", "queued", "granted", "denied"}]
        /\ queue \subseteq Requests /\ active \in 0..MaxConcurrent
    BY DEF SlotInv, SlotsAreCounted, TypeOK
  <1>1. ASSUME NEW r \in Requests, Begin(r) PROVE SlotInv'
    BY <1>1, BeginEffect, SlotFrame DEF Begin
  <1>2. ASSUME NEW r \in Requests, Register(r) PROVE SlotInv'
    BY <1>2, GoesOn, SlotFrame DEF Register, Goes
  <1>3. ASSUME NEW r \in Requests, OwnerFinishes(r) PROVE SlotInv'
    BY <1>3, GoesOn, SlotFrame DEF OwnerFinishes, Goes
  <1>4. ASSUME NEW l \in Requests, LeaseTimeout(l) PROVE SlotInv'
    BY <1>4, SlotFrame DEF LeaseTimeout
  <1>5. ASSUME NEW l \in Requests, Cleanup(l) PROVE SlotInv'
    BY <1>5, SlotFrame DEF Cleanup
  <1>6. ASSUME NEW r \in Requests, Served(r) PROVE SlotInv'
    BY <1>6, GoesOn, SlotFrame DEF Served, Goes
  <1>7. CASE ClearFutures
    BY <1>7, SlotFrame DEF ClearFutures
  <1>8. CASE ClearMaps
    BY <1>8, SlotFrame DEF ClearMaps
  <1>9. ASSUME NEW r \in Requests, Acquire(r) PROVE SlotInv'
    <2>1. Goes(r, {"acquire"}, "await") /\ UNCHANGED holds
      BY <1>9, GoesOn DEF Acquire
    <2>2. holds[r] # "TRUE" /\ ~Live(r) /\ r \notin queue /\ r \notin Using
      BY <1>0, <2>1 DEF Goes, HeldWasGranted, QueueIsWaiters, Using
    <2>3. \A q \in Requests \ {r} : req'[q] = req[q]
      BY <2>1 DEF Goes
    <2>4. req'[r].pc = "await"
      BY <2>1 DEF Goes
    <2>5. ASSUME NEW verdict \in {"granted", "denied", "queued"},
                 admitted' = [admitted EXCEPT ![r] = verdict]
          PROVE  /\ admitted'[r] = verdict /\ \A q \in Requests \ {r} : admitted'[q] = admitted[q]
                 /\ HeldWasGranted'
                 /\ Using' = IF verdict = "granted" THEN Using \cup {r} ELSE Using
      <3>1. admitted'[r] = verdict /\ \A q \in Requests \ {r} : admitted'[q] = admitted[q]
        BY <1>0, <2>5
      <3>2. HeldWasGranted'
        BY <1>0, <2>1, <2>2, <2>3, <3>1 DEF HeldWasGranted
      <3>3. Using' = IF verdict = "granted" THEN Using \cup {r} ELSE Using
        BY <2>1, <2>2, <2>3, <2>4, <3>1 DEF Using
      <3>4. QED
        BY <3>1, <3>2, <3>3
    <2>6. CASE /\ active < MaxConcurrent /\ active' = active + 1 /\ UNCHANGED queue
               /\ admitted' = [admitted EXCEPT ![r] = "granted"]
      <3>1. /\ admitted'[r] = "granted" /\ \A q \in Requests \ {r} : admitted'[q] = admitted[q]
            /\ HeldWasGranted' /\ Using' = Using \cup {r}
        BY <2>5, <2>6
      <3>2. SlotsAreCounted'
        <4>1. IsFiniteSet(Using \cup {r}) /\ Cardinality(Using \cup {r}) = Cardinality(Using) + 1
          BY <1>0, <2>2, FS_AddElement
        <4>2. QED
          BY <1>0, <2>6, <3>1, <4>1 DEF SlotsAreCounted
      <3>3. \A q \in queue : ~Live(q)
        BY <1>0, <2>6 DEF NoIdleSlotWhileQueued
      <3>4. QueueIsWaiters' /\ NoIdleSlotWhileQueued'
        BY <1>0, <2>2, <2>3, <2>6, <3>1, <3>3 DEF QueueIsWaiters, NoIdleSlotWhileQueued, Live
      <3>5. QED
        BY <3>1, <3>2, <3>4 DEF SlotInv
    <2>7. CASE UNCHANGED <<active, queue>> /\ admitted' = [admitted EXCEPT ![r] = "denied"]
      <3>1. /\ admitted'[r] = "denied" /\ \A q \in Requests \ {r} : admitted'[q] = admitted[q]
            /\ HeldWasGranted' /\ Using' = Using
        BY <2>5, <2>7
      <3>2. SlotsAreCounted'
        BY <1>0, <2>7, <3>1 DEF SlotsAreCounted
      <3>3. QueueIsWaiters' /\ NoIdleSlotWhileQueued'
        BY <1>0, <2>2, <2>3, <2>7, <3>1 DEF QueueIsWaiters, NoIdleSlotWhileQueued, Live
      <3>4. QED
        BY <3>1, <3>2, <3>3 DEF SlotInv
    <2>8. CASE /\ active = MaxConcurrent /\ UNCHANGED active
               /\ admitted' = [admitted EXCEPT ![r] = "queued"] /\ queue' = queue \cup {r}
      <3>1. /\ admitted'[r] = "queued" /\ \A q \in Requests \ {r} : admitted'[q] = admitted[q]
            /\ HeldWasGranted' /\ Using' = Using
        BY <2>5, <2>8
      <3>2. SlotsAreCounted'
        BY <1>0, <2>8, <3>1 DEF SlotsAreCounted
      <3>3. QueueIsWaiters' /\ NoIdleSlotWhileQueued'
        BY <1>0, <2>2, <2>3, <2>4, <2>8, <3>1 DEF QueueIsWaiters, NoIdleSlotWhileQueued, Live
      <3>4. QED
        BY <3>1, <3>2, <3>3 DEF SlotInv
    <2>9. QED
      BY <1>9, <2>6, <2>7, <2>8 DEF Acquire
  <1>10. ASSUME NEW l \in Requests, WaiterTimeout(l) PROVE SlotInv'
    <2>1. /\ admitted[l] = "queued" /\ admitted' = [admitted EXCEPT ![l] = "denied"]
          /\ UNCHANGED <<req, active, queue, holds>>
      BY <1>10 DEF WaiterTimeout, Live
    <2>2. admitted'[l] = "denied" /\ \A q \in Requests \ {l} : admitted'[q] = admitted[q]
      BY <1>0, <2>1
    <2>3. Using' = Using
      BY <2>1, <2>2 DEF Using
    <2>4. SlotsAreCounted' /\ HeldWasGranted'
      BY <1>0, <2>1, <2>2, <2>3 DEF SlotsAreCounted, HeldWasGranted
    <2>5. QueueIsWaiters' /\ NoIdleSlotWhileQueued'
      BY <1>0, <2>1, <2>2 DEF QueueIsWaiters, NoIdleSlotWhileQueued, Live
    <2>6. QED
      BY <2>4, <2>5 DEF SlotInv
  <1>11. CASE AgeWaiters
    BY <1>11, SlotFrame DEF AgeWaiters
  <1>12. ASSUME NEW r \in Requests, Publish(r) PROVE SlotInv'
    <2>1. /\ Goes(r, {"await"}, "running") /\ admitted[r] \in {"granted", "denied"}
          /\ UNCHANGED <<admitted, active>>
          /\ queue' = IF admitted[r] = "denied" THEN queue \ {r} ELSE queue
          /\ holds' = [holds EXCEPT ![r] = IF admitted[r] = "granted" THEN "TRUE" ELSE "FALSE"]
      BY <1>12, GoesOn DEF Publish, Decided
    <2>2. /\ holds'[r] = (IF admitted[r] = "granted" THEN "TRUE" ELSE "FALSE")
          /\ \A q \in Requests \ {r} : holds'[q] = holds[q] /\ req'[q] = req[q]
          /\ req[r].pc = "await" /\ req'[r].pc = "running"
      BY <1>0, <2>1 DEF Goes
    <2>3. Using' = Using
      BY <2>1, <2>2 DEF Using
    <2>4. r \notin queue'
      BY <1>0, <2>1 DEF QueueIsWaiters
    <2>5. SlotsAreCounted' /\ HeldWasGranted'
      BY <1>0, <2>1, <2>2, <2>3 DEF SlotsAreCounted, HeldWasGranted
    <2>6. QueueIsWaiters' /\ NoIdleSlotWhileQueued'
      BY <1>0, <2>1, <2>2, <2>4 DEF QueueIsWaiters, NoIdleSlotWhileQueued, Live
    <2>7. QED
      BY <2>5, <2>6 DEF SlotInv
  <1>13. ASSUME NEW l \in Requests, ReleaseSlot(l) PROVE SlotInv'
    <2>1. holds' = [holds EXCEPT ![l] = "absent"] /\ UNCHANGED req
      BY <1>13 DEF ReleaseSlot
    <2>2. CASE holds[l] = "TRUE" /\ Dispatch(IF active > 0 THEN active - 1 ELSE 0)
      BY <2>1, <2>2, GiveBack
    <2>3. CASE holds[l] # "TRUE" /\ UNCHANGED <<admitted, active, queue>>
      <3>1. \A x \in Requests : holds'[x] = "TRUE" <=> holds[x] = "TRUE"
        BY <1>0, <2>1, <2>3
      <3>2. Using' = Using
        BY <2>1, <2>3, <3>1 DEF Using
      <3>3. SlotsAreCounted' /\ HeldWasGranted'
        BY <1>0, <2>1, <2>3, <3>1, <3>2 DEF SlotsAreCounted, HeldWasGranted
      <3>4. QueueIsWaiters' /\ NoIdleSlotWhileQueued'
        BY <1>0, <2>1, <2>3 DEF QueueIsWaiters, NoIdleSlotWhileQueued, Live
      <3>5. QED
        BY <3>3, <3>4 DEF SlotInv
    <2>4. QED
      BY <1>13, <2>2, <2>3 DEF ReleaseSlot, HeldSlot
  <1>14. CASE UNCHANGED vars
    BY <1>14, SlotFrame DEF vars
  <1>15. QED
    BY <1>1, <1>2, <1>3, <1>4, <1>5, <1>6, <1>7, <1>8, <1>9, <1>10, <1>11, <1>12, <1>13, <1>14
       DEF Next, LeaseStep, Timers, Callbacks

-----------------------------------------------------------------------------
(* Those who wait *)

\* A lookup moves on from new or from its wait, never back, and keeps its lease.
MovesOn ==
    \A r \in Requests :
        /\ req'[r].lease = req[r].lease
        /\ req'[r].pc \in {"new", "waiting"} => req'[r].pc = req[r].pc
        /\ req[r].pc = "new" => req'[r].pc = "new"

\* Who waits on whom stays right when lookups move on, futures stay begun and answers stay.
LEMMA WaitFrame ==
    ASSUME TypeOK, ParkInv, MovesOn,
           \A l \in Requests : future[l] # "none" => future'[l] # "none",
           \A r \in Requests : req'[r].pc = "await" => admitted'[r] # "none"
    PROVE  ParkInv'
  <1>1. ParkedOnOwners
    BY DEF ParkInv
  <1>2. \A l \in Requests : Begun(l) <=> Begun(l)'
    BY <1>1 DEF Begun, MovesOn, ParkedOnOwners
  <1>3. ParkedOnOwners'
    <2> SUFFICES ASSUME NEW r \in Requests
                 PROVE  /\ req'[r].pc = "waiting" => \E l \in Requests : req'[r].lease = l /\ Begun(l)'
                        /\ req'[r].lease = r => Begun(r)'
                        /\ Begun(r)' => future'[r] # "none"
      BY DEF ParkedOnOwners
    <2>1. req'[r].lease = req[r].lease /\ (req'[r].pc = "waiting" => req[r].pc = "waiting")
      BY DEF MovesOn
    <2>2. ASSUME req'[r].pc = "waiting" PROVE \E l \in Requests : req'[r].lease = l /\ Begun(l)'
      BY <1>1, <1>2, <2>1, <2>2 DEF ParkedOnOwners
    <2>3. QED
      BY <1>1, <1>2, <2>1, <2>2 DEF ParkedOnOwners
  <1>4. QED
    BY <1>3 DEF ParkInv, OwnersHaveAsked

\* A step of one lookup after begin is such a move.
LEMMA GoesMovesOn ==
    ASSUME NEW r \in Requests,
           \/ Goes(r, {"register"}, "acquire") \/ Goes(r, {"acquire"}, "await")
           \/ Goes(r, {"await"}, "running") \/ Goes(r, {"running"}, "done")
           \/ Goes(r, {"waiting"}, "done")
    PROVE  MovesOn
  BY DEF MovesOn, Goes

\* Every action keeps those parked on owners in flight, and the owners' questions asked.
LEMMA WaitNext == TypeOK /\ SlotInv /\ LeaseInv /\ ParkInv /\ [Next]_vars => ParkInv'
  <1> SUFFICES ASSUME TypeOK, SlotInv, LeaseInv, ParkInv, [Next]_vars PROVE ParkInv'
    OBVIOUS
  <1> USE DEF coalescer, scheduler, slots, clear
  <1>0. /\ ParkedOnOwners /\ OwnersHaveAsked /\ MapsHoldLeases
        /\ \A r \in Requests : Live(r) => req[r].pc = "await"
        /\ byKey \in [Keys -> Requests \cup {None}]
        /\ future \in [Requests -> {"none", "open", "over"}]
        /\ admitted \in [Requests -> {"none", "queued", "granted", "denied"}]
        /\ req \in [Requests -> Lookup]
        /\ Key \in [Requests -> Keys] /\ None \notin Requests
    BY AdmissionAssumption DEF LeaseInv, ParkInv, SlotInv, QueueIsWaiters, TypeOK
  <1>m. UNCHANGED req => MovesOn
    BY DEF MovesOn
  <1>1. ASSUME NEW r \in Requests, Begin(r) PROVE ParkInv'
    <2>1. /\ req' \in [Requests -> Lookup]
          /\ \A q \in Requests \ {r} : req'[q] = req[q]
          /\ req[r].pc = "new" /\ admitted' = admitted
      BY <1>1, BeginEffect DEF Begin
    <2>2. \A l \in Requests : Begun(l) => l # r /\ Begun(l)'
      BY <2>1 DEF Begun
    <2>3. \A l \in Requests \ {r} : Begun(l)' => Begun(l)
      BY <2>1 DEF Begun
    <2>5. \A q \in Requests \ {r} : req'[q].pc = "waiting"
                                  => \E l \in Requests : req'[q].lease = l /\ Begun(l)'
      BY <1>0, <2>1, <2>2 DEF ParkedOnOwners
    <2>6. \A q \in Requests \ {r} : req'[q].lease = q => Begun(q)'
      BY <1>0, <2>1, <2>2 DEF ParkedOnOwners
    <2>7. CASE /\ future' = [future EXCEPT ![r] = "open"]
               /\ req'[r].pc = "register" /\ req'[r].lease = r
      <3>1. \A l \in Requests \ {r} : Begun(l)' => future'[l] # "none"
        BY <1>0, <2>3, <2>7 DEF ParkedOnOwners
      <3>2. Begun(r)' /\ future'[r] # "none"
        BY <1>0, <2>7 DEF Begun
      <3>3. ParkedOnOwners'
        BY <2>5, <2>6, <2>7, <3>1, <3>2 DEF ParkedOnOwners
      <3>4. OwnersHaveAsked'
        BY <1>0, <2>1, <2>7 DEF OwnersHaveAsked
      <3>5. QED
        BY <3>3, <3>4 DEF ParkInv
    <2>8. CASE /\ byKey[Key[r]] # None
               /\ req'[r].pc = "waiting" /\ req'[r].lease = byKey[Key[r]]
               /\ UNCHANGED <<byKey, future>>
      <3>1. PICK l \in Requests : l = byKey[Key[r]]
        BY <1>0, <2>8
      <3>2. req[l].lease = l
        BY <1>0, <2>8, <3>1 DEF MapsHoldLeases
      <3>3. Begun(l) /\ Begun(l)' /\ l # r
        BY <1>0, <2>2, <3>2 DEF ParkedOnOwners
      <3>4. \A x \in Requests \ {r} : Begun(x)' => future'[x] # "none"
        BY <1>0, <2>3, <2>8 DEF ParkedOnOwners
      <3>5. ~Begun(r)'
        BY <2>8 DEF Begun
      <3>6. ParkedOnOwners'
        BY <2>5, <2>6, <2>8, <3>1, <3>3, <3>4, <3>5 DEF ParkedOnOwners
      <3>7. OwnersHaveAsked'
        BY <1>0, <2>1, <2>8 DEF OwnersHaveAsked
      <3>8. QED
        BY <3>6, <3>7 DEF ParkInv
    <2>9. QED
      BY <1>1, <2>7, <2>8, BeginEffect
  <1>2. ASSUME NEW r \in Requests, Register(r) PROVE ParkInv'
    <2>1. Goes(r, {"register"}, "acquire") /\ UNCHANGED <<future, admitted>>
      BY <1>2, GoesOn DEF Register
    <2>2. \A q \in Requests : req'[q].pc = "await" => admitted'[q] # "none"
      BY <1>0, <2>1 DEF Goes, OwnersHaveAsked
    <2>3. QED
      BY <2>1, <2>2, GoesMovesOn, WaitFrame
  <1>3. ASSUME NEW r \in Requests, OwnerFinishes(r) PROVE ParkInv'
    <2>1. /\ Goes(r, {"running"}, "done") /\ UNCHANGED admitted
          /\ future' = [future EXCEPT ![r] = IF r \in byLease THEN "over" ELSE @]
      BY <1>3, GoesOn DEF OwnerFinishes
    <2>2. \A q \in Requests : req'[q].pc = "await" => admitted'[q] # "none"
      BY <1>0, <2>1 DEF Goes, OwnersHaveAsked
    <2>3. \A l \in Requests : future[l] # "none" => future'[l] # "none"
      BY <1>0, <2>1
    <2>4. QED
      BY <2>1, <2>2, <2>3, GoesMovesOn, WaitFrame
  <1>4. ASSUME NEW l \in Requests, LeaseTimeout(l) PROVE ParkInv'
    BY <1>0, <1>4, <1>m, WaitFrame DEF LeaseTimeout, OwnersHaveAsked
  <1>5. ASSUME NEW l \in Requests, Cleanup(l) PROVE ParkInv'
    BY <1>0, <1>5, <1>m, WaitFrame DEF Cleanup, OwnersHaveAsked
  <1>6. ASSUME NEW r \in Requests, Served(r) PROVE ParkInv'
    <2>1. Goes(r, {"waiting"}, "done") /\ UNCHANGED <<future, admitted>>
      BY <1>6, GoesOn DEF Served
    <2>2. \A q \in Requests : req'[q].pc = "await" => admitted'[q] # "none"
      BY <1>0, <2>1 DEF Goes, OwnersHaveAsked
    <2>3. QED
      BY <2>1, <2>2, GoesMovesOn, WaitFrame
  <1>7. CASE ClearFutures
    BY <1>0, <1>7, <1>m, WaitFrame DEF ClearFutures, OwnersHaveAsked
  <1>8. CASE ClearMaps
    BY <1>0, <1>8, <1>m, WaitFrame DEF ClearMaps, OwnersHaveAsked
  <1>9. ASSUME NEW r \in Requests, Acquire(r) PROVE ParkInv'
    <2>1. /\ Goes(r, {"acquire"}, "await") /\ UNCHANGED future
          /\ \/ admitted' = [admitted EXCEPT ![r] = "granted"]
             \/ admitted' = [admitted EXCEPT ![r] = "denied"]
             \/ admitted' = [admitted EXCEPT ![r] = "queued"]
      BY <1>9, GoesOn DEF Acquire
    <2>2. admitted'[r] # "none" /\ \A q \in Requests \ {r} : admitted'[q] = admitted[q]
      BY <1>0, <2>1
    <2>3. \A q \in Requests : req'[q].pc = "await" => admitted'[q] # "none"
      BY <1>0, <2>1, <2>2 DEF Goes, OwnersHaveAsked
    <2>4. QED
      BY <2>1, <2>3, GoesMovesOn, WaitFrame
  <1>10. ASSUME NEW l \in Requests, WaiterTimeout(l) PROVE ParkInv'
    BY <1>0, <1>10, <1>m, WaitFrame DEF WaiterTimeout, OwnersHaveAsked
  <1>11. CASE AgeWaiters
    BY <1>0, <1>11, <1>m, WaitFrame DEF AgeWaiters, OwnersHaveAsked
  <1>12. ASSUME NEW r \in Requests, Publish(r) PROVE ParkInv'
    <2>1. Goes(r, {"await"}, "running") /\ UNCHANGED <<future, admitted>>
      BY <1>12, GoesOn DEF Publish
    <2>2. \A q \in Requests : req'[q].pc = "await" => admitted'[q] # "none"
      BY <1>0, <2>1 DEF Goes, OwnersHaveAsked
    <2>3. QED
      BY <2>1, <2>2, GoesMovesOn, WaitFrame
  <1>13. ASSUME NEW l \in Requests, ReleaseSlot(l) PROVE ParkInv'
    <2>1. UNCHANGED <<req, future>>
      BY <1>13 DEF ReleaseSlot
    <2>2. \A q \in Requests : admitted[q] # "none" => admitted'[q] # "none"
      <3>1. CASE UNCHANGED admitted
        BY <3>1
      <3>2. ASSUME NEW next \in queue, admitted' = [admitted EXCEPT ![next] = "granted"]
            PROVE  \A q \in Requests : admitted[q] # "none" => admitted'[q] # "none"
        BY <1>0, <3>2
      <3>3. QED
        BY <1>13, <3>1, <3>2 DEF ReleaseSlot, Dispatch
    <2>3. QED
      BY <1>0, <1>m, <2>1, <2>2, WaitFrame DEF OwnersHaveAsked
  <1>14. CASE UNCHANGED vars
    BY <1>0, <1>14, <1>m, WaitFrame DEF vars, OwnersHaveAsked
  <1>15. QED
    BY <1>1, <1>2, <1>3, <1>4, <1>5, <1>6, <1>7, <1>8, <1>9, <1>10, <1>11, <1>12, <1>13, <1>14
       DEF Next, LeaseStep, Timers, Callbacks

-----------------------------------------------------------------------------
(* The theorems *)

\* Nobody has asked yet: every slot is free and the maps are empty.
LEMMA InitInv == Init => AdmissionInv
  <1> SUFFICES ASSUME Init PROVE AdmissionInv
    OBVIOUS
  <1>1. IsFiniteSet({}) /\ Cardinality({}) = 0
    BY FS_EmptySet
  <1>2. TypeOK
    <2>1. req \in [Requests -> Lookup]
      BY DEF Init, Lookup
    <2>2. byKey \in [Keys -> Requests \cup {None}] /\ priority \in [Requests -> 0..MaxPriority]
      BY AdmissionAssumption DEF Init
    <2>3. queue \subseteq Requests /\ IsFiniteSet(queue) /\ Cardinality(queue) <= MaxQueue
      BY <1>1, AdmissionAssumption DEF Init
    <2>4. active \in 0..MaxConcurrent /\ clears \in 0..MaxClears
      BY AdmissionAssumption DEF Init
    <2>5. QED
      BY <2>1, <2>2, <2>3, <2>4 DEF Init, TypeOK
  <1>3. Using = {}
    BY DEF Init, Using
  <1>4. SlotInv
    BY <1>1, <1>3
       DEF Init, SlotInv, SlotsAreCounted, HeldWasGranted, QueueIsWaiters, NoIdleSlotWhileQueued, Live
  <1>5. LeaseInv
    BY DEF Init, LeaseInv, OwnersHaveLeases, MapsHoldLeases, OneOwnerPerKey, Registered
  <1>6. ParkInv
    BY AdmissionAssumption
       DEF Init, ParkInv, ParkedOnOwners, OwnersHaveAsked, Begun
  <1>7. QED
    BY <1>2, <1>4, <1>5, <1>6 DEF AdmissionInv

\* The inductive invariant of the coalescer and the scheduler holds in every reachable state.
THEOREM InvariantHolds == Spec => []AdmissionInv
  <1>1. AdmissionInv /\ [Next]_vars => AdmissionInv'
    BY TypeNext, SlotNext, LeaseNext, WaitNext DEF AdmissionInv
  <1>2. QED
    BY <1>1, InitInv, PTL DEF Spec

\* Never more than maxConcurrent slots are in use and maxQueueSize waiters queued.
THEOREM TypeCorrect == Spec => []TypeOK
  <1>1. AdmissionInv => TypeOK
    BY DEF AdmissionInv
  <1>2. QED
    BY <1>1, InvariantHolds, PTL

\* Slots are neither given back twice nor left free beside a waiter
\* (LlmRequestScheduler.release and dispatch).
THEOREM EverySlotIsUsed == Spec => []SlotsAreUsed
  <1>1. AdmissionInv => SlotsAreUsed
    <2> SUFFICES ASSUME AdmissionInv PROVE SlotsAreUsed
      OBVIOUS
    <2>1. SlotsAreCounted /\ HeldWasGranted /\ NoIdleSlotWhileQueued
      BY DEF AdmissionInv, SlotInv
    <2>2. Granted \subseteq Using
      BY <2>1 DEF Granted, Using, HeldWasGranted
    <2>3. HeldSlotsAreActive
      BY <2>1, <2>2, FS_Subset DEF SlotsAreCounted, HeldSlotsAreActive
    <2>4. QED
      BY <2>1, <2>3 DEF SlotsAreUsed
  <1>2. QED
    BY <1>1, InvariantHolds, PTL

\* A key has one owner while its lease is open, and leases leave nothing behind but the slots
\* granted after their end (RequestCoalescer.begin, complete, fail and clear).
THEOREM LeasesAreKept == Spec => []LeasesHold
  <1>1. AdmissionInv => LeasesHold
    <2> SUFFICES ASSUME AdmissionInv PROVE LeasesHold
      OBVIOUS
    <2>1. /\ SlotsAreCounted /\ HeldWasGranted /\ QueueIsWaiters
          /\ MapsHoldLeases /\ OneOwnerPerKey
          /\ byKey \in [Keys -> Requests \cup {None}] /\ byLease \subseteq Requests
          /\ queue \subseteq Requests
      BY DEF AdmissionInv, SlotInv, LeaseInv, TypeOK
    <2>2. ASSUME Settled
          PROVE  /\ \A k \in Keys : byKey[k] = None
                 /\ byLease = {} /\ queue = {} /\ active = Cardinality(Granted)
      <3>1. \A r \in Requests : req[r].pc = "done" /\ (req[r].lease = r => r \in cleaned)
        BY <2>2 DEF Settled
      <3>2. ASSUME NEW k \in Keys PROVE byKey[k] = None
        BY <2>1, <3>1 DEF MapsHoldLeases
      <3>3. byLease = {}
        BY <2>1, <3>1 DEF MapsHoldLeases, Registered
      <3>4. queue = {}
        BY <2>1, <3>1 DEF QueueIsWaiters
      <3>5. Using = Granted
        BY <2>1, <3>1 DEF Using, Granted, HeldWasGranted
      <3>6. QED
        BY <2>1, <3>2, <3>3, <3>4, <3>5 DEF SlotsAreCounted
    <2>3. QED
      BY <2>1, <2>2 DEF LeasesHold, NothingLeftBehind
  <1>2. QED
    BY <1>1, InvariantHolds, PTL

\* Whoever is not through can move, or waits on an owner or a timer that can
\* (SemanticCacheService.onMiss, RequestCoalescer.begin, LlmRequestScheduler.acquire).
THEOREM NobodyWaitsForever == Spec => []NobodyIsStranded
  <1>1. AdmissionInv => NobodyIsStranded
    <2> SUFFICES ASSUME AdmissionInv, NEW r \in Requests, req[r].pc \notin {"running", "done"}
                 PROVE  CanMove(r) \/ (req[r].pc = "waiting" /\ CanMove(req[r].lease))
      BY DEF NobodyIsStranded
    <2>1. /\ req \in [Requests -> Lookup]
          /\ future \in [Requests -> {"none", "open", "over"}]
          /\ admitted \in [Requests -> {"none", "queued", "granted", "denied"}]
          /\ ParkedOnOwners /\ OwnersHaveAsked
      BY DEF AdmissionInv, TypeOK, ParkInv
    <2>2. \A q \in Requests : req[q].pc = "await" => CanMove(q)
      BY <2>1 DEF OwnersHaveAsked, CanMove, Decided, Live
    <2>3. CASE req[r].pc # "waiting"
      BY <2>1, <2>2, <2>3 DEF Lookup, CanMove
    <2>4. CASE req[r].pc = "waiting"
      <3>1. PICK l \in Requests : l = req[r].lease /\ Begun(l) /\ future[l] # "none"
        BY <2>1, <2>4 DEF ParkedOnOwners
      <3>2. CASE req[l].pc \in {"register", "acquire", "await"}
        BY <2>2, <2>4, <3>1, <3>2 DEF CanMove
      <3>3. CASE req[l].pc \in {"running", "done"}
        BY <2>1, <2>4, <3>1, <3>3 DEF CanMove, LeaseRuns, OpenFuture, Answered, Done, Begun
      <3>4. QED
        BY <2>1, <3>1, <3>2, <3>3 DEF Begun, Lookup
    <2>5. QED
      BY <2>3, <2>4
  <1>2. QED
    BY <1>1, InvariantHolds, PTL

-----------------------------------------------------------------------------
(* The cache: who is where *)

\* An answer that is there, or was at the start; a request that came before another one ended.
Known(s) == s = 0 \/ (s \in Req /\ pc[s] # "free")

\* The variables are functions of what they are kept for, and what the LSH index finds are keys.
CacheFuns ==
    /\ DOMAIN l1 = CacheKey /\ DOMAIN redis = CacheKey /\ DOMAIN lease = CacheKey
    /\ DOMAIN job = Req /\ DOMAIN pc = Req /\ DOMAIN got = Req /\ DOMAIN served = Req
    /\ lsh \subseteq CacheKey

\* Requests come in order, those in flight together have met, and one that did not meet an earlier one found it ended.
ArriveInv ==
    /\ \A q, r \in Req : q < r /\ pc[r] # "free" => pc[q] # "free"
    /\ \A q, r \in InFlight : q # r => {q, r} \in met
    /\ \A q, r \in Req : q < r /\ pc[r] # "free" /\ {q, r} \notin met => pc[q] = "done"
    /\ \A q, r \in Req : {q, r} \in met => pc[q] # "free" /\ pc[r] # "free" /\ q # r
    /\ \A q, e, r \in Req : q < e /\ e < r /\ pc[e] # "free" /\ {q, e} \notin met => {q, r} \notin met
    /\ hurt \subseteq Req /\ \A r \in hurt : pc[r] # "free"

AskSteps == LookupSteps \cup StoreSteps \cup {"retrieve", "generate", "victim", "evict"}
EditSteps == {"write", "sync", "unindex", "index", "insert", "flag", "drop", "bump"}
CacheSteps == AskSteps \cup EditSteps \cup InvalidateSteps \cup {"free", "start", "evictIds", "sweep", "sweepKey", "done"}

\* Where a request of each kind may be, and where it goes on from a step of its own and of others.
StepOf(r) ==
    /\ pc[r] \in CacheSteps
    /\ (pc[r] = "free") = (Kind(r) = "none")
    /\ pc[r] # "free" => WellFormed(job[r])
    /\ pc[r] \in AskSteps => Kind(r) = "ask"
    /\ pc[r] \in EditSteps => Kind(r) \in Edits
    /\ pc[r] = "write" => Kind(r) = "update"
    /\ pc[r] \in {"inv", "invLsh", "members", "forget"} => Kind(r) \in Edits \cup {"purge"}
    /\ pc[r] \in {"sweep", "sweepKey"} => Kind(r) = "sweep"
    /\ pc[r] = "evictIds" => Kind(r) \in {"ask", "sweep"}
    /\ pc[r] = "start" => Kind(r) \in {"ask", "clear"} \cup Edits
LeadsOn(r) ==
    /\ DOMAIN got[r] = DOMAIN Nothing
    /\ pc[r] \in {"free", "start"} => got[r] = Nothing
    /\ pc[r] = "victim" => got[r].then \in {"hit", "track"}
    /\ pc[r] \in {"evict", "evictIds"} /\ Kind(r) = "ask" => got[r].then \in {"semantic", "miss"}
    /\ Kind(r) \in {"sweep", "purge"} => got[r].then = "done"
    /\ pc[r] \in EditSteps => got[r].then \in {"flag", "drop"}
    /\ pc[r] \in InvalidateSteps /\ Kind(r) \in Edits => got[r].then \in {"flag", "drop"}
    /\ pc[r] \in {"write", "sync", "index", "insert", "flag"} => got[r].then = "flag"
    /\ pc[r] = "drop" => got[r].then = "drop"
RouteInv == \A r \in Req : StepOf(r) /\ LeadsOn(r)

\* An answer others wait for is on its way, and those who wait have met its request.
Owns(r) == pc[r] \in {"retrieve", "generate"} \cup StoreSteps \/ (pc[r] = "victim" /\ got[r].then = "track")
WaitInv ==
    /\ \A k \in CacheKey : lease[k] # NoEntry => lease[k] \in Req /\ Owns(lease[k])
    /\ \A r \in Req : pc[r] = "wait" => got[r].entry \in Req /\ {got[r].entry, r} \in met

-----------------------------------------------------------------------------
(* The version in the key *)

\* The edits that raised the version, and the answers that an edit which raised it in one process only may have given a
\* number that comes again.
Raised(e) == Kind(e) \in Edits /\ got[e].ver > 0 /\ e \notin hurt
Excused(s) == \E f \in hurt : Kind(f) \in Edits /\ ~Before(s, f)

VersionInv ==
    /\ version \in Nat /\ local \in Nat /\ \A r \in Req : got[r].ver \in Nat
    /\ local > version => \E f \in hurt : Kind(f) \in Edits
    /\ \A e \in Req : Kind(e) \in Edits /\ got[e].ver > 0 => pc[e] \in {"flag", "drop", "done"}
    /\ \A e \in Req : Raised(e) => got[e].ver <= version

\* A question looks with a version no older than the edits before it, and stores with one that is not ahead.
AskInv ==
    /\ \A r \in Req : Kind(r) = "ask" => got[r].ver \in Version
    /\ \A r, e \in Req : LooksUp(r) /\ r \notin hurt /\ Raised(e) /\ Before(e, r) => got[e].ver <= got[r].ver
    /\ \A r \in Req : Stores(r) => got[r].ver <= version \/ Excused(r)

\* An answer is under a version below that of every later edit.
Valid(s, k) ==
    /\ Known(s)
    /\ Excused(s) \/ (k[2] <= version /\ \A e \in Req : Raised(e) /\ Before(s, e) => k[2] < got[e].ver)
Promotes(r) == pc[r] \in {"promote", "hit"} \/ (pc[r] = "victim" /\ got[r].then = "hit")
PlaceInv ==
    /\ \A k \in CacheKey : l1[k] # NoEntry => Valid(l1[k], k)
    /\ \A k \in CacheKey : redis[k] # NoEntry => Valid(redis[k], k)
    /\ \A r \in Req : Promotes(r) => Valid(got[r].entry, KeyOf(r))

ServedInv ==
    \A r \in Req : served[r] # NoEntry =>
        /\ pc[r] = "done" /\ Known(served[r])
        /\ \A e \in Req : Raised(e) /\ Before(served[r], e) /\ Before(e, r) => r \in hurt \/ Excused(served[r])

-----------------------------------------------------------------------------
(* Finding what is there *)

\* A question overlapped another request after the answer was on its way.
Blurred(s) ==
    \E a, b \in Req : a # b /\ {a, b} \in met /\ Kind(a) = "ask" /\ ~(Before(a, s) /\ Before(b, s))

\* Who is about to note a key it has put into L1.
Tracks(r, k) == KeyOf(r) = k /\ pc[r] \in {"hit", "track", "victim"}
TrackInv ==
    \A k \in CacheKey : l1[k] # NoEntry =>
        Blurred(l1[k]) \/ k \in lsh \cap keysByOrg \/ \E r \in Req : Tracks(r, k)

\* The keys that are about to be forgotten are those of entries that are gone.
Absent(k) == l1[k] = NoEntry \/ Blurred(l1[k])
EvictInv ==
    \A r \in Req : \A k \in CacheKey :
        /\ pc[r] = "victim" /\ k \in got[r].keys => Absent(k) \/ k = KeyOf(r)
        /\ pc[r] = "evictIds" /\ k \in got[r].keys => Absent(k)
        /\ pc[r] = "sweepKey" /\ k \in got[r].keys => Absent(k) \/ l1[k] \in expired
        /\ pc[r] = "invLsh" => Absent(k)

\* An entry of Redis is in the organisation's index, or about to be.
Indexes(s, k) == s \in Req /\ pc[s] = "l2index" /\ KeyOf(s) = k
IndexInv ==
    hurt = {} => \A k \in CacheKey : redis[k] # NoEntry =>
        /\ Blurred(redis[k]) \/ k \in orgIndex \/ Indexes(redis[k], k)
        /\ \A r \in Req : pc[r] = "forget" => Blurred(redis[k]) \/ k \in got[r].keys

\* What a purge that nothing overlapped has dropped by now stays away.
Dropped(p, s) ==
    /\ pc[p] \in {"invLsh", "members", "forget", "done"} => \A k \in CacheKey : l1[k] # s
    /\ pc[p] = "forget" => \A k \in CacheKey : redis[k] = s => k \in got[p].keys
    /\ pc[p] = "done" => \A k \in CacheKey : redis[k] # s
    /\ pc[p] = "done" => \A r \in Req : p < r /\ Promotes(r) => got[r].entry # s
    /\ \A r \in Req : Before(p, r) => served[r] # s
DropInv ==
    hurt = {} => \A p \in Req : Kind(p) = "purge" /\ Alone(p) =>
        \A s \in Id : Before(s, p) /\ ~Mixed(s, p) => Dropped(p, s)

-----------------------------------------------------------------------------
(* The index of the articles *)

\* No two edits overlapped and nothing failed.
Apart == hurt = {} /\ \A e, f \in Req : {Kind(e), Kind(f)} \subseteq Edits /\ e # f => {e, f} \notin met

\* An article nobody edits is indexed as its row says; and what an edit has brought about so far.
Row == [status : {"none", "published", "archived"}, text : Id, indexed : BOOLEAN]
Due(a) == IF Published(a) THEN {<<a, article[a].text>>} ELSE {}
RowOK(a) == Chunks(a) = Due(a) /\ article[a].indexed = Published(a)
EditOK(e) ==
    LET a == Subject(e) IN
    /\ pc[e] \in {"start", "write"} => RowOK(a)
    /\ pc[e] = "sync" => /\ article[a].status # "none"
                         /\ ~Published(a) => Chunks(a) = {} \/ article[a].indexed
    /\ pc[e] \in {"index", "insert"} => Published(a) /\ got[e].row = article[a].text
    /\ pc[e] = "insert" => Chunks(a) = {}
    /\ pc[e] \in {"start", "write", "sync", "index", "insert", "unindex"} => got[e].ok = FALSE
    /\ pc[e] = "unindex" /\ got[e].then = "flag" => article[a].status = "archived"
    /\ pc[e] \in InvalidateSteps \cup {"flag"} /\ got[e].then = "flag" =>
        /\ Chunks(a) = Due(a) /\ got[e].ok = Published(a) /\ article[a].status # "none"
    /\ pc[e] \in InvalidateSteps \cup {"drop"} /\ got[e].then = "drop" => Chunks(a) = {}
Editing(a) == \E e \in InFlight : Kind(e) \in Edits /\ Subject(e) = a
RowTypes ==
    /\ article \in [Id -> Row] /\ index \subseteq Id \X (Id \cup {NoEntry})
    /\ \A r \in Req : got[r].row \in Id \cup {NoEntry}
RowInv ==
    /\ RowTypes
    /\ Apart => /\ \A a \in Id : ~Editing(a) => RowOK(a)
                /\ \A e \in InFlight : Kind(e) \in Edits => EditOK(e)

CacheInv ==
    /\ CacheFuns /\ ArriveInv /\ RouteInv /\ WaitInv /\ VersionInv /\ AskInv /\ PlaceInv /\ ServedInv
    /\ TrackInv /\ EvictInv /\ IndexInv /\ DropInv /\ RowInv

-----------------------------------------------------------------------------
(* One request's step *)

\* What a request does by itself.
OwnStep(r) ==
    Question(r) \/ Edit(r) \/ InvalidateL1(r) \/ InvalidateL2(r) \/ Bump(r) \/ Sweep(r) \/ ClearAll(r)

\* Requests and answers are numbers, and nobody is none of them.
LEMMA CacheNumbers ==
    /\ MaxReq \in Nat /\ Req \subseteq Nat /\ 0 \notin Req /\ Id = Req \cup {0}
    /\ NoEntry \notin Id /\ NoEntry \in Nat /\ NoEntry \notin Req
    /\ DOMAIN Nothing = {"ver", "keys", "entry", "row", "ok", "then"}
  BY KnowledgeCacheAssumption DEF Req, Id, NoEntry, Nothing

\* What a request has read and still uses, after a step.
Holds(r, ver, keys, entry, row, ok, then) ==
    /\ DOMAIN got'[r] = DOMAIN Nothing
    /\ got'[r].ver = ver /\ got'[r].keys = keys /\ got'[r].entry = entry
    /\ got'[r].row = row /\ got'[r].ok = ok /\ got'[r].then = then

\* A field is written, and the others stay.
LEMMA KeepDoes ==
    ASSUME CacheFuns, NEW r \in Req, DOMAIN got[r] = DOMAIN Nothing, NEW x
    PROVE  LET g == got[r] IN
           /\ Keep(r, "ver", x) => Holds(r, x, g.keys, g.entry, g.row, g.ok, g.then)
           /\ Keep(r, "keys", x) => Holds(r, g.ver, x, g.entry, g.row, g.ok, g.then)
           /\ Keep(r, "entry", x) => Holds(r, g.ver, g.keys, x, g.row, g.ok, g.then)
           /\ Keep(r, "row", x) => Holds(r, g.ver, g.keys, g.entry, x, g.ok, g.then)
           /\ Keep(r, "ok", x) => Holds(r, g.ver, g.keys, g.entry, g.row, x, g.then)
           /\ Keep(r, "then", x) => Holds(r, g.ver, g.keys, g.entry, g.row, g.ok, x)
  <1> DEFINE g == got[r]
  <1>1. Keep(r, "ver", x) => Holds(r, x, g.keys, g.entry, g.row, g.ok, g.then)
    <2>1. Keep(r, "ver", x) => got'[r] = [got[r] EXCEPT !.ver = x]
      BY DEF Keep, CacheFuns
    <2>2. QED
      BY <2>1, CacheNumbers DEF Holds
  <1>2. Keep(r, "keys", x) => Holds(r, g.ver, x, g.entry, g.row, g.ok, g.then)
    <2>1. Keep(r, "keys", x) => got'[r] = [got[r] EXCEPT !.keys = x]
      BY DEF Keep, CacheFuns
    <2>2. QED
      BY <2>1, CacheNumbers DEF Holds
  <1>3. Keep(r, "entry", x) => Holds(r, g.ver, g.keys, x, g.row, g.ok, g.then)
    <2>1. Keep(r, "entry", x) => got'[r] = [got[r] EXCEPT !.entry = x]
      BY DEF Keep, CacheFuns
    <2>2. QED
      BY <2>1, CacheNumbers DEF Holds
  <1>4. Keep(r, "row", x) => Holds(r, g.ver, g.keys, g.entry, x, g.ok, g.then)
    <2>1. Keep(r, "row", x) => got'[r] = [got[r] EXCEPT !.row = x]
      BY DEF Keep, CacheFuns
    <2>2. QED
      BY <2>1, CacheNumbers DEF Holds
  <1>5. Keep(r, "ok", x) => Holds(r, g.ver, g.keys, g.entry, g.row, x, g.then)
    <2>1. Keep(r, "ok", x) => got'[r] = [got[r] EXCEPT !.ok = x]
      BY DEF Keep, CacheFuns
    <2>2. QED
      BY <2>1, CacheNumbers DEF Holds
  <1>6. Keep(r, "then", x) => Holds(r, g.ver, g.keys, g.entry, g.row, g.ok, x)
    <2>1. Keep(r, "then", x) => got'[r] = [got[r] EXCEPT !.then = x]
      BY DEF Keep, CacheFuns
    <2>2. QED
      BY <2>1, CacheNumbers DEF Holds
  <1>7. QED
    BY <1>1, <1>2, <1>3, <1>4, <1>5, <1>6

\* Keys and a step are noted.
LEMMA NoteDoes ==
    ASSUME CacheFuns, NEW r \in Req, DOMAIN got[r] = DOMAIN Nothing, NEW ks, NEW step, Note(r, ks, step)
    PROVE  Holds(r, got[r].ver, ks, got[r].entry, got[r].row, got[r].ok, step)
  <1>1. got'[r] = [got[r] EXCEPT !.keys = ks, !.then = step]
    BY DEF Note, CacheFuns
  <1>2. QED
    BY <1>1, CacheNumbers DEF Holds

\* A request ends, and keeps nothing but whether others get its answer, or the version it raised.
LEMMA EndDoes ==
    ASSUME CacheFuns, NEW r \in Req, NEW x
    PROVE  /\ got' = [got EXCEPT ![r] = [Nothing EXCEPT !.ok = x]] => Holds(r, 0, {}, NoEntry, NoEntry, x, "done")
           /\ got' = [got EXCEPT ![r] = [Nothing EXCEPT !.ver = x]] => Holds(r, x, {}, NoEntry, NoEntry, FALSE, "done")
  BY DEF CacheFuns, Nothing, Holds

\* Nobody else moves: a request's step leaves the others where they are, with what they hold and got.
LEMMA OwnStepAlone ==
    ASSUME CacheFuns, NEW r \in Req, OwnStep(r)
    PROVE  /\ pc[r] \notin {"free", "done"} /\ DOMAIN pc' = Req /\ DOMAIN got' = Req /\ DOMAIN served' = Req
           /\ \A q \in Req : q # r => pc'[q] = pc[q] /\ got'[q] = got[q] /\ served'[q] = served[q]
           /\ UNCHANGED <<job, met, expired>> /\ hurt' \in {hurt, hurt \cup {r}}
  <1> DEFINE P ==
        /\ pc[r] \notin {"free", "done"} /\ DOMAIN pc' = Req /\ DOMAIN got' = Req /\ DOMAIN served' = Req
        /\ \A q \in Req : q # r => pc'[q] = pc[q] /\ got'[q] = got[q] /\ served'[q] = served[q]
        /\ UNCHANGED <<job, met, expired>> /\ hurt' \in {hurt, hurt \cup {r}}
  <1>1. Ask(r) => P
    BY DEF Ask, ReadVersion, Hurts, Go, Keep, CacheFuns, history, content
  <1>2. ExactInL1(r) => P
    BY DEF ExactInL1, Serve, Note, Go, Keep, CacheFuns, history, content
  <1>3. ExactInL2(r) => P
    BY DEF ExactInL2, Hurts, Go, Keep, CacheFuns, history, content
  <1>4. Promote(r) => P
    BY DEF Promote, PutL1, Note, Serve, Go, Keep, CacheFuns, history, content
  <1>5. SemanticLookup(r) => P
    BY DEF SemanticLookup, Serve, Note, Go, Keep, CacheFuns, history, content
  <1>6. OnMiss(r) => P
    BY DEF OnMiss, Go, Keep, CacheFuns, history, content
  <1>7. Waited(r) => P
    BY DEF Waited, Serve, Go, Keep, CacheFuns, history, content
  <1>8. Retrieve(r) => P
    BY DEF Retrieve, Serve, Go, Keep, CacheFuns, history, content
  <1>9. Store(r) => P
    BY DEF Store, ReadVersion, Hurts, Serve, Go, Keep, CacheFuns, history, content
  <1>10. Keeps(r) => P
    BY DEF Keeps, PutL1, Note, Go, Keep, CacheFuns, history, content
  <1>11. StoreL2(r) => P
    BY DEF StoreL2, Hurts, Go, Keep, CacheFuns, history, content
  <1>12. Complete(r) => P
    BY DEF Complete, Serve, Go, Keep, CacheFuns, history, content
  <1>13. EvictionListener(r) => P
    BY DEF EvictionListener, Go, Keep, CacheFuns, history, content
  <1>14. Evict(r) => P
    BY DEF Evict, Go, Keep, CacheFuns, history, content
  <1>15. Write(r) => P
    BY DEF Write, Pass, Go, Keep, CacheFuns, history, content
  <1>16. Sync(r) => P
    BY DEF Sync, Go, Keep, CacheFuns, history, content
  <1>17. Index(r) => P
    BY DEF Index, Hurts, Go, Keep, CacheFuns, history, content
  <1>18. Flag(r) => P
    BY DEF Flag, Hurts, Go, Keep, CacheFuns, history, content
  <1>19. Drop(r) => P
    BY DEF Drop, Go, Keep, CacheFuns, history, content
  <1>20. InvalidateL1(r) => P
    BY DEF InvalidateL1, Go, Keep, CacheFuns, history, content
  <1>21. InvalidateL2(r) => P
    BY DEF InvalidateL2, Hurts, Go, Keep, CacheFuns, history, content
  <1>22. Bump(r) => P
    BY DEF Bump, Hurts, Go, Keep, CacheFuns, history, content
  <1>23. Sweep(r) => P
    BY DEF Sweep, Go, Keep, CacheFuns, history, content
  <1>24. ClearAll(r) => P
    BY DEF ClearAll, Go, Keep, CacheFuns, history, content
  <1> HIDE DEF P
  <1>25. P
    BY <1>1, <1>2, <1>3, <1>4, <1>5, <1>6, <1>7, <1>8, <1>9, <1>10, <1>11, <1>12, <1>13, <1>14, <1>15, <1>16, <1>17, <1>18, <1>19, <1>20, <1>21, <1>22, <1>23, <1>24 DEF OwnStep, Question, Edit
  <1>26. QED
    BY <1>25 DEF P

-----------------------------------------------------------------------------
(* Where requests go *)

\* An answer is given, and the request ends.
LEMMA ServeDoes ==
    ASSUME CacheFuns, NEW r \in Req, NEW e, NEW kept, Serve(r, e, kept)
    PROVE  /\ pc'[r] = "done" /\ served'[r] = e /\ Holds(r, 0, {}, NoEntry, NoEntry, kept, "done")
  BY EndDoes DEF Serve, Go, CacheFuns

\* What the kinds of requests are.
LEMMA KindsApart ==
    /\ Edits = {"create", "update", "delete"}
    /\ InvalidateSteps = {"inv", "invLsh", "members", "forget", "bump"}
    /\ StoreSteps = {"put", "track", "l2", "l2index", "complete"}
    /\ LookupSteps = {"exact", "promote", "hit", "semantic", "miss", "wait"}
    /\ SharedSteps = {"victim", "evict", "evictIds"}
    /\ AskSteps = {"exact", "promote", "hit", "semantic", "miss", "wait", "put", "track", "l2", "l2index", "complete",
                   "retrieve", "generate", "victim", "evict"}
    /\ EditSteps = {"write", "sync", "unindex", "index", "insert", "flag", "drop", "bump"}
  BY DEF Edits, InvalidateSteps, StoreSteps, LookupSteps, SharedSteps, AskSteps, EditSteps

\* A request's step goes the way of its kind.
LEMMA OwnStepGoes ==
    ASSUME CacheFuns, RouteInv, NEW r \in Req, OwnStep(r)
    PROVE  StepOf(r)' /\ LeadsOn(r)' /\ pc'[r] \notin {"free", "start"}
  <1> DEFINE P == StepOf(r)' /\ LeadsOn(r)' /\ pc'[r] \notin {"free", "start"}
  <1>1. /\ pc[r] \notin {"free", "done"} /\ job' = job /\ StepOf(r) /\ LeadsOn(r) /\ DOMAIN got[r] = DOMAIN Nothing
        /\ DOMAIN pc = Req /\ DOMAIN got = Req /\ DOMAIN Nothing = {"ver", "keys", "entry", "row", "ok", "then"}
    BY OwnStepAlone, CacheNumbers DEF RouteInv, LeadsOn, CacheFuns
  <1>2. Kind(r)' = Kind(r) /\ WellFormed(job[r])' = WellFormed(job[r])
    BY <1>1 DEF Kind, WellFormed
  <1>s. ASSUME NEW e, NEW kept, Serve(r, e, kept), Kind(r) = "ask" PROVE P
    BY <1>1, <1>2, <1>s, ServeDoes, KindsApart DEF Holds, StepOf, LeadsOn, CacheSteps
  <1>t. ASSUME NEW ks, NEW to, Note(r, ks, to), Kind(r) = "ask",
               \/ pc'[r] = "victim" /\ to \in {"hit", "track"}
               \/ pc'[r] = "evict" /\ to \in {"semantic", "miss"}
               \/ pc'[r] = to /\ to \in {"hit", "track"}
        PROVE  P
    <2>1. got'[r].then = to /\ DOMAIN got'[r] = DOMAIN Nothing
      BY <1>1, <1>t, NoteDoes DEF Holds
    <2>2. QED
      BY <1>1, <1>2, <1>t, <2>1, KindsApart DEF StepOf, LeadsOn, CacheSteps
  <1>3. Ask(r) => P
    BY <1>1, <1>2, KeepDoes, NoteDoes, ServeDoes, EndDoes, KindsApart DEF Ask, Hurts, Go, Holds, StepOf, LeadsOn, CacheSteps
  <1>4. ASSUME ExactInL1(r) PROVE P
    <2>1. Kind(r) = "ask" /\ pc[r] = "exact"
      BY <1>1, <1>4, KindsApart DEF ExactInL1, StepOf
    <2>2. \/ Serve(r, l1[KeyOf(r)], FALSE)
          \/ pc'[r] = "evict" /\ Note(r, {KeyOf(r)}, "semantic")
      BY <1>1, <1>4 DEF ExactInL1, Go
    <2>3. QED
      BY <1>s, <1>t, <2>1, <2>2
  <1>5. ExactInL2(r) => P
    BY <1>1, <1>2, KeepDoes, NoteDoes, ServeDoes, EndDoes, KindsApart DEF ExactInL2, Hurts, Go, Holds, StepOf, LeadsOn, CacheSteps
  <1>6. ASSUME Promote(r) PROVE P
    <2>1. Kind(r) = "ask"
      BY <1>1, <1>6, KindsApart DEF Promote, StepOf
    <2>2. CASE pc[r] = "promote" /\ PutL1(r, KeyOf(r), got[r].entry, "hit")
      <3>1. pc'[r] \in {"victim", "hit"} /\ Note(r, Victim(KeyOf(r)), "hit")
        BY <1>1, <2>2 DEF PutL1, Go
      <3>2. QED
        BY <1>t, <2>1, <3>1
    <2>3. CASE Serve(r, got[r].entry, FALSE)
      BY <1>s, <2>1, <2>3
    <2>4. QED
      BY <1>6, <2>2, <2>3 DEF Promote
  <1>7. ASSUME SemanticLookup(r) PROVE P
    <2>1. Kind(r) = "ask" /\ pc[r] = "semantic"
      BY <1>1, <1>7, KindsApart DEF SemanticLookup, StepOf
    <2>2. CASE \E k : Serve(r, l1[k], FALSE)
      BY <1>s, <2>1, <2>2
    <2>3. CASE \E old : pc'[r] = "evict" /\ Note(r, old, "miss")
      BY <1>t, <2>1, <2>3
    <2>4. CASE pc'[r] = "miss" /\ UNCHANGED got
      BY <1>1, <1>2, <2>1, <2>4, KindsApart DEF StepOf, LeadsOn, CacheSteps
    <2>5. QED
      BY <1>1, <1>7, <2>2, <2>3, <2>4 DEF SemanticLookup, Go
  <1>8. OnMiss(r) => P
    BY <1>1, <1>2, KeepDoes, NoteDoes, ServeDoes, EndDoes, KindsApart DEF OnMiss, Go, Holds, StepOf, LeadsOn, CacheSteps
  <1>9. ASSUME Waited(r) PROVE P
    <2>1. Kind(r) = "ask" /\ pc[r] = "wait"
      BY <1>1, <1>9, KindsApart DEF Waited, StepOf
    <2>2. Serve(r, got[r].entry, FALSE) \/ (pc'[r] = "retrieve" /\ UNCHANGED got)
      BY <1>1, <1>9 DEF Waited, Go
    <2>3. CASE pc'[r] = "retrieve" /\ UNCHANGED got
      BY <1>1, <1>2, <2>1, <2>3, KindsApart DEF StepOf, LeadsOn, CacheSteps
    <2>4. QED
      BY <1>s, <2>1, <2>2, <2>3
  <1>10. ASSUME Retrieve(r) PROVE P
    <2>1. Kind(r) = "ask" /\ pc[r] = "retrieve"
      BY <1>1, <1>10, KindsApart DEF Retrieve, StepOf
    <2>2. Serve(r, r, FALSE) \/ (pc'[r] = "generate" /\ UNCHANGED got)
      BY <1>1, <1>10 DEF Retrieve, Go
    <2>3. CASE pc'[r] = "generate" /\ UNCHANGED got
      BY <1>1, <1>2, <2>1, <2>3, KindsApart DEF StepOf, LeadsOn, CacheSteps
    <2>4. QED
      BY <1>s, <2>1, <2>2, <2>3
  <1>11. ASSUME Store(r) PROVE P
    <2>1. Kind(r) = "ask" /\ pc[r] = "generate"
      BY <1>1, <1>11, KindsApart DEF Store, StepOf
    <2>2. Serve(r, r, FALSE) \/ (pc'[r] = "put" /\ \E ver \in Version : Keep(r, "ver", ver))
      BY <1>1, <1>11 DEF Store, Go
    <2>3. CASE pc'[r] = "put" /\ \E ver \in Version : Keep(r, "ver", ver)
      <3>1. DOMAIN got'[r] = DOMAIN Nothing
        BY <1>1, <2>3, KeepDoes DEF Holds
      <3>2. QED
        BY <1>1, <1>2, <2>1, <2>3, <3>1, KindsApart DEF StepOf, LeadsOn, CacheSteps
    <2>4. QED
      BY <1>s, <2>1, <2>2, <2>3
  <1>12. Keeps(r) => P
    BY <1>1, <1>2, KeepDoes, NoteDoes, ServeDoes, EndDoes, KindsApart DEF Keeps, PutL1, Go, Holds, StepOf, LeadsOn, CacheSteps
  <1>13. StoreL2(r) => P
    BY <1>1, <1>2, KeepDoes, NoteDoes, ServeDoes, EndDoes, KindsApart DEF StoreL2, Go, Holds, StepOf, LeadsOn, CacheSteps
  <1>14. Complete(r) => P
    BY <1>1, <1>2, KeepDoes, NoteDoes, ServeDoes, EndDoes, KindsApart DEF Complete, Go, Holds, StepOf, LeadsOn, CacheSteps
  <1>15. EvictionListener(r) => P
    BY <1>1, <1>2, KeepDoes, NoteDoes, ServeDoes, EndDoes, KindsApart DEF EvictionListener, Go, Holds, StepOf, LeadsOn, CacheSteps
  <1>16. Evict(r) => P
    BY <1>1, <1>2, KeepDoes, NoteDoes, ServeDoes, EndDoes, KindsApart DEF Evict, Go, Holds, StepOf, LeadsOn, CacheSteps
  <1>17. Write(r) => P
    BY <1>1, <1>2, KeepDoes, NoteDoes, ServeDoes, EndDoes, KindsApart DEF Write, Pass, Go, Holds, StepOf, LeadsOn, CacheSteps
  <1>18. Sync(r) => P
    BY <1>1, <1>2, KeepDoes, NoteDoes, ServeDoes, EndDoes, KindsApart DEF Sync, Go, Holds, StepOf, LeadsOn, CacheSteps
  <1>19. ASSUME Index(r) PROVE P
    <2>1. CASE pc[r] = "inv"
      BY <1>1, <1>2, <1>19, <2>1, KindsApart DEF Index, Go, StepOf, LeadsOn, CacheSteps
    <2>2. CASE pc[r] = "insert"
      <3>1. DOMAIN got'[r] = DOMAIN Nothing /\ got'[r].then = got[r].then
        BY <1>1, <1>19, <2>2, KeepDoes DEF Index, Holds
      <3>2. Kind(r) \in Edits /\ got[r].then = "flag" /\ pc'[r] \in {"inv", "flag"}
        BY <1>1, <1>19, <2>2, KindsApart DEF Index, Go, StepOf, LeadsOn
      <3>3. QED
        BY <1>1, <1>2, <3>1, <3>2, KindsApart DEF StepOf, LeadsOn, CacheSteps
    <2>3. CASE pc[r] \in {"unindex", "index"}
      <3>1. got' = got /\ pc'[r] \in {"inv", "insert", got[r].then} /\ (pc[r] = "unindex" => pc'[r] \in {"inv", got[r].then})
        BY <1>1, <1>19, <2>3 DEF Index, Go
      <3>2. Kind(r) \in Edits /\ got[r].then \in {"flag", "drop"} /\ (pc[r] = "index" => got[r].then = "flag")
        BY <1>1, <2>3, KindsApart DEF StepOf, LeadsOn
      <3>3. pc'[r] \in {"inv", "insert", "flag", "drop"} /\ (pc'[r] = "insert" => got[r].then = "flag")
            /\ (pc'[r] \in {"flag", "drop"} => got[r].then = pc'[r])
        BY <2>3, <3>1, <3>2
      <3>4. QED
        BY <1>1, <1>2, <3>1, <3>2, <3>3, KindsApart DEF StepOf, LeadsOn, CacheSteps
    <2>4. QED
      BY <1>19, <2>1, <2>2, <2>3 DEF Index
  <1>20. Flag(r) => P
    BY <1>1, <1>2, KeepDoes, NoteDoes, ServeDoes, EndDoes, KindsApart DEF Flag, Go, Holds, StepOf, LeadsOn, CacheSteps
  <1>21. Drop(r) => P
    BY <1>1, <1>2, KeepDoes, NoteDoes, ServeDoes, EndDoes, KindsApart DEF Drop, Go, Holds, StepOf, LeadsOn, CacheSteps
  <1>22. InvalidateL1(r) => P
    BY <1>1, <1>2, KeepDoes, NoteDoes, ServeDoes, EndDoes, KindsApart DEF InvalidateL1, Go, Holds, StepOf, LeadsOn, CacheSteps
  <1>23. InvalidateL2(r) => P
    BY <1>1, <1>2, KeepDoes, NoteDoes, ServeDoes, EndDoes, KindsApart DEF InvalidateL2, Go, Holds, StepOf, LeadsOn, CacheSteps
  <1>24. Bump(r) => P
    BY <1>1, <1>2, KeepDoes, NoteDoes, ServeDoes, EndDoes, KindsApart DEF Bump, Go, Holds, StepOf, LeadsOn, CacheSteps
  <1>25. Sweep(r) => P
    BY <1>1, <1>2, KeepDoes, NoteDoes, ServeDoes, EndDoes, KindsApart DEF Sweep, Go, Holds, StepOf, LeadsOn, CacheSteps
  <1>26. ClearAll(r) => P
    BY <1>1, <1>2, KeepDoes, NoteDoes, ServeDoes, EndDoes, KindsApart DEF ClearAll, Go, Holds, StepOf, LeadsOn, CacheSteps
  <1> HIDE DEF P
  <1>27. P
    BY <1>3, <1>4, <1>5, <1>6, <1>7, <1>8, <1>9, <1>10, <1>11, <1>12, <1>13, <1>14, <1>15, <1>16, <1>17, <1>18, <1>19, <1>20, <1>21, <1>22, <1>23, <1>24, <1>25, <1>26 DEF OwnStep, Question, Edit
  <1>28. QED
    BY <1>27 DEF P

-----------------------------------------------------------------------------
(* Arrivals, restarts and expiries *)

\* A request arrives with something the clients ask for.
LEMMA SubmitDoes ==
    ASSUME CacheFuns, NEW r \in Req, Submit(r)
    PROVE  /\ pc[r] = "free" /\ \A q \in Req : q < r => pc[q] # "free"
           /\ \A q \in Req : q # r => pc'[q] = pc[q] /\ job'[q] = job[q]
           /\ DOMAIN pc' = Req /\ DOMAIN job' = Req
           /\ WellFormed(job'[r])
           /\ pc'[r] = CASE job'[r].kind = "purge" -> "inv" [] job'[r].kind = "sweep" -> "sweep" [] OTHER -> "start"
           /\ met' = met \cup {{r, q} : q \in InFlight}
           /\ UNCHANGED <<got, content, memory, shared, served, expired, hurt, restarts>>
  <1>1. PICK j \in UNION {area.jobs : area \in {a \in Current : r <= a.reqs}} :
            /\ job' = [job EXCEPT ![r] = j]
            /\ Go(r, CASE j.kind = "purge" -> "inv" [] j.kind = "sweep" -> "sweep" [] OTHER -> "start")
    BY DEF Submit
  <1>2. WellFormed(j)
    BY <1>1, KnowledgeCacheAssumption DEF Current
  <1>3. job'[r] = j
    BY <1>1 DEF CacheFuns
  <1>4. QED
    BY <1>1, <1>2, <1>3 DEF Submit, Go, CacheFuns

\* Where an arrival begins.
LEMMA SubmitGoes ==
    ASSUME CacheFuns, RouteInv, NEW r \in Req, Submit(r)
    PROVE  /\ Kind(r)' \in {"ask", "create", "update", "delete", "purge", "sweep", "clear"}
           /\ pc'[r] \in {"start", "inv", "sweep"}
           /\ pc'[r] = "inv" => Kind(r)' = "purge"
           /\ pc'[r] = "sweep" => Kind(r)' = "sweep"
           /\ pc'[r] = "start" => Kind(r)' \notin {"purge", "sweep"}
           /\ got'[r] = Nothing /\ Kind(r) = "none"
  <1>1. Kind(r)' \in {"ask", "create", "update", "delete", "purge", "sweep", "clear"}
    BY SubmitDoes DEF WellFormed, Kind
  <1>2. /\ Kind(r)' = "purge" => pc'[r] = "inv"
        /\ Kind(r)' = "sweep" => pc'[r] = "sweep"
        /\ Kind(r)' \notin {"purge", "sweep"} => pc'[r] = "start"
    BY SubmitDoes DEF Kind
  <1>3. got'[r] = Nothing /\ Kind(r) = "none"
    BY SubmitDoes DEF RouteInv, StepOf, LeadsOn
  <1>4. QED
    BY <1>1, <1>2, <1>3

\* Requests that are cut short, and those that are not.
LEMMA CutDoes ==
    ASSUME CacheFuns, RouteInv, NEW r \in Req
    PROVE  /\ Stores(r) \/ Sweeping(r) => CutShort(r) = "done" /\ ~LooksUp(r) /\ pc[r] \notin InvalidateSteps \cup {"done"}
           /\ LooksUp(r) => CutShort(r) = "retrieve" /\ pc[r] \notin InvalidateSteps /\ Kind(r) = "ask"
           /\ pc[r] \in InvalidateSteps => CutShort(r) = got[r].then
           /\ ~Stores(r) /\ ~Sweeping(r) /\ ~LooksUp(r) /\ pc[r] \notin InvalidateSteps => CutShort(r) = pc[r]
           /\ pc[r] \in LookupSteps \cup SharedSteps => Stores(r) \/ Sweeping(r) \/ LooksUp(r)
           /\ Stores(r) => Kind(r) = "ask"
  <1>1. StepOf(r) /\ LeadsOn(r)
    BY DEF RouteInv
  <1>2. Stores(r) \/ Sweeping(r) => ~LooksUp(r) /\ pc[r] \notin InvalidateSteps \cup {"done"}
    BY <1>1, KindsApart DEF Stores, Sweeping, LooksUp, StepOf, LeadsOn
  <1>3. LooksUp(r) => pc[r] \notin InvalidateSteps /\ Kind(r) = "ask"
    BY <1>1, KindsApart DEF LooksUp, StepOf
  <1>4. pc[r] \in LookupSteps \cup SharedSteps => Stores(r) \/ Sweeping(r) \/ LooksUp(r)
    BY <1>1, KindsApart DEF Stores, Sweeping, LooksUp, StepOf, LeadsOn
  <1>5. Stores(r) => Kind(r) = "ask"
    BY <1>1, KindsApart DEF Stores, StepOf, LeadsOn
  <1>6. /\ Stores(r) \/ Sweeping(r) => CutShort(r) = "done"
        /\ LooksUp(r) => CutShort(r) = "retrieve"
        /\ pc[r] \in InvalidateSteps => CutShort(r) = got[r].then
        /\ ~Stores(r) /\ ~Sweeping(r) /\ ~LooksUp(r) /\ pc[r] \notin InvalidateSteps => CutShort(r) = pc[r]
    BY <1>2, <1>3 DEF CutShort
  <1>7. QED
    BY <1>2, <1>3, <1>4, <1>5, <1>6

\* What a request is after a restart.
LEMMA RestartDoes ==
    ASSUME CacheFuns, RouteInv, Restart, NEW r \in Req
    PROVE  /\ pc'[r] = CutShort(r)
           /\ pc[r] \in LookupSteps \cup SharedSteps =>
                Holds(r, got[r].ver, got[r].keys, got[r].entry, got[r].row, got[r].ok, "done")
           /\ pc[r] \notin LookupSteps \cup SharedSteps => got'[r] = got[r]
           /\ served'[r] = IF Kind(r) = "ask" /\ CutShort(r) = "done" /\ pc[r] # "done" THEN r ELSE served[r]
           /\ job' = job /\ met' = met /\ expired' = expired
           /\ hurt \subseteq hurt' /\ (pc'[r] # pc[r] => r \in hurt') /\ (r \in hurt' => r \in hurt \/ pc'[r] # pc[r])
  <1>1. pc[r] \in LookupSteps \cup SharedSteps => got'[r] = [got[r] EXCEPT !.then = "done"]
    BY DEF Restart
  <1>2. DOMAIN got[r] = {"ver", "keys", "entry", "row", "ok", "then"}
    BY CacheNumbers DEF RouteInv, LeadsOn
  <1>3. pc[r] \in LookupSteps \cup SharedSteps =>
            Holds(r, got[r].ver, got[r].keys, got[r].entry, got[r].row, got[r].ok, "done")
    BY <1>1, <1>2, CacheNumbers DEF Holds
  <1>4. QED
    BY <1>3 DEF Restart

\* A restart leads where the kinds of the requests say.
LEMMA RestartGoes ==
    ASSUME CacheFuns, RouteInv, Restart, NEW r \in Req
    PROVE  StepOf(r)' /\ LeadsOn(r)' /\ (pc'[r] = "free") = (pc[r] = "free") /\ (pc[r] = "done" => pc'[r] = "done")
  <1>1. StepOf(r) /\ LeadsOn(r) /\ Kind(r)' = Kind(r) /\ WellFormed(job[r])' = WellFormed(job[r])
    BY RestartDoes DEF RouteInv, Kind, WellFormed
  <1>2. CASE pc[r] \in LookupSteps \cup SharedSteps
    <2>1. pc'[r] \in {"done", "retrieve"} /\ (pc'[r] = "retrieve" => Kind(r) = "ask")
      BY <1>2, RestartDoes, CutDoes
    <2>2. got'[r].then = "done" /\ DOMAIN got'[r] = DOMAIN Nothing
      BY <1>2, RestartDoes DEF Holds
    <2>3. QED
      BY <1>1, <1>2, <2>1, <2>2, KindsApart DEF StepOf, LeadsOn, CacheSteps
  <1>3. CASE pc[r] \notin LookupSteps \cup SharedSteps
    <2>1. got'[r] = got[r]
      BY <1>3, RestartDoes
    <2>2. CASE pc[r] \in InvalidateSteps
      <3>1. pc'[r] = got[r].then
        BY <2>2, RestartDoes, CutDoes
      <3>2. QED
        BY <1>1, <2>1, <2>2, <3>1, KindsApart DEF StepOf, LeadsOn, CacheSteps
    <2>3. CASE Stores(r) \/ Sweeping(r)
      <3>1. pc'[r] = "done"
        BY <2>3, RestartDoes, CutDoes
      <3>2. QED
        BY <1>1, <1>3, <2>1, <2>3, <3>1, KindsApart DEF StepOf, LeadsOn, CacheSteps, Stores, Sweeping
    <2>4. CASE ~Stores(r) /\ ~Sweeping(r) /\ ~LooksUp(r) /\ pc[r] \notin InvalidateSteps
      <3>1. pc'[r] = pc[r]
        BY <2>4, RestartDoes, CutDoes
      <3>2. QED
        BY <1>1, <2>1, <3>1 DEF StepOf, LeadsOn
    <2>5. LooksUp(r) => FALSE
      BY <1>3, KindsApart DEF LooksUp
    <2>6. QED
      BY <2>2, <2>3, <2>4, <2>5
  <1>4. QED
    BY <1>2, <1>3

\* An entry expires, and nobody moves.
LEMMA ExpireDoes ==
    ASSUME NEW e, Expire(e)
    PROVE  expired' = expired \cup {e} /\ UNCHANGED <<job, pc, got, content, answer, memory, shared, served, met, hurt>>
  BY DEF Expire

\* What happens is an arrival, a request's step, a restart, an expiry or nothing.
LEMMA CacheTurn ==
    ASSUME [CacheNext]_cacheVars
    PROVE  \/ \E r \in Req : Submit(r)
           \/ \E r \in Req : OwnStep(r)
           \/ Restart
           \/ \E e \in Id : Expire(e)
           \/ UNCHANGED cacheVars
  BY DEF CacheNext, OwnStep

\* Nobody arrives: who is free stays free, who is done stays done, and only who is there meets a failure.
Still ==
    /\ \A q \in Req : (pc'[q] = "free") = (pc[q] = "free") /\ (pc[q] = "done" => pc'[q] = "done")
    /\ met' = met /\ hurt \subseteq hurt' /\ hurt' \subseteq Req /\ \A q \in hurt' : q \in hurt \/ pc[q] # "free"
    /\ job' = job

\* Only an arrival changes what has been submitted and met.
LEMMA StaysStill ==
    ASSUME CacheFuns, RouteInv, ArriveInv, [CacheNext]_cacheVars
    PROVE  (\E r \in Req : Submit(r)) \/ Still
  <1>1. hurt \subseteq Req
    BY DEF ArriveInv
  <1>2. ASSUME NEW r \in Req, OwnStep(r) PROVE Still
    BY <1>1, <1>2, OwnStepAlone, OwnStepGoes DEF Still
  <1>3. ASSUME Restart PROVE Still
    <2>1. \A q \in Req : (pc'[q] = "free") = (pc[q] = "free") /\ (pc[q] = "done" => pc'[q] = "done")
      BY <1>3, RestartGoes
    <2>2. hurt' = hurt \cup {q \in Req : CutShort(q) # pc[q]} /\ met' = met /\ job' = job
      BY <1>3 DEF Restart
    <2>3. \A q \in Req : CutShort(q) # pc[q] => pc[q] # "free"
      <3>1. SUFFICES ASSUME NEW q \in Req, CutShort(q) # pc[q] PROVE pc[q] # "free"
        OBVIOUS
      <3>2. pc'[q] # pc[q]
        BY <1>3, <3>1, RestartDoes
      <3>3. QED
        BY <2>1, <3>2
    <2>4. QED
      BY <1>1, <2>1, <2>2, <2>3 DEF Still
  <1>4. ASSUME NEW e \in Id, Expire(e) PROVE Still
    BY <1>1, <1>4, ExpireDoes DEF Still
  <1>5. ASSUME UNCHANGED cacheVars PROVE Still
    BY <1>1, <1>5 DEF Still, cacheVars, history
  <1>6. QED
    BY <1>2, <1>3, <1>4, <1>5, CacheTurn

\* Requests keep to the order of their arrival.
LEMMA ArriveStep ==
    ASSUME CacheFuns, RouteInv, ArriveInv, [CacheNext]_cacheVars
    PROVE  ArriveInv'
  <1>1. ASSUME Still PROVE ArriveInv'
    <2>1. InFlight' \subseteq InFlight
      BY <1>1 DEF Still, InFlight
    <2>2. QED
      BY <1>1, <2>1 DEF Still, ArriveInv
  <1>2. ASSUME NEW r \in Req, Submit(r) PROVE ArriveInv'
    <2>1. /\ pc[r] = "free" /\ \A q \in Req : q < r => pc[q] # "free"
          /\ \A q \in Req : q # r => pc'[q] = pc[q]
          /\ pc'[r] \notin {"free", "done"}
          /\ met' = met \cup {{r, q} : q \in InFlight} /\ hurt' = hurt
      BY <1>2, SubmitDoes, SubmitGoes DEF memory
    <2>2. InFlight' = InFlight \cup {r} /\ r \notin InFlight
      BY <2>1 DEF InFlight
    <2>3. \A p, q \in Req : {p, q} \in met' <=> {p, q} \in met \/ (p = r /\ q \in InFlight) \/ (q = r /\ p \in InFlight)
      <3>1. \A p, q, x : {p, q} = {r, x} <=> (p = r /\ q = x) \/ (q = r /\ p = x)
        OBVIOUS
      <3>2. QED
        BY <2>1, <3>1
    <2>4. \A q \in Req : q > r => pc[q] = "free"
      BY <2>1, CacheNumbers DEF ArriveInv
    <2>5. \A q \in Req : pc[q] # "free" => {q, r} \notin met
      BY <2>1 DEF ArriveInv
    <2>6. \A p, q \in Req : p < q /\ pc'[q] # "free" => pc'[p] # "free"
      BY <2>1, <2>4, CacheNumbers DEF ArriveInv
    <2>7. \A p, q \in InFlight' : p # q => {p, q} \in met'
      BY <2>2, <2>3 DEF ArriveInv, InFlight
    <2>8. \A p, q \in Req : p < q /\ pc'[q] # "free" /\ {p, q} \notin met' => pc'[p] = "done"
      <3>1. SUFFICES ASSUME NEW p \in Req, NEW q \in Req, p < q, pc'[q] # "free", {p, q} \notin met'
                     PROVE  pc'[p] = "done"
        OBVIOUS
      <3>2. p # r
        BY <2>1, <2>4, <3>1, CacheNumbers
      <3>3. CASE q = r
        BY <2>1, <2>3, <3>1, <3>2, <3>3, CacheNumbers DEF InFlight
      <3>4. CASE q # r
        BY <2>1, <2>3, <3>1, <3>2, <3>4 DEF ArriveInv
      <3>5. QED
        BY <3>3, <3>4
    <2>9. \A p, q \in Req : {p, q} \in met' => pc'[p] # "free" /\ pc'[q] # "free" /\ p # q
      <3>1. SUFFICES ASSUME NEW p \in Req, NEW q \in Req, {p, q} \in met'
                     PROVE  pc'[p] # "free" /\ pc'[q] # "free" /\ p # q
        OBVIOUS
      <3>2. CASE {p, q} \in met
        BY <2>1, <3>1, <3>2 DEF ArriveInv
      <3>3. CASE {p, q} \notin met
        BY <2>1, <2>2, <2>3, <3>1, <3>3 DEF InFlight
      <3>4. QED
        BY <3>2, <3>3
    <2>10. \A p, e, q \in Req : p < e /\ e < q /\ pc'[e] # "free" /\ {p, e} \notin met' => {p, q} \notin met'
      <3>1. SUFFICES ASSUME NEW p \in Req, NEW e \in Req, NEW q \in Req, p < e, e < q, pc'[e] # "free", {p, e} \notin met'
                     PROVE  {p, q} \notin met'
        OBVIOUS
      <3>2. p < q /\ {p, e} \notin met
        BY <2>1, <3>1, CacheNumbers
      <3>3. CASE e = r
        <4>1. pc[q] = "free" /\ q # r
          BY <2>4, <3>1, <3>3, CacheNumbers
        <4>2. {p, q} \notin met /\ q \notin InFlight
          BY <4>1 DEF ArriveInv, InFlight
        <4>3. p # r
          BY <3>1, <3>3, CacheNumbers
        <4>4. QED
          BY <2>3, <4>1, <4>2, <4>3
      <3>4. CASE e # r
        <4>1. pc[e] # "free" /\ pc[p] = "done" /\ p # r
          BY <2>1, <3>1, <3>2, <3>4 DEF ArriveInv
        <4>2. {p, q} \notin met /\ p \notin InFlight
          BY <3>1, <3>2, <4>1 DEF ArriveInv, InFlight
        <4>3. QED
          BY <2>3, <4>1, <4>2
      <3>5. QED
        BY <3>3, <3>4
    <2>11. hurt' \subseteq Req /\ \A q \in hurt' : pc'[q] # "free"
      BY <2>1 DEF ArriveInv
    <2>12. QED
      BY <2>6, <2>7, <2>8, <2>9, <2>10, <2>11 DEF ArriveInv
  <1>3. QED
    BY <1>1, <1>2, StaysStill

\* Requests keep to the ways of their kinds.
LEMMA RouteStep ==
    ASSUME CacheFuns, RouteInv, [CacheNext]_cacheVars
    PROVE  RouteInv'
  <1>1. ASSUME NEW r \in Req, Submit(r) PROVE RouteInv'
    <2>1. \A q \in Req : q # r => pc'[q] = pc[q] /\ job'[q] = job[q] /\ got'[q] = got[q]
      BY <1>1, SubmitDoes
    <2>2. \A q \in Req : q # r => StepOf(q)' /\ LeadsOn(q)'
      BY <2>1 DEF RouteInv, StepOf, LeadsOn, Kind, WellFormed
    <2>3. StepOf(r)'
      BY <1>1, SubmitDoes, SubmitGoes, KindsApart DEF StepOf, CacheSteps
    <2>4. LeadsOn(r)'
      <3>1. got'[r] = Nothing /\ Nothing.then = "done" /\ pc'[r] \in {"start", "inv", "sweep"}
            /\ (pc'[r] = "inv" => Kind(r)' = "purge")
        BY <1>1, SubmitGoes DEF Nothing
      <3>2. QED
        BY <3>1, KindsApart DEF LeadsOn
    <2>5. QED
      BY <2>2, <2>3, <2>4 DEF RouteInv
  <1>2. ASSUME NEW r \in Req, OwnStep(r) PROVE RouteInv'
    <2>1. \A q \in Req : q # r => pc'[q] = pc[q] /\ job'[q] = job[q] /\ got'[q] = got[q]
      BY <1>2, OwnStepAlone
    <2>2. \A q \in Req : q # r => StepOf(q)' /\ LeadsOn(q)'
      BY <2>1 DEF RouteInv, StepOf, LeadsOn, Kind, WellFormed
    <2>3. QED
      BY <1>2, <2>2, OwnStepGoes DEF RouteInv
  <1>3. ASSUME Restart PROVE RouteInv'
    BY <1>3, RestartGoes DEF RouteInv
  <1>4. ASSUME UNCHANGED <<job, pc, got>> PROVE RouteInv'
    BY <1>4 DEF RouteInv, StepOf, LeadsOn, Kind, WellFormed
  <1>5. QED
    BY <1>1, <1>2, <1>3, <1>4, CacheTurn, ExpireDoes DEF cacheVars

-----------------------------------------------------------------------------
(* What lasts *)

\* Of two requests in flight each has met the other.
LEMMA BothMet ==
    ASSUME ArriveInv, NEW q \in Req, NEW r \in Req, q # r, pc[q] \notin {"free", "done"}, pc[r] \notin {"free", "done"}
    PROVE  {q, r} \in met /\ {r, q} \in met
  BY DEF ArriveInv, InFlight

\* Who had ended before another came has ended, and has not met those who came later still.
LEMMA EndedFirst ==
    ASSUME ArriveInv, NEW q \in Req, NEW r \in Req, Before(q, r), pc[r] # "free"
    PROVE  pc[q] = "done" /\ q # r /\ \A t \in Req : r < t => {q, t} \notin met
  BY CacheNumbers DEF ArriveInv, Before

\* What has come stays, and so do failures and meetings.
LEMMA Lasts ==
    ASSUME CacheFuns, RouteInv, ArriveInv, [CacheNext]_cacheVars
    PROVE  /\ \A q \in Req : pc[q] # "free" => pc'[q] # "free" /\ job'[q] = job[q] /\ Kind(q)' = Kind(q)
           /\ met \subseteq met' /\ hurt \subseteq hurt' /\ hurt' \subseteq Req /\ expired \subseteq expired'
           /\ \A s : Known(s) => Known(s)'
           /\ \A q, r : Before(q, r)' => Before(q, r)
  <1>1. ASSUME NEW r \in Req, Submit(r)
        PROVE  /\ \A q \in Req : pc[q] # "free" => pc'[q] # "free" /\ job'[q] = job[q]
               /\ met \subseteq met' /\ hurt' = hurt /\ expired \subseteq expired'
    BY <1>1, SubmitDoes DEF history
  <1>2. ASSUME Still
        PROVE  /\ \A q \in Req : pc[q] # "free" => pc'[q] # "free" /\ job'[q] = job[q]
               /\ met \subseteq met' /\ hurt \subseteq hurt' /\ hurt' \subseteq Req
    BY <1>2 DEF Still
  <1>3. (\E r \in Req : Submit(r)) \/ expired \subseteq expired'
    BY CacheTurn, OwnStepAlone, RestartDoes, ExpireDoes DEF cacheVars, history, Restart
  <1>4. /\ \A q \in Req : pc[q] # "free" => pc'[q] # "free" /\ job'[q] = job[q]
        /\ met \subseteq met' /\ hurt \subseteq hurt' /\ hurt' \subseteq Req /\ expired \subseteq expired'
    BY <1>1, <1>2, <1>3, StaysStill DEF ArriveInv
  <1>5. QED
    BY <1>4 DEF Known, Before, Kind

\* An excuse stays one.
LEMMA ExcusesLast ==
    ASSUME CacheFuns, RouteInv, ArriveInv, [CacheNext]_cacheVars, NEW s
    PROVE  (Excused(s) => Excused(s)') /\ (Blurred(s) => Blurred(s)')
  <1>1. ASSUME Excused(s) PROVE Excused(s)'
    <2>1. PICK f \in hurt : Kind(f) \in Edits /\ ~Before(s, f)
      BY <1>1 DEF Excused
    <2>2. f \in hurt' /\ Kind(f)' = Kind(f) /\ ~Before(s, f)'
      BY <2>1, Lasts DEF ArriveInv
    <2>3. QED
      BY <2>1, <2>2 DEF Excused, Edits
  <1>2. ASSUME Blurred(s) PROVE Blurred(s)'
    <2>1. PICK a, b \in Req : a # b /\ {a, b} \in met /\ Kind(a) = "ask" /\ ~(Before(a, s) /\ Before(b, s))
      BY <1>2 DEF Blurred
    <2>2. {a, b} \in met' /\ Kind(a)' = Kind(a) /\ ~(Before(a, s)' /\ Before(b, s)')
      BY <2>1, Lasts DEF ArriveInv
    <2>3. QED
      BY <2>1, <2>2 DEF Blurred
  <1>3. QED
    BY <1>1, <1>2

\* The key of a question.
LEMMA KeyFacts ==
    ASSUME RouteInv, AskInv, NEW r \in Req, Kind(r) = "ask"
    PROVE  KeyOf(r) \in CacheKey /\ KeyOf(r)[2] = got[r].ver /\ got[r].ver \in Nat
  <1>1. On(r) \in Query
    BY DEF RouteInv, StepOf, WellFormed, Kind, On
  <1>2. got[r].ver \in Version
    BY DEF AskInv
  <1>3. QED
    BY <1>1, <1>2, CacheNumbers DEF KeyOf, CacheKey, Version

-----------------------------------------------------------------------------
(* A question, case by case *)

\* The version is read, or the call fails.
LEMMA AskCases ==
    ASSUME RouteInv, NEW r \in Req, Ask(r)
    PROVE  /\ pc[r] = "start" /\ Kind(r) = "ask" /\ UNCHANGED <<content, answer, memory, shared, served>>
           /\ \/ \E ver \in Version : ReadVersion(r, ver) /\ Keep(r, "ver", ver) /\ pc' = [pc EXCEPT ![r] = "exact"]
              \/ /\ pc' = [pc EXCEPT ![r] = "retrieve"] /\ hurt' = hurt \cup {r}
                 /\ \E how \in {"done", "uncached"} : Keep(r, "then", how)
  BY DEF Ask, Go, Hurts

\* A hit of L1, or an entry that has expired.
LEMMA ExactCases ==
    ASSUME RouteInv, NEW r \in Req, ExactInL1(r)
    PROVE  /\ pc[r] = "exact" /\ Kind(r) = "ask" /\ l1[KeyOf(r)] # NoEntry
           /\ UNCHANGED <<content, answer, l1, lsh, keysByOrg, bloom, local, lease, shared, history>>
           /\ \/ Serve(r, l1[KeyOf(r)], FALSE)
              \/ pc' = [pc EXCEPT ![r] = "evict"] /\ Note(r, {KeyOf(r)}, "semantic") /\ served' = served
  <1>1. StepOf(r)
    BY DEF RouteInv
  <1>2. pc[r] = "exact" /\ Kind(r) = "ask"
    BY <1>1, KindsApart DEF ExactInL1, StepOf
  <1>3. QED
    BY <1>2 DEF ExactInL1, Go

\* The entry is put, and the hit answered.
LEMMA PromoteCases ==
    ASSUME RouteInv, NEW r \in Req, Promote(r)
    PROVE  /\ Kind(r) = "ask"
           /\ \/ pc[r] = "promote" /\ PutL1(r, KeyOf(r), got[r].entry, "hit")
              \/ /\ pc[r] = "hit" /\ Track(KeyOf(r)) /\ Serve(r, got[r].entry, FALSE)
                 /\ UNCHANGED <<content, answer, l1, bloom, local, lease, shared, history>>
  <1>1. StepOf(r)
    BY DEF RouteInv
  <1>2. pc[r] \in {"promote", "hit"}
    BY DEF Promote
  <1>3. QED
    BY <1>1, <1>2, KindsApart DEF Promote, StepOf

\* A paraphrase answers, or what has expired is evicted, or neither.
LEMMA SemanticCases ==
    ASSUME CacheFuns, RouteInv, NEW r \in Req, SemanticLookup(r)
    PROVE  /\ pc[r] = "semantic" /\ Kind(r) = "ask"
           /\ UNCHANGED <<content, answer, l1, lsh, keysByOrg, bloom, local, lease, shared, history>>
           /\ \/ \E k \in CacheKey : Fresh(k) /\ k[2] = got[r].ver /\ Serve(r, l1[k], FALSE)
              \/ pc' = [pc EXCEPT ![r] = "evict"] /\ Note(r, {k \in lsh : l1[k] \in expired}, "miss") /\ served' = served
              \/ pc' = [pc EXCEPT ![r] = "miss"] /\ got' = got /\ served' = served
  <1>1. StepOf(r)
    BY DEF RouteInv
  <1>2. pc[r] = "semantic" /\ Kind(r) = "ask"
    BY <1>1, KindsApart DEF SemanticLookup, StepOf
  <1>3. QED
    BY <1>2 DEF SemanticLookup, Go, CacheFuns

\* Nothing is found, or generation begins.
LEMMA RetrieveCases ==
    ASSUME RouteInv, NEW r \in Req, Retrieve(r)
    PROVE  /\ pc[r] = "retrieve" /\ Kind(r) = "ask"
           /\ UNCHANGED <<content, l1, lsh, keysByOrg, bloom, local, shared, history>>
           /\ \/ Serve(r, r, FALSE) /\ GivesUp(r)
              \/ pc' = [pc EXCEPT ![r] = "generate"] /\ UNCHANGED <<served, lease, got>>
  <1>1. StepOf(r)
    BY DEF RouteInv
  <1>2. pc[r] = "retrieve" /\ Kind(r) = "ask"
    BY <1>1, KindsApart DEF Retrieve, StepOf
  <1>3. QED
    BY <1>2 DEF Retrieve, Go

\* The version is read again, or nothing is stored.
LEMMA StoreCases ==
    ASSUME RouteInv, NEW r \in Req, Store(r)
    PROVE  /\ pc[r] = "generate" /\ Kind(r) = "ask"
           /\ UNCHANGED <<content, answer, l1, lsh, keysByOrg, bloom, local, shared>>
           /\ \/ /\ \E ver \in Version : ReadVersion(r, ver) /\ Keep(r, "ver", ver)
                 /\ pc' = [pc EXCEPT ![r] = "put"] /\ UNCHANGED <<served, lease>>
              \/ hurt' = hurt \cup {r} /\ Serve(r, r, FALSE) /\ GivesUp(r)
  <1>1. StepOf(r)
    BY DEF RouteInv
  <1>2. pc[r] = "generate" /\ Kind(r) = "ask"
    BY <1>1, KindsApart DEF Store, StepOf
  <1>3. QED
    BY <1>2 DEF Store, Go, Hurts

\* An entry is put into L1, and another may have to go.
LEMMA PutCases ==
    ASSUME NEW r \in Req, NEW k, NEW e, NEW step, PutL1(r, k, e, step)
    PROVE  /\ Note(r, Victim(k), step) /\ UNCHANGED <<content, answer, lsh, keysByOrg, bloom, local, lease, shared, served, history>>
           /\ pc' = [pc EXCEPT ![r] = step] \/ pc' = [pc EXCEPT ![r] = "victim"]
           /\ l1' = [x \in CacheKey |-> IF x = k THEN e ELSE IF x \in Victim(k) THEN NoEntry ELSE l1[x]]
  BY DEF PutL1, Go, Put

-----------------------------------------------------------------------------
(* Versions *)

\* A version is read, from Redis or from what the process remembers.
Reads(r) ==
    /\ UNCHANGED <<version, local>> /\ Kind(r) = "ask" /\ got'[r].ver \in Version
    /\ \/ pc[r] = "start" /\ pc'[r] = "exact"
       \/ pc[r] = "generate" /\ pc'[r] = "put"
    /\ \/ got'[r].ver = (IF version > 0 THEN version ELSE local) /\ hurt' = hurt
       \/ got'[r].ver = local /\ r \in hurt'
\* The version is raised, in Redis or in the process only.
Raises(r) ==
    /\ pc[r] = "bump" /\ pc'[r] = got[r].then /\ Kind(r) \in Edits /\ got'[r].ver = local'
    /\ \/ version' = version + 1 /\ local' = version + 1 /\ hurt' = hurt
       \/ version' = version /\ local' = local + 1 /\ hurt' = hurt \cup {r}
\* Or neither.
LetsBe(r) ==
    /\ UNCHANGED <<version, local>>
    /\ got'[r].ver = got[r].ver \/ (got'[r].ver = 0 /\ Kind(r) = "ask" /\ pc'[r] = "done")
    /\ (LooksUp(r)' => LooksUp(r)) /\ (Stores(r)' => Stores(r))
    /\ LooksUp(r) /\ LooksUp(r)' => got'[r].ver = got[r].ver
    /\ Stores(r) /\ Stores(r)' => got'[r].ver = got[r].ver

\* What a request's step means for the version in Redis, in the process and in its own key.
LEMMA VersionMoves ==
    ASSUME CacheFuns, RouteInv, NEW r \in Req, OwnStep(r)
    PROVE  Reads(r) \/ Raises(r) \/ LetsBe(r)
  <1> DEFINE P == Reads(r) \/ Raises(r) \/ LetsBe(r)
  <1>1. /\ StepOf(r) /\ LeadsOn(r) /\ DOMAIN got[r] = DOMAIN Nothing /\ Kind(r)' = Kind(r)
        /\ DOMAIN pc = Req /\ DOMAIN got = Req /\ DOMAIN Nothing = {"ver", "keys", "entry", "row", "ok", "then"}
    BY OwnStepAlone, CacheNumbers DEF RouteInv, LeadsOn, CacheFuns, Kind
  <1>s. ASSUME NEW e, NEW kept, Serve(r, e, kept), Kind(r) = "ask", UNCHANGED <<version, local>> PROVE P
    <2>1. got'[r].ver = 0 /\ pc'[r] = "done" /\ got'[r].then = "done"
      BY <1>s, ServeDoes DEF Holds
    <2>2. QED
      BY <1>s, <2>1, KindsApart DEF LetsBe, LooksUp, Stores
  <1>l. ASSUME UNCHANGED <<version, local>>, got'[r].ver = got[r].ver,
               \/ pc'[r] \in LookupSteps /\ LooksUp(r)
               \/ pc'[r] \in SharedSteps /\ got'[r].then \notin StoreSteps /\ (LooksUp(r) \/ Kind(r) # "ask")
               \/ pc'[r] \in StoreSteps /\ Stores(r)
               \/ pc'[r] \in SharedSteps /\ got'[r].then \in StoreSteps /\ Stores(r)
               \/ pc'[r] \notin LookupSteps \cup SharedSteps \cup StoreSteps
        PROVE  P
    BY <1>1, <1>l, KindsApart DEF LetsBe, LooksUp, Stores
  <1>n. ASSUME NEW ks, NEW to, Note(r, ks, to), UNCHANGED <<version, local>>,
               \/ pc'[r] \in {"victim", "evict"} \cup LookupSteps /\ to \notin StoreSteps /\ LooksUp(r)
               \/ pc'[r] \in {"victim"} \cup StoreSteps /\ to \in StoreSteps /\ Stores(r)
        PROVE  P
    <2>1. got'[r].ver = got[r].ver /\ got'[r].then = to
      BY <1>1, <1>n, NoteDoes DEF Holds
    <2>2. QED
      BY <1>l, <1>n, <2>1, KindsApart
  <1>v. ASSUME NEW ver \in Version, ReadVersion(r, ver), Keep(r, "ver", ver), UNCHANGED <<version, local>>, Kind(r) = "ask",
               \/ pc[r] = "start" /\ pc'[r] = "exact"
               \/ pc[r] = "generate" /\ pc'[r] = "put"
        PROVE  P
    <2>1. got'[r].ver = ver
      BY <1>1, <1>v, KeepDoes DEF Holds
    <2>2. \/ ver = (IF version > 0 THEN version ELSE local) /\ hurt' = hurt
          \/ ver = local /\ r \in hurt'
      BY <1>v DEF ReadVersion, Hurts, history
    <2>3. QED
      BY <1>v, <2>1, <2>2 DEF Reads
  <1>2. ASSUME Ask(r) PROVE P
    <2>1. pc[r] = "start" /\ Kind(r) = "ask" /\ UNCHANGED <<version, local>>
      BY <1>2, AskCases DEF memory, shared
    <2>2. CASE pc' = [pc EXCEPT ![r] = "retrieve"] /\ \E how \in {"done", "uncached"} : Keep(r, "then", how)
      <3>1. got'[r].ver = got[r].ver /\ pc'[r] = "retrieve"
        BY <1>1, <2>2, KeepDoes DEF Holds
      <3>2. QED
        BY <1>l, <2>1, <3>1, KindsApart
    <2>3. CASE \E ver \in Version : ReadVersion(r, ver) /\ Keep(r, "ver", ver) /\ pc' = [pc EXCEPT ![r] = "exact"]
      BY <1>1, <1>v, <2>1, <2>3
    <2>4. QED
      BY <1>2, <2>2, <2>3, AskCases
  <1>3. ASSUME ExactInL1(r) PROVE P
    <2>1. pc[r] = "exact" /\ Kind(r) = "ask" /\ UNCHANGED <<version, local>> /\ LooksUp(r)
      BY <1>3, ExactCases, KindsApart DEF shared, LooksUp
    <2>2. CASE Serve(r, l1[KeyOf(r)], FALSE)
      BY <1>s, <2>1, <2>2
    <2>3. CASE pc' = [pc EXCEPT ![r] = "evict"] /\ Note(r, {KeyOf(r)}, "semantic")
      BY <1>1, <1>n, <2>1, <2>3, KindsApart
    <2>4. QED
      BY <1>3, <2>2, <2>3, ExactCases
  <1>4. ExactInL2(r) => P
    BY <1>1, <1>s, <1>l, KeepDoes, NoteDoes, EndDoes, KindsApart DEF ExactInL2, Hurts, Go, Holds, StepOf, LeadsOn, LooksUp, Stores, Reads, Raises, shared, memory
  <1>5. ASSUME Promote(r) PROVE P
    <2>1. Kind(r) = "ask"
      BY <1>5, PromoteCases
    <2>2. CASE pc[r] = "promote" /\ PutL1(r, KeyOf(r), got[r].entry, "hit")
      <3>1. /\ pc'[r] \in {"victim", "hit"} /\ Note(r, Victim(KeyOf(r)), "hit") /\ UNCHANGED <<version, local>> /\ LooksUp(r)
        BY <1>1, <2>2, PutCases, KindsApart DEF shared, LooksUp
      <3>2. QED
        BY <1>n, <3>1, KindsApart
    <2>3. CASE Serve(r, got[r].entry, FALSE) /\ UNCHANGED <<local, shared>>
      BY <1>s, <2>1, <2>3 DEF shared
    <2>4. QED
      BY <1>5, <2>2, <2>3, PromoteCases
  <1>6. ASSUME SemanticLookup(r) PROVE P
    <2>1. pc[r] = "semantic" /\ Kind(r) = "ask" /\ UNCHANGED <<version, local>> /\ LooksUp(r)
      BY <1>6, SemanticCases, KindsApart DEF shared, LooksUp
    <2>2. CASE \E k \in CacheKey : Serve(r, l1[k], FALSE)
      BY <1>s, <2>1, <2>2
    <2>3. CASE pc' = [pc EXCEPT ![r] = "evict"] /\ \E old : Note(r, old, "miss")
      BY <1>1, <1>n, <2>1, <2>3, KindsApart
    <2>4. CASE pc' = [pc EXCEPT ![r] = "miss"] /\ got' = got
      BY <1>1, <1>l, <2>1, <2>4, KindsApart
    <2>5. QED
      BY <1>6, <2>2, <2>3, <2>4, SemanticCases
  <1>7. OnMiss(r) => P
    BY <1>1, <1>s, <1>l, KeepDoes, NoteDoes, EndDoes, KindsApart DEF OnMiss, Go, Holds, StepOf, LeadsOn, LooksUp, Stores, Reads, Raises, shared, memory
  <1>8. Waited(r) => P
    BY <1>1, <1>s, <1>l, KeepDoes, NoteDoes, EndDoes, KindsApart DEF Waited, Go, Holds, StepOf, LeadsOn, LooksUp, Stores, Reads, Raises, shared, memory
  <1>9. ASSUME Retrieve(r) PROVE P
    <2>1. Kind(r) = "ask" /\ UNCHANGED <<version, local>>
      BY <1>9, RetrieveCases DEF shared
    <2>2. CASE Serve(r, r, FALSE)
      BY <1>s, <2>1, <2>2
    <2>3. CASE pc' = [pc EXCEPT ![r] = "generate"] /\ got' = got
      BY <1>1, <1>l, <2>1, <2>3, KindsApart
    <2>4. QED
      BY <1>9, <2>2, <2>3, RetrieveCases
  <1>10. ASSUME Store(r) PROVE P
    <2>1. pc[r] = "generate" /\ Kind(r) = "ask" /\ UNCHANGED <<version, local>>
      BY <1>10, StoreCases DEF shared
    <2>2. CASE Serve(r, r, FALSE)
      BY <1>s, <2>1, <2>2
    <2>3. CASE pc' = [pc EXCEPT ![r] = "put"] /\ \E ver \in Version : ReadVersion(r, ver) /\ Keep(r, "ver", ver)
      BY <1>1, <1>v, <2>1, <2>3
    <2>4. QED
      BY <1>10, <2>2, <2>3, StoreCases
  <1>11. ASSUME Keeps(r) PROVE P
    <2>1. CASE pc[r] = "put" /\ PutL1(r, KeyOf(r), r, "track")
      <3>1. pc'[r] \in {"victim", "track"} /\ Note(r, Victim(KeyOf(r)), "track") /\ UNCHANGED <<version, local>> /\ Stores(r)
        BY <1>1, <2>1, PutCases, KindsApart DEF shared, Stores
      <3>2. QED
        BY <1>n, <3>1, KindsApart
    <2>2. CASE pc[r] = "track" /\ pc' = [pc EXCEPT ![r] = "l2"] /\ UNCHANGED <<got, local, shared>>
      <3>1. pc'[r] = "l2" /\ got'[r].ver = got[r].ver /\ UNCHANGED <<version, local>> /\ Stores(r)
        BY <1>1, <2>2, KindsApart DEF shared, Stores
      <3>2. QED
        BY <1>l, <3>1, KindsApart
    <2>3. QED
      BY <1>11, <2>1, <2>2 DEF Keeps, Go
  <1>12. StoreL2(r) => P
    BY <1>1, <1>s, <1>l, KeepDoes, NoteDoes, EndDoes, KindsApart DEF StoreL2, Go, Holds, StepOf, LeadsOn, LooksUp, Stores, Reads, Raises, shared, memory
  <1>13. Complete(r) => P
    BY <1>1, <1>s, <1>l, KeepDoes, NoteDoes, EndDoes, KindsApart DEF Complete, Go, Holds, StepOf, LeadsOn, LooksUp, Stores, Reads, Raises, shared, memory
  <1>14. EvictionListener(r) => P
    BY <1>1, <1>s, <1>l, KeepDoes, NoteDoes, EndDoes, KindsApart DEF EvictionListener, Go, Holds, StepOf, LeadsOn, LooksUp, Stores, Reads, Raises, shared, memory
  <1>15. Evict(r) => P
    BY <1>1, <1>s, <1>l, KeepDoes, NoteDoes, EndDoes, KindsApart DEF Evict, Go, Holds, StepOf, LeadsOn, LooksUp, Stores, Reads, Raises, shared, memory
  <1>16. Write(r) => P
    BY <1>1, <1>s, <1>l, KeepDoes, NoteDoes, EndDoes, KindsApart DEF Write, Pass, Go, Holds, StepOf, LeadsOn, LooksUp, Stores, Reads, Raises, shared, memory
  <1>17. Sync(r) => P
    BY <1>1, <1>s, <1>l, KeepDoes, NoteDoes, EndDoes, KindsApart DEF Sync, Go, Holds, StepOf, LeadsOn, LooksUp, Stores, Reads, Raises, shared, memory
  <1>18. Index(r) => P
    BY <1>1, <1>s, <1>l, KeepDoes, NoteDoes, EndDoes, KindsApart DEF Index, Go, Holds, StepOf, LeadsOn, LooksUp, Stores, Reads, Raises, shared, memory
  <1>19. Flag(r) => P
    BY <1>1, <1>s, <1>l, KeepDoes, NoteDoes, EndDoes, KindsApart DEF Flag, Go, Holds, StepOf, LeadsOn, LooksUp, Stores, Reads, Raises, shared, memory
  <1>20. Drop(r) => P
    BY <1>1, <1>s, <1>l, KeepDoes, NoteDoes, EndDoes, KindsApart DEF Drop, Go, Holds, StepOf, LeadsOn, LooksUp, Stores, Reads, Raises, shared, memory
  <1>21. InvalidateL1(r) => P
    BY <1>1, <1>s, <1>l, KeepDoes, NoteDoes, EndDoes, KindsApart DEF InvalidateL1, Go, Holds, StepOf, LeadsOn, LooksUp, Stores, Reads, Raises, shared, memory
  <1>22. InvalidateL2(r) => P
    BY <1>1, <1>s, <1>l, KeepDoes, NoteDoes, EndDoes, KindsApart DEF InvalidateL2, Go, Holds, StepOf, LeadsOn, LooksUp, Stores, Reads, Raises, shared, memory
  <1>23. ASSUME Bump(r) PROVE P
    <2>1. pc[r] = "bump" /\ Kind(r) \in Edits /\ pc'[r] = got[r].then
      BY <1>1, <1>23, KindsApart DEF Bump, Go, StepOf
    <2>2. got'[r].ver = local'
      BY <1>1, <1>23, KeepDoes DEF Bump, Holds
    <2>3. \/ version' = version + 1 /\ local' = version + 1 /\ hurt' = hurt
          \/ version' = version /\ local' = local + 1 /\ hurt' = hurt \cup {r}
      BY <1>23 DEF Bump, Hurts, history
    <2>4. QED
      BY <2>1, <2>2, <2>3 DEF Raises
  <1>24. Sweep(r) => P
    BY <1>1, <1>s, <1>l, KeepDoes, NoteDoes, EndDoes, KindsApart DEF Sweep, Go, Holds, StepOf, LeadsOn, LooksUp, Stores, Reads, Raises, shared, memory
  <1>25. ClearAll(r) => P
    BY <1>1, <1>s, <1>l, KeepDoes, NoteDoes, EndDoes, KindsApart DEF ClearAll, Go, Holds, StepOf, LeadsOn, LooksUp, Stores, Reads, Raises, shared, memory
  <1> HIDE DEF P
  <1>26. P
    BY <1>2, <1>3, <1>4, <1>5, <1>6, <1>7, <1>8, <1>9, <1>10, <1>11, <1>12, <1>13, <1>14, <1>15, <1>16, <1>17, <1>18, <1>19, <1>20, <1>21, <1>22, <1>23, <1>24, <1>25 DEF OwnStep, Question, Edit
  <1>27. QED
    BY <1>26 DEF P

-----------------------------------------------------------------------------
(* What a request's step does to the entries *)

\* Entries and leases go, or come from who puts them there.
EntryWalk(r) ==
    /\ DOMAIN l1' = CacheKey /\ DOMAIN redis' = CacheKey /\ DOMAIN lease' = CacheKey
    /\ \A k \in CacheKey : l1'[k] # NoEntry =>
        \/ l1'[k] = l1[k]
        \/ k = KeyOf(r) /\ pc[r] = "promote" /\ l1'[k] = got[r].entry
        \/ k = KeyOf(r) /\ pc[r] = "put" /\ l1'[k] = r
    /\ \A k \in CacheKey : redis'[k] # NoEntry =>
        \/ redis'[k] = redis[k]
        \/ k = KeyOf(r) /\ pc[r] = "l2" /\ pc'[r] = "l2index" /\ got'[r] = got[r] /\ redis'[k] = r
    /\ \A k \in CacheKey : lease'[k] # NoEntry =>
        \/ lease'[k] = lease[k] /\ (lease[k] = r /\ Owns(r) => Owns(r)')
        \/ lease'[k] = r /\ Owns(r)'

\* A request's step moves entries this way only.
LEMMA EntryMoves ==
    ASSUME CacheFuns, RouteInv, NEW r \in Req, OwnStep(r)
    PROVE  EntryWalk(r)
  <1> DEFINE P == EntryWalk(r)
  <1>1. /\ StepOf(r) /\ LeadsOn(r) /\ DOMAIN got[r] = DOMAIN Nothing /\ Kind(r)' = Kind(r)
        /\ DOMAIN pc = Req /\ DOMAIN got = Req /\ DOMAIN l1 = CacheKey /\ DOMAIN redis = CacheKey /\ DOMAIN lease = CacheKey
        /\ r # NoEntry
    BY OwnStepAlone, CacheNumbers DEF RouteInv, LeadsOn, CacheFuns, Kind
  \* Nothing moves.
  <1>u. ASSUME UNCHANGED <<l1, redis, lease>>, ~Owns(r) \/ Owns(r)' PROVE P
    BY <1>1, <1>u DEF EntryWalk
  <1>g. ASSUME UNCHANGED <<l1, redis>>, GivesUp(r) PROVE P
    BY <1>1, <1>g DEF EntryWalk, GivesUp
  <1>l. ASSUME UNCHANGED <<redis, lease>>, ~Owns(r) \/ Owns(r)',
               NEW keys, l1' = [x \in CacheKey |-> IF x \in keys THEN NoEntry ELSE l1[x]]
        PROVE  P
    BY <1>1, <1>l DEF EntryWalk
  <1>2. ASSUME Ask(r) PROVE P
    BY <1>2, <1>u, AskCases, KindsApart DEF Owns, memory, shared
  <1>3. ASSUME ExactInL1(r) PROVE P
    BY <1>3, <1>u, ExactCases, KindsApart DEF Owns, shared
  <1>4. ASSUME ExactInL2(r) PROVE P
    BY <1>4, <1>u, KindsApart DEF Owns, memory, shared, ExactInL2
  <1>5. ASSUME Promote(r) PROVE P
    <2>1. CASE pc[r] = "promote" /\ PutL1(r, KeyOf(r), got[r].entry, "hit")
      BY <1>1, <2>1, PutCases, KindsApart DEF EntryWalk, Owns, shared
    <2>2. CASE pc[r] = "hit" /\ UNCHANGED <<l1, lease, shared>>
      BY <1>u, <2>2, KindsApart DEF Owns, shared
    <2>3. QED
      BY <1>5, <2>1, <2>2, PromoteCases
  <1>6. ASSUME SemanticLookup(r) PROVE P
    BY <1>6, <1>u, SemanticCases, KindsApart DEF Owns, shared
  <1>7. ASSUME OnMiss(r) PROVE P
    <2>1. CASE lease' = [lease EXCEPT ![KeyOf(r)] = r] /\ pc'[r] = "retrieve" /\ UNCHANGED <<l1, redis>>
      BY <1>1, <2>1 DEF EntryWalk, Owns
    <2>2. CASE pc[r] = "miss" /\ UNCHANGED <<lease, l1, redis>>
      BY <1>u, <2>2, KindsApart DEF Owns
    <2>3. QED
      BY <1>1, <1>7, <2>1, <2>2 DEF OnMiss, Go, shared
  <1>8. ASSUME Waited(r) PROVE P
    BY <1>8, <1>u, KindsApart DEF Waited, Owns, memory, shared
  <1>9. ASSUME Retrieve(r) PROVE P
    <2>1. CASE pc' = [pc EXCEPT ![r] = "generate"] /\ UNCHANGED <<lease, l1, redis>>
      BY <1>1, <1>u, <2>1 DEF Owns
    <2>2. QED
      BY <1>9, <1>g, <2>1, RetrieveCases DEF shared
  <1>10. ASSUME Store(r) PROVE P
    <2>1. CASE pc' = [pc EXCEPT ![r] = "put"] /\ UNCHANGED <<lease, l1, redis>>
      BY <1>1, <1>u, <2>1, KindsApart DEF Owns
    <2>2. QED
      BY <1>10, <1>g, <2>1, StoreCases DEF shared
  <1>11. ASSUME Keeps(r) PROVE P
    <2>1. CASE pc[r] = "put" /\ PutL1(r, KeyOf(r), r, "track")
      <3>1. pc'[r] = "track" \/ (pc'[r] = "victim" /\ got'[r].then = "track")
        BY <1>1, <2>1, PutCases, NoteDoes DEF Holds
      <3>2. QED
        BY <1>1, <2>1, <3>1, PutCases, KindsApart DEF EntryWalk, Owns, shared
    <2>2. CASE pc[r] = "track" /\ pc' = [pc EXCEPT ![r] = "l2"] /\ UNCHANGED <<l1, lease, shared>>
      BY <1>1, <1>u, <2>2, KindsApart DEF Owns, shared
    <2>3. QED
      BY <1>11, <2>1, <2>2 DEF Keeps, Go
  <1>12. ASSUME StoreL2(r) PROVE P
    BY <1>1, <1>12, KindsApart DEF StoreL2, Go, EntryWalk, Owns, memory
  <1>13. ASSUME Complete(r) PROVE P
    BY <1>13, <1>g DEF Complete, shared
  <1>14. ASSUME EvictionListener(r) PROVE P
    BY <1>1, <1>14, <1>u, KindsApart DEF EvictionListener, Go, Owns, shared
  <1>15. ASSUME Evict(r) PROVE P
    BY <1>15, <1>u, <1>l, KindsApart DEF Evict, RemoveAll, Owns, shared
  <1>16. ASSUME Edit(r) PROVE P
    <2>1. pc[r] \in EditSteps \cup {"start", "inv"} /\ UNCHANGED <<l1, lease, redis>>
      BY <1>16, KindsApart DEF Edit, Write, Pass, Sync, Index, Flag, Drop, memory, shared
    <2>2. QED
      BY <1>u, <2>1, KindsApart DEF Owns
  <1>17. ASSUME InvalidateL1(r) PROVE P
    BY <1>17, <1>u, <1>l, KindsApart DEF InvalidateL1, RemoveAll, Owns, shared
  <1>18. ASSUME InvalidateL2(r) PROVE P
    <2>1. pc[r] \in {"members", "forget"} /\ UNCHANGED <<l1, lease>>
      BY <1>18 DEF InvalidateL2, memory
    <2>2. redis' = redis \/ redis' = [k \in CacheKey |-> IF k \in got[r].keys THEN NoEntry ELSE redis[k]]
      BY <1>18 DEF InvalidateL2, shared
    <2>3. ~Owns(r)
      BY <2>1, KindsApart DEF Owns
    <2>4. QED
      BY <1>1, <2>1, <2>2, <2>3 DEF EntryWalk
  <1>19. ASSUME Bump(r) PROVE P
    BY <1>19, <1>u, KindsApart DEF Bump, Owns
  <1>20. ASSUME Sweep(r) PROVE P
    BY <1>20, <1>u, <1>l, KindsApart DEF Sweep, RemoveAll, Owns, memory, shared
  <1>21. ASSUME ClearAll(r) PROVE P
    BY <1>1, <1>21 DEF ClearAll, Forget, EntryWalk, shared
  <1> HIDE DEF P
  <1>22. P
    BY <1>2, <1>3, <1>4, <1>5, <1>6, <1>7, <1>8, <1>9, <1>10, <1>11, <1>12, <1>13, <1>14, <1>15, <1>16, <1>17, <1>18,
       <1>19, <1>20, <1>21 DEF OwnStep, Question
  <1>23. QED
    BY <1>22 DEF P

\* Where the answer a question gets comes from, what is on its way into L1, and whom a question waits for.
AnswerWalk(r) ==
    /\ \/ served'[r] = served[r]
       \/ /\ pc'[r] = "done" /\ Kind(r) = "ask"
          /\ \/ pc[r] = "exact" /\ l1[KeyOf(r)] # NoEntry /\ served'[r] = l1[KeyOf(r)]
             \/ pc[r] = "hit" /\ served'[r] = got[r].entry
             \/ /\ pc[r] = "semantic"
                /\ \E k \in CacheKey : l1[k] # NoEntry /\ k[2] = got[r].ver /\ served'[r] = l1[k]
             \/ pc[r] = "wait" /\ served'[r] = got[r].entry
             \/ served'[r] = r
    /\ Promotes(r)' =>
        \/ Promotes(r) /\ got'[r].entry = got[r].entry /\ got'[r].ver = got[r].ver
        \/ pc[r] = "exact" /\ redis[KeyOf(r)] # NoEntry /\ got'[r].entry = redis[KeyOf(r)] /\ got'[r].ver = got[r].ver
    /\ pc'[r] = "wait" => lease[KeyOf(r)] # NoEntry /\ got'[r].entry = lease[KeyOf(r)] /\ pc[r] = "miss"
    /\ (pc[r] \in {"flag", "drop"} => pc'[r] = "done") /\ pc'[r] # "start"

\* A request's step reads, waits and answers this way only.
LEMMA AnswerMoves ==
    ASSUME CacheFuns, RouteInv, NEW r \in Req, OwnStep(r)
    PROVE  AnswerWalk(r)
  <1> DEFINE P == AnswerWalk(r)
  <1>1. /\ StepOf(r) /\ LeadsOn(r) /\ DOMAIN got[r] = DOMAIN Nothing /\ Kind(r)' = Kind(r)
        /\ DOMAIN pc = Req /\ DOMAIN got = Req /\ NoEntry \notin Id
    BY OwnStepAlone, CacheNumbers DEF RouteInv, LeadsOn, CacheFuns, Kind
  \* Nothing is given, and nothing is put.
  <1>u. ASSUME UNCHANGED served, pc[r] \notin {"flag", "drop"}, pc'[r] \notin {"promote", "hit", "wait", "victim", "start"} PROVE P
    BY <1>u DEF AnswerWalk, Promotes
  <1>s. ASSUME NEW e, NEW kept, Serve(r, e, kept), Kind(r) = "ask", pc[r] \notin {"flag", "drop"},
               \/ e = r
               \/ pc[r] = "exact" /\ l1[KeyOf(r)] # NoEntry /\ e = l1[KeyOf(r)]
               \/ pc[r] = "hit" /\ e = got[r].entry
               \/ pc[r] = "semantic" /\ \E k \in CacheKey : l1[k] # NoEntry /\ k[2] = got[r].ver /\ e = l1[k]
               \/ pc[r] = "wait" /\ e = got[r].entry
        PROVE  P
    <2>1. pc'[r] = "done" /\ served'[r] = e
      BY <1>s, ServeDoes
    <2>2. QED
      BY <1>s, <2>1 DEF AnswerWalk, Promotes
  <1>2. ASSUME Ask(r) PROVE P
    <2>1. pc'[r] \in {"exact", "retrieve"} /\ UNCHANGED served /\ pc[r] = "start"
      BY <1>1, <1>2, AskCases
    <2>2. QED
      BY <1>u, <2>1
  <1>3. ASSUME ExactInL1(r) PROVE P
    <2>1. pc[r] = "exact" /\ Kind(r) = "ask" /\ l1[KeyOf(r)] # NoEntry
      BY <1>3, ExactCases
    <2>2. CASE pc' = [pc EXCEPT ![r] = "evict"] /\ served' = served
      BY <1>1, <1>u, <2>1, <2>2
    <2>3. CASE Serve(r, l1[KeyOf(r)], FALSE)
      BY <1>s, <2>1, <2>3
    <2>4. QED
      BY <1>3, <2>2, <2>3, ExactCases
  <1>4. ASSUME ExactInL2(r) PROVE P
    <2>1. pc[r] = "exact" /\ UNCHANGED served
      BY <1>4 DEF ExactInL2
    <2>2. CASE Go(r, "semantic")
      BY <1>1, <1>u, <2>1, <2>2 DEF Go
    <2>3. CASE redis[KeyOf(r)] \in Id \ expired /\ Keep(r, "entry", redis[KeyOf(r)]) /\ Go(r, "promote")
      <3>1. got'[r].entry = redis[KeyOf(r)] /\ got'[r].ver = got[r].ver /\ redis[KeyOf(r)] # NoEntry /\ pc'[r] = "promote"
        BY <1>1, <2>3, KeepDoes DEF Holds, Go
      <3>2. QED
        BY <2>1, <3>1 DEF AnswerWalk
    <2>4. QED
      BY <1>4, <2>2, <2>3 DEF ExactInL2
  <1>5. ASSUME Promote(r) PROVE P
    <2>1. CASE pc[r] = "promote" /\ PutL1(r, KeyOf(r), got[r].entry, "hit")
      <3>1. /\ pc'[r] \in {"hit", "victim"} /\ UNCHANGED served
            /\ got'[r].ver = got[r].ver /\ got'[r].entry = got[r].entry
        BY <1>1, <2>1, PutCases, NoteDoes DEF Holds
      <3>2. QED
        BY <2>1, <3>1 DEF AnswerWalk, Promotes
    <2>2. CASE pc[r] = "hit" /\ Serve(r, got[r].entry, FALSE)
      BY <1>5, <1>s, <2>2, PromoteCases
    <2>3. QED
      BY <1>5, <2>1, <2>2, PromoteCases
  <1>6. ASSUME SemanticLookup(r) PROVE P
    <2>1. pc[r] = "semantic" /\ Kind(r) = "ask"
      BY <1>6, SemanticCases
    <2>2. CASE \E k \in CacheKey : Fresh(k) /\ k[2] = got[r].ver /\ Serve(r, l1[k], FALSE)
      <3>1. PICK k \in CacheKey : Fresh(k) /\ k[2] = got[r].ver /\ Serve(r, l1[k], FALSE)
        BY <2>2
      <3>2. \E x \in CacheKey : l1[x] # NoEntry /\ x[2] = got[r].ver /\ l1[k] = l1[x]
        BY <3>1 DEF Fresh
      <3>3. QED
        BY <1>s, <2>1, <3>1, <3>2
    <2>3. CASE (pc' = [pc EXCEPT ![r] = "evict"] \/ pc' = [pc EXCEPT ![r] = "miss"]) /\ served' = served
      <3>1. pc'[r] \in {"evict", "miss"}
        BY <1>1, <2>3
      <3>2. QED
        BY <1>u, <2>1, <2>3, <3>1
    <2>4. QED
      BY <1>6, <2>2, <2>3, SemanticCases
  <1>7. ASSUME OnMiss(r) PROVE P
    <2>1. pc[r] = "miss" /\ UNCHANGED served
      BY <1>7 DEF OnMiss
    <2>2. CASE Go(r, "retrieve")
      BY <1>1, <1>u, <2>1, <2>2 DEF Go
    <2>3. CASE lease[KeyOf(r)] # NoEntry /\ Keep(r, "entry", lease[KeyOf(r)]) /\ Go(r, "wait")
      <3>1. got'[r].entry = lease[KeyOf(r)] /\ pc'[r] = "wait"
        BY <1>1, <2>3, KeepDoes DEF Holds, Go
      <3>2. QED
        BY <2>1, <2>3, <3>1 DEF AnswerWalk, Promotes
    <2>4. QED
      BY <1>7, <2>2, <2>3 DEF OnMiss
  <1>8. ASSUME Waited(r) PROVE P
    <2>1. pc[r] = "wait" /\ Kind(r) = "ask"
      BY <1>1, <1>8, KindsApart DEF Waited, StepOf
    <2>2. CASE Go(r, "retrieve") /\ UNCHANGED served
      BY <1>1, <1>u, <2>1, <2>2 DEF Go
    <2>3. CASE Serve(r, got[r].entry, FALSE)
      BY <1>s, <2>1, <2>3
    <2>4. QED
      BY <1>8, <2>2, <2>3 DEF Waited
  <1>9. ASSUME Retrieve(r) PROVE P
    <2>1. pc[r] = "retrieve" /\ Kind(r) = "ask"
      BY <1>9, RetrieveCases
    <2>2. CASE pc' = [pc EXCEPT ![r] = "generate"] /\ UNCHANGED served
      BY <1>1, <1>u, <2>1, <2>2
    <2>3. CASE Serve(r, r, FALSE)
      BY <1>s, <2>1, <2>3
    <2>4. QED
      BY <1>9, <2>2, <2>3, RetrieveCases
  <1>10. ASSUME Store(r) PROVE P
    <2>1. pc[r] = "generate" /\ Kind(r) = "ask"
      BY <1>10, StoreCases
    <2>2. CASE pc' = [pc EXCEPT ![r] = "put"] /\ UNCHANGED served
      BY <1>1, <1>u, <2>1, <2>2
    <2>3. CASE Serve(r, r, FALSE)
      BY <1>s, <2>1, <2>3
    <2>4. QED
      BY <1>10, <2>2, <2>3, StoreCases
  <1>11. ASSUME Keeps(r) PROVE P
    <2>1. CASE pc[r] = "put" /\ PutL1(r, KeyOf(r), r, "track")
      <3>1. UNCHANGED served /\ (pc'[r] = "track" \/ (pc'[r] = "victim" /\ got'[r].then = "track"))
        BY <1>1, <2>1, PutCases, NoteDoes DEF Holds
      <3>2. QED
        BY <2>1, <3>1 DEF AnswerWalk, Promotes
    <2>2. CASE pc[r] = "track" /\ pc' = [pc EXCEPT ![r] = "l2"] /\ UNCHANGED served
      BY <1>1, <1>u, <2>2
    <2>3. QED
      BY <1>11, <2>1, <2>2 DEF Keeps, Go
  <1>12. ASSUME StoreL2(r) PROVE P
    <2>1. pc[r] \in {"l2", "l2index"} /\ pc'[r] \in {"l2index", "complete"} /\ UNCHANGED served
      BY <1>1, <1>12 DEF StoreL2, Go
    <2>2. QED
      BY <1>u, <2>1
  <1>13. ASSUME Complete(r) PROVE P
    <2>1. pc[r] = "complete" /\ Kind(r) = "ask" /\ Serve(r, r, TRUE)
      BY <1>1, <1>13, KindsApart DEF Complete, StepOf
    <2>2. QED
      BY <1>s, <2>1
  <1>14. ASSUME EvictionListener(r) PROVE P
    <2>1. pc[r] = "victim" /\ pc'[r] = got[r].then /\ UNCHANGED <<served, got>> /\ got[r].then \in {"hit", "track"}
      BY <1>1, <1>14 DEF EvictionListener, Go, LeadsOn
    <2>2. QED
      BY <2>1 DEF AnswerWalk, Promotes
  <1>15. ASSUME Evict(r) PROVE P
    <2>1. pc[r] \in {"evict", "evictIds"} /\ pc'[r] \in {"evictIds", got[r].then} /\ UNCHANGED served
      BY <1>1, <1>15 DEF Evict, Go
    <2>2. got[r].then \in {"semantic", "miss", "done"}
      BY <1>1, <2>1, KindsApart DEF StepOf, LeadsOn
    <2>3. QED
      BY <1>u, <2>1, <2>2
  <1>16. ASSUME Edit(r) PROVE P
    <2>1. UNCHANGED served
      BY <1>16 DEF Edit, Write, Pass, Sync, Index, Flag, Drop
    <2>2. pc'[r] \in {"done", "write", "unindex", "sync", "index", "inv", "insert", "flag", got[r].then} /\ pc[r] \in EditSteps \cup {"start", "inv"}
      BY <1>1, <1>16, KindsApart DEF Edit, Write, Pass, Sync, Index, Flag, Drop, Go
    <2>4. pc[r] \in {"flag", "drop"} => pc'[r] = "done"
      BY <1>1, <1>16 DEF Edit, Write, Pass, Sync, Index, Flag, Drop, Go
    <2>5. pc'[r] = got[r].then /\ pc'[r] \notin {"done", "write", "unindex", "sync", "index", "inv", "insert", "flag"} => pc[r] \in {"unindex", "index", "insert", "inv"} /\ Kind(r) # "purge"
      BY <1>1, <1>16, KindsApart DEF Edit, Write, Pass, Sync, Index, Flag, Drop, Go, StepOf
    <2>6. pc'[r] \notin {"promote", "hit", "wait", "victim", "start"}
      BY <1>1, <2>2, <2>5, KindsApart DEF StepOf, LeadsOn
    <2>7. QED
      BY <2>1, <2>4, <2>6 DEF AnswerWalk, Promotes
  <1>17. ASSUME InvalidateL1(r) PROVE P
    <2>1. pc[r] \in {"inv", "invLsh"} /\ pc'[r] \in {"invLsh", "members"} /\ UNCHANGED served
      BY <1>1, <1>17 DEF InvalidateL1, Go
    <2>2. QED
      BY <1>u, <2>1
  <1>18. ASSUME InvalidateL2(r) PROVE P
    <2>1. pc[r] \in {"members", "forget"} /\ pc'[r] \in {"forget", "done", "bump"} /\ UNCHANGED served
      BY <1>1, <1>18 DEF InvalidateL2, Go
    <2>2. QED
      BY <1>u, <2>1
  <1>19. ASSUME Bump(r) PROVE P
    <2>1. pc[r] = "bump" /\ pc'[r] \in {"flag", "drop"} /\ UNCHANGED served
      BY <1>1, <1>19, KindsApart DEF Bump, Go, StepOf, LeadsOn
    <2>2. QED
      BY <1>u, <2>1
  <1>20. ASSUME Sweep(r) PROVE P
    <2>1. pc[r] \in {"sweep", "sweepKey"} /\ pc'[r] \in {"sweepKey", "evictIds"} /\ UNCHANGED served
      BY <1>1, <1>20 DEF Sweep, Go
    <2>2. QED
      BY <1>u, <2>1
  <1>21. ASSUME ClearAll(r) PROVE P
    <2>1. pc[r] = "start" /\ pc'[r] = "done" /\ UNCHANGED served
      BY <1>1, <1>21 DEF ClearAll, Go
    <2>2. QED
      BY <1>u, <2>1
  <1> HIDE DEF P
  <1>22. P
    BY <1>2, <1>3, <1>4, <1>5, <1>6, <1>7, <1>8, <1>9, <1>10, <1>11, <1>12, <1>13, <1>14, <1>15, <1>16, <1>17, <1>18,
       <1>19, <1>20, <1>21 DEF OwnStep, Question
  <1>23. QED
    BY <1>22 DEF P

-----------------------------------------------------------------------------
(* Who finds an entry *)

\* What a request's step does to the LSH index, the organisation's keys and the keys it is about to forget.
TrackWalk(r) ==
    /\ lsh' \subseteq CacheKey
    /\ \A k \in CacheKey : l1'[k] # NoEntry =>
        /\ k \in lsh \cap keysByOrg =>
            \/ k \in lsh' \cap keysByOrg'
            \/ pc[r] \in {"victim", "evictIds"} /\ k \in got[r].keys
            \/ pc[r] = "invLsh"
        /\ Tracks(r, k) => k \in lsh' \cap keysByOrg' \/ Tracks(r, k)'
        /\ k = KeyOf(r) /\ pc[r] \in {"promote", "put"} => Tracks(r, k)'
    /\ pc'[r] = "victim" => \A k \in CacheKey : k \in got'[r].keys => l1'[k] = NoEntry \/ k = KeyOf(r)'
    /\ pc'[r] = "evictIds" /\ pc[r] = "evict" => \A k \in CacheKey : k \in got'[r].keys => l1'[k] = NoEntry
    /\ pc'[r] = "evictIds" => pc[r] \in {"evict", "sweepKey"}
    /\ pc'[r] = "evictIds" /\ pc[r] = "sweepKey" =>
        got'[r] = got[r] /\ \A k \in CacheKey : l1[k] \in expired /\ k \in got[r].keys => l1'[k] = NoEntry
    /\ pc'[r] = "sweepKey" => \A k \in CacheKey : k \in got'[r].keys => l1'[k] = NoEntry \/ l1'[k] \in expired
    /\ pc'[r] = "invLsh" => \A k \in CacheKey : l1'[k] # NoEntry => l1[k] = l1'[k] /\ ~(k \in lsh \cap keysByOrg)
    /\ pc'[r] = "invLsh" => pc[r] = "inv"

\* A request's step tracks and forgets keys this way only.
LEMMA TrackMoves ==
    ASSUME CacheFuns, RouteInv, AskInv, NEW r \in Req, OwnStep(r)
    PROVE  TrackWalk(r)
  <1> DEFINE P == TrackWalk(r)
  <1>1. /\ StepOf(r) /\ LeadsOn(r) /\ DOMAIN got[r] = DOMAIN Nothing /\ Kind(r)' = Kind(r) /\ On(r)' = On(r)
        /\ DOMAIN pc = Req /\ DOMAIN got = Req /\ DOMAIN l1 = CacheKey /\ lsh \subseteq CacheKey
        /\ Kind(r) = "ask" => KeyOf(r) \in CacheKey
    BY OwnStepAlone, KeyFacts, CacheNumbers DEF RouteInv, LeadsOn, CacheFuns, Kind, On
  \* Nothing moves, and nothing begins that would forget a key.
  <1>u. ASSUME UNCHANGED <<lsh, keysByOrg>>, pc[r] \notin {"hit", "track", "victim", "promote", "put"},
               pc'[r] \notin {"victim", "evictIds", "sweepKey", "invLsh"}
        PROVE  P
    BY <1>1, <1>u DEF TrackWalk, Tracks
  <1>t. ASSUME Track(KeyOf(r)), Kind(r) = "ask", pc[r] \in {"hit", "track"}, pc'[r] \notin {"victim", "evictIds", "sweepKey", "invLsh"}
        PROVE  P
    <2>1. \A k \in CacheKey : Tracks(r, k) => k \in lsh' \cap keysByOrg'
      BY <1>t DEF Track, Tracks
    <2>2. lsh \subseteq lsh' /\ keysByOrg \subseteq keysByOrg' /\ lsh' \subseteq CacheKey
      BY <1>1, <1>t DEF Track
    <2>3. QED
      BY <1>t, <2>1, <2>2 DEF TrackWalk
  <1>p. ASSUME NEW e, NEW to \in {"hit", "track"}, PutL1(r, KeyOf(r), e, to), Kind(r) = "ask", pc[r] \in {"promote", "put"}
        PROVE  P
    <2>1. UNCHANGED <<lsh, keysByOrg>> /\ pc'[r] \in {"victim", to} /\ got'[r].ver = got[r].ver /\ got'[r].keys = Victim(KeyOf(r))
      BY <1>1, <1>p, PutCases, NoteDoes DEF Holds
    <2>2. KeyOf(r)' = KeyOf(r)
      BY <1>1, <2>1 DEF KeyOf
    <2>3. \A k \in CacheKey : k \in Victim(KeyOf(r)) => l1'[k] = NoEntry \/ k = KeyOf(r)
      BY <1>p, PutCases
    <2>4. \A k \in CacheKey : k = KeyOf(r) => Tracks(r, k)'
      BY <2>1, <2>2 DEF Tracks
    <2>5. \A k \in CacheKey : ~Tracks(r, k)
      BY <1>p DEF Tracks
    <2>6. QED
      BY <1>1, <1>p, <2>1, <2>2, <2>3, <2>4, <2>5 DEF TrackWalk
  <1>2. ASSUME Ask(r) PROVE P
    <2>1. pc'[r] \in {"exact", "retrieve"} /\ UNCHANGED memory /\ pc[r] = "start"
      BY <1>1, <1>2, AskCases
    <2>2. QED
      BY <1>u, <2>1 DEF memory
  <1>3. ASSUME ExactInL1(r) PROVE P
    <2>1. pc[r] = "exact" /\ UNCHANGED <<lsh, keysByOrg>> /\ pc'[r] \in {"done", "evict"}
      BY <1>1, <1>3, ExactCases, ServeDoes
    <2>2. QED
      BY <1>u, <2>1
  <1>4. ASSUME ExactInL2(r) PROVE P
    <2>1. pc[r] = "exact" /\ UNCHANGED memory /\ pc'[r] \in {"semantic", "promote"}
      BY <1>1, <1>4 DEF ExactInL2, Go
    <2>2. QED
      BY <1>u, <2>1 DEF memory
  <1>5. ASSUME Promote(r) PROVE P
    <2>1. CASE pc[r] = "promote" /\ PutL1(r, KeyOf(r), got[r].entry, "hit")
      BY <1>5, <1>p, <2>1, PromoteCases
    <2>2. CASE pc[r] = "hit" /\ Track(KeyOf(r)) /\ Serve(r, got[r].entry, FALSE)
      <3>1. pc'[r] = "done"
        BY <2>2, ServeDoes
      <3>2. QED
        BY <1>5, <1>t, <2>2, <3>1, PromoteCases
    <2>3. QED
      BY <1>5, <2>1, <2>2, PromoteCases
  <1>6. ASSUME SemanticLookup(r) PROVE P
    <2>1. pc[r] = "semantic" /\ UNCHANGED <<lsh, keysByOrg>> /\ pc'[r] \in {"done", "evict", "miss"}
      BY <1>1, <1>6, SemanticCases, ServeDoes
    <2>2. QED
      BY <1>u, <2>1
  <1>7. ASSUME OnMiss(r) PROVE P
    <2>1. pc[r] = "miss" /\ UNCHANGED <<lsh, keysByOrg>> /\ pc'[r] \in {"retrieve", "wait"}
      BY <1>1, <1>7 DEF OnMiss, Go
    <2>2. QED
      BY <1>u, <2>1
  <1>8. ASSUME Waited(r) PROVE P
    <2>1. pc[r] = "wait" /\ UNCHANGED memory /\ pc'[r] \in {"retrieve", "done"}
      BY <1>1, <1>8, ServeDoes DEF Waited, Go
    <2>2. QED
      BY <1>u, <2>1 DEF memory
  <1>9. ASSUME Retrieve(r) PROVE P
    <2>1. pc[r] = "retrieve" /\ UNCHANGED <<lsh, keysByOrg>> /\ pc'[r] \in {"generate", "done"}
      BY <1>1, <1>9, RetrieveCases, ServeDoes
    <2>2. QED
      BY <1>u, <2>1
  <1>10. ASSUME Store(r) PROVE P
    <2>3. Serve(r, r, FALSE) => pc'[r] = "done"
      BY <1>1, ServeDoes DEF CacheFuns
    <2>1. pc[r] = "generate" /\ UNCHANGED <<lsh, keysByOrg>> /\ pc'[r] \in {"put", "done"}
      BY <1>1, <1>10, <2>3, StoreCases
    <2>2. QED
      BY <1>u, <2>1
  <1>11. ASSUME Keeps(r) PROVE P
    <2>1. Kind(r) = "ask"
      BY <1>1, <1>11, KindsApart DEF Keeps, StepOf
    <2>2. CASE pc[r] = "put" /\ PutL1(r, KeyOf(r), r, "track")
      BY <1>p, <2>1, <2>2
    <2>3. CASE pc[r] = "track" /\ Track(KeyOf(r)) /\ pc'[r] = "l2"
      BY <1>t, <2>1, <2>3
    <2>4. QED
      BY <1>1, <1>11, <2>2, <2>3 DEF Keeps, Go
  <1>12. ASSUME StoreL2(r) PROVE P
    <2>1. pc[r] \in {"l2", "l2index"} /\ UNCHANGED <<lsh, keysByOrg>> /\ pc'[r] \in {"l2index", "complete"}
      BY <1>1, <1>12 DEF StoreL2, Go, memory
    <2>2. QED
      BY <1>u, <2>1
  <1>13. ASSUME Complete(r) PROVE P
    <2>1. pc[r] = "complete" /\ UNCHANGED <<lsh, keysByOrg>> /\ pc'[r] = "done"
      BY <1>13, ServeDoes DEF Complete
    <2>2. QED
      BY <1>u, <2>1
  <1>14. ASSUME EvictionListener(r) PROVE P
    <2>1. /\ pc[r] = "victim" /\ pc'[r] \in {"hit", "track"} /\ got' = got
          /\ lsh' = lsh \ got[r].keys /\ keysByOrg' = keysByOrg \ got[r].keys
      BY <1>1, <1>14 DEF EvictionListener, Go, LeadsOn
    <2>2. \A k \in CacheKey : Tracks(r, k) => Tracks(r, k)'
      BY <1>1, <2>1 DEF Tracks, KeyOf
    <2>3. QED
      BY <1>1, <2>1, <2>2 DEF TrackWalk
  <1>15. ASSUME Evict(r) PROVE P
    <2>1. CASE pc[r] = "evict" /\ RemoveAll(got[r].keys) /\ pc'[r] = "evictIds" /\ UNCHANGED <<got, lsh, keysByOrg>>
      BY <1>1, <2>1 DEF TrackWalk, RemoveAll, Tracks
    <2>2. CASE pc[r] = "evictIds" /\ pc'[r] = got[r].then /\ lsh' = lsh \ got[r].keys /\ keysByOrg' = keysByOrg \ got[r].keys
      <3>1. pc'[r] \in {"semantic", "miss", "done"}
        BY <1>1, <2>2, KindsApart DEF StepOf, LeadsOn
      <3>2. QED
        BY <1>1, <2>2, <3>1 DEF TrackWalk, Tracks
    <2>3. QED
      BY <1>1, <1>15, <2>1, <2>2 DEF Evict, Go
  <1>16. ASSUME Edit(r) PROVE P
    <2>1. UNCHANGED <<lsh, keysByOrg>> /\ pc[r] \in EditSteps \cup {"start", "inv"}
      BY <1>16, KindsApart DEF Edit, Write, Pass, Sync, Index, Flag, Drop, memory
    <2>2. pc'[r] \in {"done", "write", "unindex", "sync", "index", "inv", "insert", "flag", got[r].then}
      BY <1>1, <1>16 DEF Edit, Write, Pass, Sync, Index, Flag, Drop, Go
    <2>3. pc'[r] = got[r].then /\ pc'[r] \notin {"done", "write", "unindex", "sync", "index", "inv", "insert", "flag"} => pc[r] \in {"unindex", "index", "insert", "inv"} /\ Kind(r) # "purge"
      BY <1>1, <1>16, KindsApart DEF Edit, Write, Pass, Sync, Index, Flag, Drop, Go, StepOf
    <2>4. pc'[r] \notin {"victim", "evictIds", "sweepKey", "invLsh"}
      BY <1>1, <2>2, <2>3, KindsApart DEF StepOf, LeadsOn
    <2>5. QED
      BY <1>u, <2>1, <2>4, KindsApart
  <1>17. ASSUME InvalidateL1(r) PROVE P
    <2>1. CASE pc[r] = "inv" /\ pc'[r] = "invLsh" /\ keysByOrg' = {} /\ RemoveAll(keysByOrg) /\ UNCHANGED lsh
      BY <1>1, <2>1 DEF TrackWalk, RemoveAll, Tracks
    <2>2. CASE pc[r] = "invLsh" /\ lsh' = {} /\ pc'[r] = "members"
      BY <1>1, <2>2 DEF TrackWalk, Tracks
    <2>3. QED
      BY <1>1, <1>17, <2>1, <2>2 DEF InvalidateL1, Go
  <1>18. ASSUME InvalidateL2(r) PROVE P
    <2>1. pc[r] \in {"members", "forget"} /\ pc'[r] \in {"forget", "done", "bump"} /\ UNCHANGED memory
      BY <1>1, <1>18 DEF InvalidateL2, Go
    <2>2. QED
      BY <1>u, <2>1 DEF memory
  <1>19. ASSUME Bump(r) PROVE P
    <2>1. pc[r] = "bump" /\ pc'[r] \in {"flag", "drop"} /\ UNCHANGED <<lsh, keysByOrg>>
      BY <1>1, <1>19, KindsApart DEF Bump, Go, StepOf, LeadsOn
    <2>2. QED
      BY <1>u, <2>1
  <1>20. ASSUME Sweep(r) PROVE P
    <2>1. CASE pc[r] = "sweep" /\ Keep(r, "keys", {k \in keysByOrg : ~Fresh(k)}) /\ pc'[r] = "sweepKey" /\ UNCHANGED memory
      <3>1. got'[r].keys = {k \in keysByOrg : ~Fresh(k)} /\ UNCHANGED <<l1, lsh, keysByOrg>>
        BY <1>1, <2>1, KeepDoes DEF Holds, memory
      <3>2. \A k \in CacheKey : k \in got'[r].keys => l1'[k] = NoEntry \/ l1'[k] \in expired
        BY <3>1 DEF Fresh
      <3>3. QED
        BY <1>1, <2>1, <3>1, <3>2 DEF TrackWalk, Tracks
    <2>2. CASE /\ pc[r] = "sweepKey" /\ RemoveAll({k \in got[r].keys : l1[k] \in expired}) /\ pc'[r] = "evictIds"
               /\ UNCHANGED <<got, lsh, keysByOrg>>
      <3>1. \A k \in CacheKey : l1[k] \in expired /\ k \in got[r].keys => l1'[k] = NoEntry
        BY <2>2 DEF RemoveAll
      <3>2. QED
        BY <1>1, <2>2, <3>1 DEF TrackWalk, Tracks
    <2>3. QED
      BY <1>1, <1>20, <2>1, <2>2 DEF Sweep, Go
  <1>21. ASSUME ClearAll(r) PROVE P
    <2>1. pc[r] = "start" /\ pc'[r] = "done" /\ lsh' = {} /\ \A k \in CacheKey : l1'[k] = NoEntry
      BY <1>1, <1>21 DEF ClearAll, Go, Forget
    <2>2. QED
      BY <2>1 DEF TrackWalk
  <1> HIDE DEF P
  <1>22. P
    BY <1>2, <1>3, <1>4, <1>5, <1>6, <1>7, <1>8, <1>9, <1>10, <1>11, <1>12, <1>13, <1>14, <1>15, <1>16, <1>17, <1>18,
       <1>19, <1>20, <1>21 DEF OwnStep, Question
  <1>23. QED
    BY <1>22 DEF P

\* What a request's step does to the organisation's index in Redis; and only edits write rows and chunks.
IndexWalk(r) ==
    /\ \A k \in CacheKey : k \in orgIndex =>
        k \in orgIndex' \/ (pc[r] = "forget" /\ \A x \in CacheKey : x \in got[r].keys => redis'[x] = NoEntry)
    /\ pc[r] = "l2index" => KeyOf(r) \in orgIndex' \/ r \in hurt'
    /\ pc'[r] = "forget" => got'[r].keys = orgIndex /\ redis' = redis
    /\ pc[r] \in {"members", "forget"} /\ pc'[r] \notin {"members", "forget"} =>
        r \in hurt' \/ (pc[r] = "forget" /\ \A x \in CacheKey : x \in got[r].keys => redis'[x] = NoEntry)
    /\ pc[r] = "inv" => pc'[r] = "invLsh" \/ r \in hurt'
    /\ pc[r] = "invLsh" => pc'[r] = "members" /\ l1' = l1
    /\ pc[r] = "members" => pc'[r] # "members" /\ l1' = l1
    /\ pc[r] = "forget" => pc'[r] # "forget" /\ l1' = l1
    /\ Kind(r) \notin Edits => UNCHANGED content /\ (got'[r].row = got[r].row \/ got'[r].row = NoEntry)

\* A request's step moves the vector index, the rows and the organisation's keys this way only.
LEMMA IndexMoves ==
    ASSUME CacheFuns, RouteInv, NEW r \in Req, OwnStep(r)
    PROVE  IndexWalk(r)
  <1> DEFINE P == IndexWalk(r)
  <1>1. /\ StepOf(r) /\ LeadsOn(r) /\ DOMAIN got[r] = DOMAIN Nothing /\ Kind(r)' = Kind(r)
        /\ DOMAIN pc = Req /\ DOMAIN got = Req /\ DOMAIN redis = CacheKey
    BY OwnStepAlone, CacheNumbers DEF RouteInv, LeadsOn, CacheFuns, Kind
  <1>u. ASSUME UNCHANGED <<orgIndex, content>>, got'[r].row \in {got[r].row, NoEntry},
               pc[r] \notin {"l2index", "members", "forget", "inv", "invLsh"}, pc'[r] # "forget"
        PROVE  P
    BY <1>u DEF IndexWalk
  <1>s. ASSUME NEW e, NEW kept, Serve(r, e, kept) PROVE got'[r].row = NoEntry /\ pc'[r] = "done"
    BY <1>s, ServeDoes DEF Holds
  <1>2. ASSUME Ask(r) PROVE P
    <2>1. pc'[r] \in {"exact", "retrieve"} /\ UNCHANGED <<content, shared>> /\ pc[r] = "start" /\ got'[r].row = got[r].row
      BY <1>1, <1>2, AskCases, KeepDoes DEF Holds
    <2>2. QED
      BY <1>u, <2>1 DEF shared
  <1>3. ASSUME ExactInL1(r) PROVE P
    <2>1. pc[r] = "exact" /\ UNCHANGED <<content, shared>> /\ pc'[r] \in {"done", "evict"} /\ got'[r].row \in {got[r].row, NoEntry}
      BY <1>1, <1>3, <1>s, ExactCases, NoteDoes DEF Holds
    <2>2. QED
      BY <1>u, <2>1 DEF shared
  <1>4. ASSUME ExactInL2(r) PROVE P
    <2>1. pc[r] = "exact" /\ UNCHANGED <<content, shared>> /\ pc'[r] \in {"semantic", "promote"} /\ got'[r].row = got[r].row
      BY <1>1, <1>4, KeepDoes DEF ExactInL2, Go, Holds
    <2>2. QED
      BY <1>u, <2>1 DEF shared
  <1>5. ASSUME Promote(r) PROVE P
    <2>1. CASE pc[r] = "promote" /\ PutL1(r, KeyOf(r), got[r].entry, "hit")
      <3>1. UNCHANGED <<content, shared>> /\ pc'[r] \in {"victim", "hit"} /\ got'[r].row = got[r].row
        BY <1>1, <2>1, PutCases, NoteDoes DEF Holds
      <3>2. QED
        BY <1>u, <2>1, <3>1 DEF shared
    <2>2. CASE pc[r] = "hit" /\ Serve(r, got[r].entry, FALSE) /\ UNCHANGED <<content, shared>>
      BY <1>u, <1>s, <2>2 DEF shared
    <2>3. QED
      BY <1>5, <2>1, <2>2, PromoteCases
  <1>6. ASSUME SemanticLookup(r) PROVE P
    <2>1. pc[r] = "semantic" /\ UNCHANGED <<content, shared>> /\ pc'[r] \in {"done", "evict", "miss"} /\ got'[r].row \in {got[r].row, NoEntry}
      BY <1>1, <1>6, <1>s, SemanticCases, NoteDoes DEF Holds
    <2>2. QED
      BY <1>u, <2>1 DEF shared
  <1>7. ASSUME OnMiss(r) PROVE P
    <2>1. pc[r] = "miss" /\ UNCHANGED <<content, shared>> /\ pc'[r] \in {"retrieve", "wait"} /\ got'[r].row = got[r].row
      BY <1>1, <1>7, KeepDoes DEF OnMiss, Go, Holds
    <2>2. QED
      BY <1>u, <2>1 DEF shared
  <1>8. ASSUME Waited(r) PROVE P
    <2>1. pc[r] = "wait" /\ UNCHANGED <<content, shared>> /\ pc'[r] \in {"retrieve", "done"} /\ got'[r].row \in {got[r].row, NoEntry}
      BY <1>1, <1>8, <1>s DEF Waited, Go
    <2>2. QED
      BY <1>u, <2>1 DEF shared
  <1>9. ASSUME Retrieve(r) PROVE P
    <2>1. pc[r] = "retrieve" /\ UNCHANGED <<content, shared>> /\ pc'[r] \in {"generate", "done"} /\ got'[r].row \in {got[r].row, NoEntry}
      BY <1>1, <1>9, <1>s, RetrieveCases
    <2>2. QED
      BY <1>u, <2>1 DEF shared
  <1>10. ASSUME Store(r) PROVE P
    <2>1. pc[r] = "generate" /\ UNCHANGED <<content, shared>> /\ pc'[r] \in {"put", "done"} /\ got'[r].row \in {got[r].row, NoEntry}
      BY <1>1, <1>10, <1>s, StoreCases, KeepDoes DEF Holds
    <2>2. QED
      BY <1>u, <2>1 DEF shared
  <1>11. ASSUME Keeps(r) PROVE P
    <2>1. CASE pc[r] = "put" /\ PutL1(r, KeyOf(r), r, "track")
      <3>1. UNCHANGED <<content, shared>> /\ pc'[r] \in {"victim", "track"} /\ got'[r].row = got[r].row
        BY <1>1, <2>1, PutCases, NoteDoes DEF Holds
      <3>2. QED
        BY <1>u, <2>1, <3>1 DEF shared
    <2>2. CASE pc[r] = "track" /\ pc'[r] = "l2" /\ UNCHANGED <<got, content, shared>>
      BY <1>u, <2>2 DEF shared
    <2>3. QED
      BY <1>1, <1>11, <2>1, <2>2 DEF Keeps, Go
  <1>12. ASSUME StoreL2(r) PROVE P
    <2>1. CASE pc[r] = "l2"
      <3>1. pc'[r] \in {"l2index", "complete"} /\ UNCHANGED <<got, content, orgIndex>>
        BY <1>1, <1>12, <2>1 DEF StoreL2, Go
      <3>2. QED
        BY <1>u, <2>1, <3>1
    <2>2. CASE pc[r] = "l2index"
      <3>1. pc'[r] = "complete" /\ UNCHANGED <<got, content>> /\ (orgIndex' = orgIndex \cup {KeyOf(r)} \/ (orgIndex' = orgIndex /\ r \in hurt'))
        BY <1>1, <1>12, <2>2 DEF StoreL2, Go, Hurts
      <3>2. QED
        BY <2>2, <3>1 DEF IndexWalk
    <2>3. QED
      BY <1>12, <2>1, <2>2 DEF StoreL2
  <1>13. ASSUME Complete(r) PROVE P
    <2>1. pc[r] = "complete" /\ UNCHANGED <<content, shared>> /\ pc'[r] = "done" /\ got'[r].row = NoEntry
      BY <1>13, <1>s DEF Complete
    <2>2. QED
      BY <1>u, <2>1 DEF shared
  <1>14. ASSUME EvictionListener(r) PROVE P
    <2>1. pc[r] = "victim" /\ pc'[r] \in {"hit", "track"} /\ UNCHANGED <<got, content, shared>>
      BY <1>1, <1>14 DEF EvictionListener, Go, LeadsOn
    <2>2. QED
      BY <1>u, <2>1 DEF shared
  <1>15. ASSUME Evict(r) PROVE P
    <2>1. pc[r] \in {"evict", "evictIds"} /\ pc'[r] \in {"evictIds", got[r].then} /\ UNCHANGED <<got, content, shared>>
      BY <1>1, <1>15 DEF Evict, Go
    <2>2. got[r].then \in {"semantic", "miss", "done"}
      BY <1>1, <2>1, KindsApart DEF StepOf, LeadsOn
    <2>3. QED
      BY <1>u, <2>1, <2>2 DEF shared
  <1>16. ASSUME Edit(r) PROVE P
    <2>1. UNCHANGED shared /\ pc[r] \in EditSteps \cup {"start", "inv"}
      BY <1>16, KindsApart DEF Edit, Write, Pass, Sync, Index, Flag, Drop
    <2>2. pc'[r] \in {"done", "write", "unindex", "sync", "index", "inv", "insert", "flag", got[r].then}
      BY <1>1, <1>16 DEF Edit, Write, Pass, Sync, Index, Flag, Drop, Go
    <2>3. pc'[r] = got[r].then /\ pc'[r] \notin {"done", "write", "unindex", "sync", "index", "inv", "insert", "flag"} => pc[r] \in {"unindex", "index", "insert", "inv"} /\ Kind(r) # "purge"
      BY <1>1, <1>16, KindsApart DEF Edit, Write, Pass, Sync, Index, Flag, Drop, Go, StepOf
    <2>4. pc'[r] # "forget"
      BY <1>1, <2>2, <2>3, KindsApart DEF StepOf, LeadsOn
    <2>5. Kind(r) \in Edits
      BY <1>1, <1>16, KindsApart DEF Edit, Write, Pass, Sync, Index, Flag, Drop, StepOf
    <2>6. pc[r] = "inv" => r \in hurt'
      BY <1>16 DEF Edit, Write, Pass, Sync, Index, Flag, Drop, Hurts
    <2>7. QED
      BY <2>1, <2>4, <2>5, <2>6, KindsApart DEF IndexWalk, shared
  <1>17. ASSUME InvalidateL1(r) PROVE P
    <2>1. /\ pc[r] \in {"inv", "invLsh"} /\ UNCHANGED <<got, content, shared>>
          /\ pc'[r] = (IF pc[r] = "inv" THEN "invLsh" ELSE "members") /\ (pc[r] = "invLsh" => l1' = l1)
      BY <1>1, <1>17 DEF InvalidateL1, Go
    <2>2. QED
      BY <2>1 DEF IndexWalk, shared
  <1>18. ASSUME InvalidateL2(r) PROVE P
    <2>1. UNCHANGED <<content, l1>> /\ got'[r].row = got[r].row
      BY <1>1, <1>18, KeepDoes DEF InvalidateL2, Holds, memory
    <2>2. CASE pc[r] = "members" /\ Keep(r, "keys", orgIndex) /\ Go(r, "forget") /\ UNCHANGED shared
      <3>1. got'[r].keys = orgIndex /\ pc'[r] = "forget"
        BY <1>1, <2>2, KeepDoes DEF Holds, Go
      <3>2. QED
        BY <2>1, <2>2, <3>1 DEF IndexWalk, shared
    <2>3. CASE pc[r] = "forget" /\ redis' = [k \in CacheKey |-> IF k \in got[r].keys THEN NoEntry ELSE redis[k]] /\ pc'[r] \in {"done", "bump"}
      BY <2>1, <2>3 DEF IndexWalk
    <2>4. CASE pc[r] \in {"members", "forget"} /\ r \in hurt' /\ pc'[r] \in {"done", "bump"} /\ UNCHANGED shared
      BY <2>1, <2>4 DEF IndexWalk, shared
    <2>5. QED
      BY <1>1, <1>18, <2>2, <2>3, <2>4 DEF InvalidateL2, Go, Hurts
  <1>19. ASSUME Bump(r) PROVE P
    <2>1. pc[r] = "bump" /\ pc'[r] \in {"flag", "drop"} /\ UNCHANGED <<content, orgIndex>> /\ got'[r].row = got[r].row
      BY <1>1, <1>19, KindsApart, KeepDoes DEF Bump, Go, StepOf, LeadsOn, Holds
    <2>2. QED
      BY <1>u, <2>1
  <1>20. ASSUME Sweep(r) PROVE P
    <2>1. pc[r] \in {"sweep", "sweepKey"} /\ pc'[r] \in {"sweepKey", "evictIds"} /\ UNCHANGED <<content, shared>> /\ got'[r].row = got[r].row
      BY <1>1, <1>20, KeepDoes DEF Sweep, Go, Holds
    <2>2. QED
      BY <1>u, <2>1 DEF shared
  <1>21. ASSUME ClearAll(r) PROVE P
    <2>1. pc[r] = "start" /\ pc'[r] = "done" /\ UNCHANGED <<got, content, shared>>
      BY <1>1, <1>21 DEF ClearAll, Go
    <2>2. QED
      BY <1>u, <2>1 DEF shared
  <1> HIDE DEF P
  <1>22. P
    BY <1>2, <1>3, <1>4, <1>5, <1>6, <1>7, <1>8, <1>9, <1>10, <1>11, <1>12, <1>13, <1>14, <1>15, <1>16, <1>17, <1>18,
       <1>19, <1>20, <1>21 DEF OwnStep, Question
  <1>23. QED
    BY <1>22 DEF P

-----------------------------------------------------------------------------
(* Leases and versions *)

\* After a restart nobody looks up, stores or promotes, and L1 is empty.
LEMMA RestartEmpties ==
    ASSUME CacheFuns, RouteInv, Restart
    PROVE  /\ \A r \in Req : /\ ~LooksUp(r)' /\ ~Stores(r)' /\ ~Promotes(r)' /\ pc'[r] \notin LookupSteps \cup SharedSteps
                             /\ got'[r].ver = got[r].ver /\ got'[r].keys = got[r].keys /\ got'[r].row = got[r].row
                             /\ pc'[r] \in {pc[r], "done", "retrieve", "flag", "drop"}
           /\ \A k \in CacheKey : l1'[k] = NoEntry /\ lease'[k] = NoEntry
           /\ UNCHANGED <<content, shared>> /\ local' = 0 /\ lsh' = {}
           /\ DOMAIN l1' = CacheKey /\ DOMAIN lease' = CacheKey
           /\ DOMAIN pc' = Req /\ DOMAIN got' = Req /\ DOMAIN served' = Req
  <1>1. ASSUME NEW r \in Req
        PROVE  /\ ~LooksUp(r)' /\ ~Stores(r)' /\ ~Promotes(r)' /\ pc'[r] \notin LookupSteps \cup SharedSteps
               /\ got'[r].ver = got[r].ver /\ got'[r].keys = got[r].keys /\ got'[r].row = got[r].row
               /\ pc'[r] \in {pc[r], "done", "retrieve", "flag", "drop"}
    <2>1. StepOf(r) /\ LeadsOn(r)
      BY DEF RouteInv
    <2>2. pc'[r] \in {"done", "retrieve", "flag", "drop"} \/ (pc'[r] = pc[r] /\ ~Stores(r) /\ pc[r] \notin LookupSteps \cup SharedSteps)
      <3>1. CASE pc[r] \in InvalidateSteps
        <4>1. pc'[r] = got[r].then
          BY <3>1, RestartDoes, CutDoes
        <4>2. QED
          BY <2>1, <3>1, <4>1, KindsApart DEF StepOf, LeadsOn
      <3>2. CASE pc[r] \notin InvalidateSteps
        BY <3>2, RestartDoes, CutDoes
      <3>3. QED
        BY <3>1, <3>2
    <2>3. pc'[r] \notin LookupSteps \cup SharedSteps \cup StoreSteps
      BY <2>2, KindsApart DEF Stores
    <2>4. got'[r].ver = got[r].ver /\ got'[r].keys = got[r].keys /\ got'[r].row = got[r].row
      BY RestartDoes DEF Holds
    <2>5. QED
      BY <2>2, <2>3, <2>4, KindsApart DEF LooksUp, Stores, Promotes
  <1>2. QED
    BY <1>1 DEF Restart, Forget

\* The variables stay functions.
LEMMA FunsStep ==
    ASSUME CacheFuns, RouteInv, AskInv, [CacheNext]_cacheVars
    PROVE  CacheFuns'
  <1>1. ASSUME NEW r \in Req, Submit(r) PROVE CacheFuns'
    BY <1>1, SubmitDoes DEF CacheFuns, memory, shared
  <1>2. ASSUME NEW r \in Req, OwnStep(r) PROVE CacheFuns'
    <2>1. EntryWalk(r) /\ TrackWalk(r) /\ DOMAIN pc' = Req /\ DOMAIN got' = Req /\ DOMAIN served' = Req /\ job' = job
      BY <1>2, EntryMoves, TrackMoves, OwnStepAlone
    <2>2. QED
      BY <2>1 DEF CacheFuns, EntryWalk, TrackWalk
  <1>3. ASSUME Restart PROVE CacheFuns'
    BY <1>3, RestartEmpties DEF CacheFuns, shared, Restart
  <1>4. ASSUME UNCHANGED <<job, pc, got, served, memory, shared>> PROVE CacheFuns'
    BY <1>4 DEF CacheFuns, memory, shared
  <1>5. QED
    BY <1>1, <1>2, <1>3, <1>4, CacheTurn, ExpireDoes DEF cacheVars

\* An answer is waited for as long as it is on its way.
LEMMA WaitStep ==
    ASSUME CacheFuns, RouteInv, ArriveInv, AskInv, WaitInv, [CacheNext]_cacheVars
    PROVE  WaitInv'
  <1>1. ASSUME NEW r \in Req, Submit(r) PROVE WaitInv'
    <2>1. /\ \A q \in Req : q # r => pc'[q] = pc[q]
          /\ got' = got /\ lease' = lease /\ met \subseteq met' /\ pc[r] = "free" /\ pc'[r] \in {"start", "inv", "sweep"}
      BY <1>1, SubmitDoes, SubmitGoes DEF memory
    <2>2. ~Owns(r)
      BY <2>1, KindsApart DEF Owns
    <2>3. \A q \in Req : Owns(q) => Owns(q)'
      BY <2>1, <2>2 DEF Owns
    <2>4. QED
      BY <2>1, <2>3 DEF WaitInv
  <1>2. ASSUME NEW r \in Req, OwnStep(r) PROVE WaitInv'
    <2>1. EntryWalk(r) /\ AnswerWalk(r) /\ met' = met /\ (\A q \in Req : q # r => pc'[q] = pc[q] /\ got'[q] = got[q])
          /\ pc[r] \notin {"free", "done"} /\ StepOf(r)
      BY <1>2, EntryMoves, AnswerMoves, OwnStepAlone DEF RouteInv
    <2>2. \A q \in Req : q # r /\ Owns(q) => Owns(q)'
      BY <2>1 DEF Owns
    <2>3. \A k \in CacheKey : lease'[k] # NoEntry => \E q \in Req : q = lease'[k] /\ Owns(q)'
      BY <2>1, <2>2 DEF EntryWalk, WaitInv
    <2>4. pc'[r] = "wait" => got'[r].entry \in Req /\ {got'[r].entry, r} \in met
      <3>1. SUFFICES ASSUME pc'[r] = "wait" PROVE got'[r].entry \in Req /\ {got'[r].entry, r} \in met
        OBVIOUS
      <3>2. lease[KeyOf(r)] # NoEntry /\ got'[r].entry = lease[KeyOf(r)] /\ pc[r] = "miss"
        BY <2>1, <3>1 DEF AnswerWalk
      <3>3. KeyOf(r) \in CacheKey
        BY <2>1, <3>2, KeyFacts, KindsApart DEF StepOf
      <3>4. PICK s \in Req : s = lease[KeyOf(r)] /\ Owns(s)
        BY <3>2, <3>3 DEF WaitInv
      <3>5. s # r /\ pc[s] \notin {"free", "done"}
        BY <3>2, <3>4, KindsApart DEF Owns
      <3>6. QED
        BY <2>1, <3>2, <3>4, <3>5, BothMet
    <2>5. QED
      <3>1. \A k \in CacheKey : lease'[k] # NoEntry => lease'[k] \in Req /\ Owns(lease[k])'
        BY <2>3
      <3>2. \A q \in Req : pc'[q] = "wait" => got'[q].entry \in Req /\ {got'[q].entry, q} \in met'
        BY <2>1, <2>4 DEF WaitInv
      <3>3. QED
        BY <3>1, <3>2 DEF WaitInv
  <1>3. ASSUME Restart PROVE WaitInv'
    BY <1>3, RestartEmpties, KindsApart DEF WaitInv
  <1>4. ASSUME UNCHANGED <<pc, got, lease, met>> PROVE WaitInv'
    BY <1>4 DEF WaitInv, Owns
  <1>5. QED
    BY <1>1, <1>2, <1>3, <1>4, CacheTurn, ExpireDoes DEF cacheVars, memory, history

\* What an edit that raised the version raised it to, and that the version never falls.
VersionRises ==
    /\ version' \in Nat /\ version <= version'
    /\ \A e \in Req : Raised(e)' => (Raised(e) /\ got'[e].ver = got[e].ver)
                                    \/ (pc[e] = "bump" /\ OwnStep(e) /\ got'[e].ver = version' /\ version' = version + 1)

\* Versions rise, and stay ahead of the edits that raised them.
LEMMA VersionSteps ==
    ASSUME CacheFuns, RouteInv, ArriveInv, VersionInv, AskInv, [CacheNext]_cacheVars
    PROVE  VersionInv' /\ VersionRises
  <1> DEFINE P == VersionInv' /\ VersionRises
  <1>1. version \in Nat /\ local \in Nat /\ \A r \in Req : got[r].ver \in Nat
    BY DEF VersionInv
  <1>2. ASSUME NEW r \in Req, Submit(r) PROVE P
    <2>1. /\ \A q \in Req : q # r => pc'[q] = pc[q] /\ job'[q] = job[q]
          /\ got' = got /\ version' = version /\ local' = local /\ hurt' = hurt /\ got[r].ver = 0
      BY <1>2, SubmitDoes, SubmitGoes DEF memory, shared, Nothing
    <2>2. \A e \in Req : Raised(e)' => Raised(e) /\ e # r
      BY <1>1, <2>1 DEF Raised, Kind
    <2>3. \A f \in hurt : f # r
      BY <1>2, SubmitDoes DEF ArriveInv
    <2>4. \A f \in hurt : Kind(f)' = Kind(f)
      BY <2>1, <2>3 DEF Kind, ArriveInv
    <2>5. local' > version' => \E f \in hurt' : Kind(f)' \in Edits
      BY <2>1, <2>4 DEF VersionInv
    <2>6. \A e \in Req : Kind(e)' \in Edits /\ got'[e].ver > 0 => pc'[e] \in {"flag", "drop", "done"}
      BY <2>1 DEF VersionInv, Kind
    <2>7. VersionInv'
      BY <1>1, <2>1, <2>2, <2>5, <2>6 DEF VersionInv, Edits
    <2>8. QED
      BY <1>1, <2>1, <2>2, <2>7 DEF VersionRises
  <1>3. ASSUME NEW r \in Req, OwnStep(r) PROVE P
    <2>1. /\ \A q \in Req : q # r => pc'[q] = pc[q] /\ got'[q] = got[q]
          /\ job' = job /\ hurt' \in {hurt, hurt \cup {r}} /\ AnswerWalk(r)
      BY <1>3, OwnStepAlone, AnswerMoves
    <2>2. CASE Reads(r)
      <3>1. Kind(r) \notin Edits /\ got'[r].ver \in Nat /\ UNCHANGED <<version, local>>
        BY <2>2, CacheNumbers, KindsApart DEF Reads, Version
      <3>2. \A e \in Req : Raised(e)' => Raised(e) /\ e # r
        BY <2>1, <3>1 DEF Raised, Kind, Edits
      <3>3. VersionInv'
        <4>1. local' > version' => \E f \in hurt' : Kind(f)' \in Edits
          BY <2>1, <3>1 DEF VersionInv, Kind, Edits
        <4>2. \A e \in Req : Kind(e)' \in Edits /\ got'[e].ver > 0 => pc'[e] \in {"flag", "drop", "done"}
          BY <2>1, <3>1 DEF VersionInv, Kind, Edits
        <4>3. \A e \in Req : Raised(e)' => got'[e].ver <= version'
          BY <2>1, <3>1, <3>2 DEF VersionInv
        <4>4. QED
          BY <1>1, <2>1, <3>1, <4>1, <4>2, <4>3 DEF VersionInv, Edits
      <3>4. QED
        BY <1>1, <2>1, <3>1, <3>2, <3>3 DEF VersionRises
    <2>3. CASE Raises(r)
      <3>1. StepOf(r) /\ LeadsOn(r)
        BY DEF RouteInv
      <3>2. pc'[r] \in {"flag", "drop"} /\ got'[r].ver = local' /\ Kind(r) \in Edits
        BY <2>3, <3>1, KindsApart DEF Raises, LeadsOn
      <3>3. \/ version' = version + 1 /\ local' = version + 1 /\ hurt' = hurt
            \/ version' = version /\ local' = local + 1 /\ hurt' = hurt \cup {r}
        BY <2>3 DEF Raises
      <3>4. \A e \in Req : e # r /\ Raised(e)' => Raised(e)
        BY <2>1, <3>3 DEF Raised, Kind, Edits
      <3>5. Raised(r)' => version' = version + 1 /\ got'[r].ver = version'
        BY <3>2, <3>3 DEF Raised
      <3>6. VersionInv'
        <4>1. local' > version' => \E f \in hurt' : Kind(f)' \in Edits
          BY <1>1, <2>1, <3>2, <3>3 DEF Kind, Edits
        <4>2. \A e \in Req : Kind(e)' \in Edits /\ got'[e].ver > 0 => pc'[e] \in {"flag", "drop", "done"}
          BY <2>1, <3>2 DEF VersionInv, Kind, Edits
        <4>3. \A e \in Req : Raised(e)' => got'[e].ver <= version'
          <5>1. SUFFICES ASSUME NEW e \in Req, Raised(e)' PROVE got'[e].ver <= version'
            OBVIOUS
          <5>2. CASE e = r
            BY <1>1, <3>5, <5>1, <5>2
          <5>3. CASE e # r
            <6>1. got[e].ver <= version
              BY <3>4, <5>1, <5>3 DEF VersionInv
            <6>2. QED
              BY <1>1, <2>1, <3>3, <5>3, <6>1
          <5>4. QED
            BY <5>2, <5>3
        <4>4. QED
          BY <1>1, <2>1, <3>2, <3>3, <4>1, <4>2, <4>3 DEF VersionInv, Edits
      <3>7. pc[r] = "bump"
        BY <2>3 DEF Raises
      <3>8. QED
        BY <1>1, <1>3, <2>1, <3>3, <3>4, <3>5, <3>6, <3>7 DEF VersionRises
    <2>4. CASE LetsBe(r)
      <3>1. UNCHANGED <<version, local>> /\ (got'[r].ver = got[r].ver \/ (got'[r].ver = 0 /\ Kind(r) = "ask"))
        BY <2>4 DEF LetsBe
      <3>2. \A e \in Req : Raised(e)' => Raised(e) /\ got'[e].ver = got[e].ver
        BY <2>1, <3>1 DEF Raised, Kind, Edits
      <3>3. VersionInv'
        <4>1. local' > version' => \E f \in hurt' : Kind(f)' \in Edits
          BY <2>1, <3>1 DEF VersionInv, Kind, Edits
        <4>2. \A e \in Req : Kind(e)' \in Edits /\ got'[e].ver > 0 => pc'[e] \in {"flag", "drop", "done"}
          <5>1. SUFFICES ASSUME NEW e \in Req, Kind(e) \in Edits, got'[e].ver > 0 PROVE pc'[e] \in {"flag", "drop", "done"}
            BY <2>1 DEF Kind, Edits
          <5>2. got[e].ver > 0
            BY <2>1, <3>1, <5>1 DEF Edits
          <5>3. pc[e] \in {"flag", "drop", "done"}
            BY <5>1, <5>2 DEF VersionInv
          <5>4. e = r => pc[e] # "done"
            BY <1>3, OwnStepAlone
          <5>5. QED
            BY <2>1, <5>3, <5>4 DEF AnswerWalk
        <4>3. \A e \in Req : Raised(e)' => got'[e].ver <= version'
          BY <3>1, <3>2 DEF VersionInv
        <4>4. QED
          BY <1>1, <2>1, <3>1, <4>1, <4>2, <4>3 DEF VersionInv, Edits
      <3>4. QED
        BY <1>1, <3>1, <3>2, <3>3 DEF VersionRises
    <2>5. QED
      BY <1>3, <2>2, <2>3, <2>4, VersionMoves
  <1>4. ASSUME Restart PROVE P
    <2>1. /\ job' = job /\ hurt \subseteq hurt' /\ version' = version /\ local' = 0
          /\ \A r \in Req : got'[r].ver = got[r].ver
      BY <1>4, RestartEmpties DEF shared, Restart
    <2>2. \A e \in Req : Raised(e)' => Raised(e)
      BY <2>1 DEF Raised, Kind, Edits
    <2>3. \A e \in Req : pc[e] \in {"flag", "drop", "done"} => pc'[e] \in {"flag", "drop", "done"}
      BY <1>4, RestartDoes, CutDoes, KindsApart DEF Stores, Sweeping, LooksUp
    <2>4. \A e \in Req : Kind(e)' \in Edits /\ got'[e].ver > 0 => pc'[e] \in {"flag", "drop", "done"}
      BY <2>1, <2>3 DEF VersionInv, Kind, Edits
    <2>5. VersionInv'
      BY <1>1, <2>1, <2>2, <2>4 DEF VersionInv
    <2>6. QED
      BY <1>1, <2>1, <2>2, <2>5 DEF VersionRises
  <1>5. ASSUME UNCHANGED <<job, pc, got, hurt, version, local>> PROVE P
    <2>1. \A e \in Req : Raised(e)' = Raised(e)
      BY <1>5 DEF Raised, Kind, Edits
    <2>2. QED
      BY <1>1, <1>5, <2>1 DEF VersionInv, VersionRises, Kind, Edits
  <1> HIDE DEF P
  <1>6. P
    BY <1>2, <1>3, <1>4, <1>5, CacheTurn, ExpireDoes DEF cacheVars, memory, shared, history
  <1>7. QED
    BY <1>6 DEF P

\* A question looks with a version no older than the edits before it, and stores with one that is not ahead.
LEMMA AsksStep ==
    ASSUME CacheFuns, RouteInv, ArriveInv, VersionInv, AskInv, [CacheNext]_cacheVars
    PROVE  AskInv'
  <1>1. VersionRises /\ version \in Nat /\ local \in Nat /\ \A r \in Req : got[r].ver \in Nat
    BY VersionSteps DEF VersionInv
  <1>2. ASSUME NEW r \in Req, Submit(r) PROVE AskInv'
    <2>1. /\ \A q \in Req : q # r => pc'[q] = pc[q] /\ job'[q] = job[q] /\ Kind(q)' = Kind(q)
          /\ got' = got /\ version' = version /\ hurt' = hurt /\ got[r].ver = 0 /\ Kind(r) = "none"
          /\ pc'[r] \in {"start", "inv", "sweep"} /\ pc[r] = "free"
      BY <1>2, SubmitDoes, SubmitGoes DEF memory, shared, Nothing, Kind
    <2>2. ~LooksUp(r)' /\ ~Stores(r)'
      BY <2>1, KindsApart DEF LooksUp, Stores
    <2>3. \A q \in Req : q # r => (LooksUp(q)' = LooksUp(q)) /\ (Stores(q)' = Stores(q))
      BY <2>1 DEF LooksUp, Stores, LookupSteps, SharedSteps, StoreSteps
    <2>4. \A e \in Req : Raised(e)' => Raised(e) /\ e # r
      BY <1>1, <2>1 DEF Raised, Edits
    <2>5. \A q \in Req : Kind(q)' = "ask" => got'[q].ver \in Version
      BY <2>1, CacheNumbers DEF AskInv, Version
    <2>6. \A q, e \in Req : LooksUp(q)' /\ q \notin hurt' /\ Raised(e)' /\ Before(e, q)' => got'[e].ver <= got'[q].ver
      BY <1>2, <2>1, <2>2, <2>3, <2>4, Lasts DEF AskInv
    <2>7. \A q \in Req : Stores(q)' => got'[q].ver <= version' \/ Excused(q)'
      BY <2>1, <2>2, <2>3, <1>2, ExcusesLast DEF AskInv
    <2>8. QED
      BY <2>5, <2>6, <2>7 DEF AskInv
  <1>3. ASSUME NEW r \in Req, OwnStep(r) PROVE AskInv'
    <2>1. /\ \A q \in Req : q # r => pc'[q] = pc[q] /\ got'[q] = got[q] /\ LooksUp(q)' = LooksUp(q) /\ Stores(q)' = Stores(q)
          /\ job' = job /\ hurt \subseteq hurt' /\ met' = met /\ pc[r] \notin {"free", "done"} /\ StepOf(r)
      <3>1. /\ \A q \in Req : q # r => pc'[q] = pc[q] /\ got'[q] = got[q]
            /\ job' = job /\ hurt \subseteq hurt' /\ met' = met /\ pc[r] \notin {"free", "done"} /\ StepOf(r)
        BY <1>3, OwnStepAlone DEF RouteInv
      <3>2. QED
        BY <3>1 DEF LooksUp, Stores, Kind, LookupSteps, SharedSteps, StoreSteps
    <2>2. Reads(r) \/ Raises(r) \/ LetsBe(r)
      BY <1>3, VersionMoves
    <2>3. \A q \in Req : Kind(q)' = "ask" => got'[q].ver \in Version
      <3>1. \A q \in Req : Kind(q) = "ask" => got[q].ver \in Version
        BY DEF AskInv
      <3>2. Kind(r) = "ask" => got'[r].ver \in Version
        BY <2>2, <3>1, CacheNumbers DEF Reads, Raises, LetsBe, Version, Edits
      <3>3. QED
        BY <2>1, <3>1, <3>2 DEF Kind
    <2>4. ASSUME NEW q \in Req, NEW e \in Req, LooksUp(q)', q \notin hurt', Raised(e)', Before(e, q)'
          PROVE  got'[e].ver <= got'[q].ver
      <3>1. Before(e, q) /\ q \notin hurt
        BY <2>1, <2>4 DEF Before
      <3>2. CASE Reads(q) /\ q = r
        <4>1. Raised(e) /\ got'[e].ver = got[e].ver
          BY <1>1, <2>4, <3>2 DEF VersionRises, Reads
        <4>2. got[e].ver <= version /\ got[e].ver > 0 /\ got[e].ver \in Nat
          BY <1>1, <4>1 DEF VersionInv, Raised
        <4>3. got'[q].ver = IF version > 0 THEN version ELSE local
          BY <2>4, <3>2 DEF Reads
        <4>4. QED
          BY <1>1, <4>1, <4>2, <4>3
      <3>3. CASE LooksUp(q) /\ got'[q].ver = got[q].ver
        <4>1. CASE Raised(e) /\ got'[e].ver = got[e].ver
          BY <2>4, <3>1, <3>3, <4>1 DEF AskInv
        <4>2. CASE pc[e] = "bump"
          <5>1. pc[q] \notin {"free", "done"}
            BY <3>3, KindsApart DEF LooksUp
          <5>2. QED
            BY <3>1, <4>2, <5>1, EndedFirst
        <4>3. QED
          BY <1>1, <2>4, <4>1, <4>2 DEF VersionRises
      <3>4. q # r \/ (LooksUp(r) /\ got'[r].ver = got[r].ver) \/ Reads(r)
        <4>1. CASE q = r /\ Raises(r)
          <5>1. pc'[q] \in {"flag", "drop"}
            BY <2>1, <4>1, KindsApart DEF Raises, LeadsOn, RouteInv
          <5>2. ~LooksUp(q)'
            BY <5>1, KindsApart DEF LooksUp
          <5>3. QED
            BY <2>4, <5>2
        <4>2. CASE q = r /\ LetsBe(r)
          BY <2>4, <4>2 DEF LetsBe
        <4>3. QED
          BY <2>2, <4>1, <4>2
      <3>5. QED
        BY <2>1, <2>4, <3>2, <3>3, <3>4
    <2>5. ASSUME NEW q \in Req, Stores(q)' PROVE got'[q].ver <= version' \/ Excused(q)'
      <3>1. CASE Stores(q) /\ got'[q].ver = got[q].ver
        <4>1. got[q].ver <= version \/ Excused(q)
          BY <3>1 DEF AskInv
        <4>2. CASE got[q].ver <= version
          BY <1>1, <3>1, <4>2 DEF VersionRises
        <4>3. QED
          BY <4>1, <4>2, ExcusesLast
      <3>2. CASE q = r /\ Reads(r)
        <4>1. version' = version /\ got'[r].ver \in {version, local}
          BY <3>2 DEF Reads
        <4>2. CASE got'[r].ver <= version
          BY <3>2, <4>1, <4>2
        <4>3. CASE ~(got'[r].ver <= version)
          <5>1. local > version
            BY <1>1, <4>1, <4>3
          <5>2. PICK f \in hurt : Kind(f) \in Edits
            BY <5>1 DEF VersionInv
          <5>3. ~Before(r, f)
            BY <2>1, <5>2, EndedFirst DEF ArriveInv
          <5>4. Excused(r)
            BY <5>2, <5>3 DEF Excused
          <5>5. QED
            BY <3>2, <5>4, ExcusesLast
        <4>4. QED
          BY <4>2, <4>3
      <3>3. q # r \/ (Stores(r) /\ got'[r].ver = got[r].ver) \/ Reads(r)
        <4>1. CASE q = r /\ Raises(r)
          <5>1. pc'[q] \in {"flag", "drop"}
            BY <2>1, <4>1, KindsApart DEF Raises, LeadsOn, RouteInv
          <5>2. ~Stores(q)'
            BY <5>1, KindsApart DEF Stores
          <5>3. QED
            BY <2>5, <5>2
        <4>2. CASE q = r /\ LetsBe(r)
          BY <2>5, <4>2 DEF LetsBe
        <4>3. QED
          BY <2>2, <4>1, <4>2
      <3>4. QED
        BY <2>1, <2>5, <3>1, <3>2, <3>3
    <2>6. QED
      BY <2>3, <2>4, <2>5 DEF AskInv
  <1>4. ASSUME Restart PROVE AskInv'
    <2>1. /\ \A q \in Req : ~LooksUp(q)' /\ ~Stores(q)' /\ got'[q].ver = got[q].ver
          /\ job' = job
      BY <1>4, RestartEmpties DEF Restart
    <2>2. QED
      BY <2>1 DEF AskInv, Kind
  <1>5. ASSUME UNCHANGED <<job, pc, got, hurt, met, version>> PROVE AskInv'
    <2>1. \A e \in Req : /\ Raised(e)' = Raised(e) /\ LooksUp(e)' = LooksUp(e) /\ Stores(e)' = Stores(e) /\ Excused(e)' = Excused(e)
                         /\ Kind(e)' = Kind(e) /\ \A q \in Req : Before(q, e)' = Before(q, e)
      BY <1>5 DEF Raised, Kind, Edits, LooksUp, Stores, LookupSteps, SharedSteps, StoreSteps, Excused, Before
    <2>2. QED
      BY <1>5, <2>1 DEF AskInv
  <1>6. QED
    BY <1>2, <1>3, <1>4, <1>5, CacheTurn, ExpireDoes DEF cacheVars, shared, history

-----------------------------------------------------------------------------
(* Where answers are, and who gets them *)

\* An answer stays below the versions of the edits that come after it.
LEMMA ValidLasts ==
    ASSUME CacheFuns, RouteInv, ArriveInv, VersionInv, AskInv, [CacheNext]_cacheVars, NEW s, NEW n \in Nat, NEW k, k[2] = n, Valid(s, k)
    PROVE  Valid(s, k)'
  <1>1. VersionRises /\ version \in Nat
    BY VersionSteps DEF VersionInv
  <1>2. Known(s)'
    BY Lasts DEF Valid
  <1>3. CASE Excused(s)
    BY <1>2, <1>3, ExcusesLast DEF Valid
  <1>4. CASE n <= version /\ \A e \in Req : Raised(e) /\ Before(s, e) => n < got[e].ver
    <2>1. n <= version'
      BY <1>1, <1>4 DEF VersionRises
    <2>2. ASSUME NEW e \in Req, Raised(e)', Before(s, e)' PROVE n < got'[e].ver
      <3>1. Before(s, e)
        BY <2>2, Lasts
      <3>2. CASE Raised(e) /\ got'[e].ver = got[e].ver
        BY <1>4, <3>1, <3>2
      <3>3. CASE got'[e].ver = version + 1
        BY <1>1, <1>4, <3>3
      <3>4. QED
        BY <1>1, <2>2, <3>2, <3>3 DEF VersionRises
    <2>3. QED
      BY <1>2, <2>1, <2>2 DEF Valid
  <1>5. QED
    BY <1>3, <1>4 DEF Valid

\* What a question stores is under a version that is not ahead, and nobody came after it.
LEMMA StoresValid ==
    ASSUME RouteInv, ArriveInv, AskInv, NEW r \in Req, Stores(r)
    PROVE  Valid(r, KeyOf(r))
  <1>1. pc[r] \notin {"free", "done"} /\ KeyOf(r)[2] = got[r].ver
    BY KindsApart DEF Stores, KeyOf
  <1>2. ASSUME NEW e \in Req, Raised(e), Before(r, e) PROVE FALSE
    <2>1. pc[e] # "free"
      BY <1>2 DEF Raised, RouteInv, StepOf, Edits
    <2>2. QED
      BY <1>1, <1>2, <2>1, EndedFirst
  <1>3. QED
    BY <1>1, <1>2 DEF AskInv, Valid, Known

\* What is to be an answer's place is one under which it was valid before the step.
Placed ==
    /\ \A k \in CacheKey : \A s : l1'[k] = s /\ s # NoEntry => Valid(s, k)
    /\ \A k \in CacheKey : \A s : redis'[k] = s /\ s # NoEntry => Valid(s, k)
    /\ \A r \in Req : Promotes(r)' => \E k \in CacheKey : k = KeyOf(r)' /\ \A s : s = got'[r].entry => Valid(s, k)

\* Entries placed under a valid key make the next state's entries valid.
LEMMA PlacedIsPlaced ==
    ASSUME CacheFuns, RouteInv, ArriveInv, VersionInv, AskInv, [CacheNext]_cacheVars, Placed
    PROVE  PlaceInv'
  <1>1. \A k \in CacheKey : k[2] \in Nat
    BY CacheNumbers DEF CacheKey, Version
  <1>2. ASSUME NEW k \in CacheKey, NEW s, Valid(s, k) PROVE Valid(s, k)'
    BY <1>1, <1>2, ValidLasts
  <1>3. ASSUME NEW k \in CacheKey, l1'[k] # NoEntry PROVE Valid(l1[k], k)'
    <2>1. PICK s : s = l1'[k]
      OBVIOUS
    <2>2. Valid(s, k)'
      BY <1>2, <1>3, <2>1 DEF Placed
    <2>3. QED
      BY <2>1, <2>2 DEF Valid, Excused, Known, Before
  <1>4. ASSUME NEW k \in CacheKey, redis'[k] # NoEntry PROVE Valid(redis[k], k)'
    <2>1. PICK s : s = redis'[k]
      OBVIOUS
    <2>2. Valid(s, k)'
      BY <1>2, <1>4, <2>1 DEF Placed
    <2>3. QED
      BY <2>1, <2>2 DEF Valid, Excused, Known, Before
  <1>5. ASSUME NEW r \in Req, Promotes(r)' PROVE Valid(got[r].entry, KeyOf(r))'
    <2>1. PICK k \in CacheKey : k = KeyOf(r)' /\ \A s : s = got'[r].entry => Valid(s, k)
      BY <1>5 DEF Placed
    <2>2. PICK s : s = got'[r].entry
      OBVIOUS
    <2>3. Valid(s, k)'
      BY <1>2, <2>1, <2>2
    <2>4. QED
      BY <2>1, <2>2, <2>3 DEF Valid, Excused, Known, Before
  <1>6. QED
    BY <1>3, <1>4, <1>5 DEF PlaceInv

\* Answers stay where later edits retire them.
LEMMA PlaceStep ==
    ASSUME CacheFuns, RouteInv, ArriveInv, VersionInv, AskInv, PlaceInv, [CacheNext]_cacheVars
    PROVE  PlaceInv'
  <1>1. ASSUME UNCHANGED redis, \A k \in CacheKey : l1'[k] \in {l1[k], NoEntry},
               \A r \in Req : Promotes(r)' => Promotes(r) /\ got'[r] = got[r] /\ job'[r] = job[r] /\ Kind(r) = "ask"
        PROVE  Placed
    <2>1. ASSUME NEW r \in Req, Promotes(r)'
          PROVE  \E k \in CacheKey : k = KeyOf(r)' /\ \A s : s = got'[r].entry => Valid(s, k)
      <3>1. Promotes(r) /\ got'[r] = got[r] /\ KeyOf(r)' = KeyOf(r) /\ KeyOf(r) \in CacheKey
        BY <1>1, <2>1, KeyFacts DEF KeyOf, On
      <3>2. QED
        BY <3>1 DEF PlaceInv
    <2>2. QED
      BY <1>1, <2>1 DEF Placed, PlaceInv
  <1>2. \A r \in Req : Promotes(r) => Kind(r) = "ask"
    BY KindsApart DEF Promotes, RouteInv, StepOf
  <1>3. ASSUME NEW r \in Req, Submit(r) PROVE Placed
    <2>1. /\ \A q \in Req : q # r => pc'[q] = pc[q] /\ job'[q] = job[q]
          /\ got' = got /\ l1' = l1 /\ redis' = redis /\ pc'[r] \in {"start", "inv", "sweep"}
      BY <1>3, SubmitDoes, SubmitGoes DEF memory, shared
    <2>2. \A q \in Req : Promotes(q)' => Promotes(q) /\ q # r
      BY <2>1 DEF Promotes
    <2>3. QED
      BY <1>1, <1>2, <2>1, <2>2
  <1>4. ASSUME NEW r \in Req, OwnStep(r) PROVE Placed
    <2>1. /\ EntryWalk(r) /\ AnswerWalk(r) /\ job' = job /\ StepOf(r)
          /\ \A q \in Req : q # r => pc'[q] = pc[q] /\ got'[q] = got[q]
      BY <1>4, EntryMoves, AnswerMoves, OwnStepAlone DEF RouteInv
    <2>2. ASSUME NEW k \in CacheKey, NEW s, l1'[k] = s, s # NoEntry PROVE Valid(s, k)
      <3>1. CASE l1'[k] = l1[k]
        BY <2>2, <3>1 DEF PlaceInv
      <3>2. CASE k = KeyOf(r) /\ pc[r] = "promote" /\ l1'[k] = got[r].entry
        BY <2>2, <3>2 DEF PlaceInv, Promotes
      <3>3. CASE k = KeyOf(r) /\ pc[r] = "put" /\ l1'[k] = r
        <4>1. Stores(r)
          BY <3>3, KindsApart DEF Stores
        <4>2. QED
          BY <2>2, <3>3, <4>1, StoresValid
      <3>4. QED
        BY <2>1, <2>2, <3>1, <3>2, <3>3 DEF EntryWalk
    <2>3. ASSUME NEW k \in CacheKey, NEW s, redis'[k] = s, s # NoEntry PROVE Valid(s, k)
      <3>1. CASE redis'[k] = redis[k]
        BY <2>3, <3>1 DEF PlaceInv
      <3>2. CASE k = KeyOf(r) /\ pc[r] = "l2" /\ redis'[k] = r
        <4>1. Stores(r)
          BY <3>2, KindsApart DEF Stores
        <4>2. QED
          BY <2>3, <3>2, <4>1, StoresValid
      <3>3. QED
        BY <2>1, <2>3, <3>1, <3>2 DEF EntryWalk
    <2>4. ASSUME NEW q \in Req, Promotes(q)'
          PROVE  \E k \in CacheKey : k = KeyOf(q)' /\ \A s : s = got'[q].entry => Valid(s, k)
      <3>1. CASE Promotes(q) /\ got'[q].entry = got[q].entry /\ got'[q].ver = got[q].ver
        <4>1. KeyOf(q)' = KeyOf(q) /\ KeyOf(q) \in CacheKey
          BY <1>2, <2>1, <3>1, KeyFacts DEF KeyOf, On
        <4>2. QED
          BY <3>1, <4>1 DEF PlaceInv
      <3>2. CASE q = r /\ pc[r] = "exact" /\ redis[KeyOf(r)] # NoEntry /\ got'[r].entry = redis[KeyOf(r)] /\ got'[r].ver = got[r].ver
        <4>1. KeyOf(r)' = KeyOf(r) /\ KeyOf(r) \in CacheKey
          BY <2>1, <3>2, KeyFacts, KindsApart DEF KeyOf, On, StepOf
        <4>2. QED
          BY <3>2, <4>1 DEF PlaceInv
      <3>3. q # r => Promotes(q) /\ got'[q] = got[q]
        BY <2>1, <2>4 DEF Promotes
      <3>4. QED
        BY <2>1, <2>4, <3>1, <3>2, <3>3 DEF AnswerWalk
    <2>5. QED
      BY <2>2, <2>3, <2>4 DEF Placed
  <1>5. ASSUME Restart PROVE Placed
    BY <1>1, <1>5, RestartEmpties DEF shared
  <1>6. ASSUME UNCHANGED <<job, pc, got, l1, redis>> PROVE Placed
    <2>1. \A r \in Req : Promotes(r)' = Promotes(r)
      BY <1>6 DEF Promotes
    <2>2. QED
      BY <1>1, <1>2, <1>6, <2>1
  <1>7. Placed
    BY <1>3, <1>4, <1>5, <1>6, CacheTurn, ExpireDoes DEF cacheVars, memory, shared
  <1>8. QED
    BY <1>7, PlacedIsPlaced

\* What a question is answered with was there for it to see: no edit retired it before, or there is an excuse.
Allowed(s, r) ==
    /\ Known(s)
    /\ \A e \in Req : Raised(e) /\ Before(s, e) /\ Before(e, r) => r \in hurt' \/ Excused(s)

\* What a lookup finds under its version may be given.
LEMMA LookupAllowed ==
    ASSUME CacheFuns, RouteInv, ArriveInv, VersionInv, AskInv, NEW r \in Req, LooksUp(r), NEW s, NEW k \in CacheKey,
           k[2] = got[r].ver, Valid(s, k), hurt \subseteq hurt'
    PROVE  Allowed(s, r)
  <1>1. ASSUME NEW e \in Req, Raised(e), Before(s, e), Before(e, r), r \notin hurt', ~Excused(s) PROVE FALSE
    <2>1. got[e].ver <= got[r].ver
      BY <1>1 DEF AskInv
    <2>2. got[r].ver < got[e].ver
      BY <1>1 DEF Valid
    <2>3. got[r].ver \in Nat /\ got[e].ver \in Nat
      BY DEF VersionInv
    <2>4. QED
      BY <2>1, <2>2, <2>3
  <1>2. QED
    BY <1>1 DEF Allowed, Valid

\* An answer that a question made itself, or one it waited for, is no older than the question.
LEMMA OwnAllowed ==
    ASSUME RouteInv, ArriveInv, NEW r \in Req, pc[r] # "free"
    PROVE  Allowed(r, r) /\ \A s \in Req : {s, r} \in met => Allowed(s, r)
  <1>1. \A e \in Req : ~(Before(r, e) /\ Before(e, r))
    BY CacheNumbers DEF Before
  <1>2. ASSUME NEW s \in Req, {s, r} \in met, NEW e \in Req, Before(s, e), Before(e, r) PROVE FALSE
    <2>1. pc[e] = "done"
      BY <1>2, EndedFirst
    <2>2. {s, r} \notin met
      BY <1>2, <2>1, EndedFirst DEF Before
    <2>3. QED
      BY <1>2, <2>2
  <1>3. \A s \in Req : {s, r} \in met => Known(s)
    BY DEF ArriveInv, Known
  <1>4. QED
    BY <1>1, <1>2, <1>3 DEF Allowed, Known

\* What a step answers is allowed.
LEMMA AnswerAllowed ==
    ASSUME CacheFuns, RouteInv, ArriveInv, VersionInv, AskInv, PlaceInv, WaitInv, NEW r \in Req, OwnStep(r), served'[r] # served[r]
    PROVE  pc'[r] = "done" /\ Kind(r) = "ask" /\ \A s : s = served'[r] => Allowed(s, r)
  <1>1. /\ AnswerWalk(r) /\ StepOf(r) /\ pc[r] \notin {"free", "done"} /\ hurt \subseteq hurt'
        /\ pc'[r] = "done" /\ Kind(r) = "ask" /\ KeyOf(r) \in CacheKey /\ KeyOf(r)[2] = got[r].ver
    BY AnswerMoves, OwnStepAlone, KeyFacts DEF RouteInv, AnswerWalk
  <1>2. SUFFICES ASSUME NEW s, s = served'[r] PROVE Allowed(s, r)
    BY <1>1
  <1>3. CASE pc[r] = "exact" /\ l1[KeyOf(r)] # NoEntry /\ s = l1[KeyOf(r)]
    <2>1. LooksUp(r) /\ Valid(s, KeyOf(r))
      BY <1>1, <1>3, KindsApart DEF LooksUp, PlaceInv
    <2>2. QED
      BY <1>1, <2>1, LookupAllowed
  <1>4. CASE pc[r] = "hit" /\ s = got[r].entry
    <2>1. LooksUp(r) /\ Valid(s, KeyOf(r))
      BY <1>1, <1>4, KindsApart DEF LooksUp, PlaceInv, Promotes
    <2>2. QED
      BY <1>1, <2>1, LookupAllowed
  <1>5. CASE pc[r] = "semantic" /\ \E k \in CacheKey : l1[k] # NoEntry /\ k[2] = got[r].ver /\ s = l1[k]
    <2>1. PICK k \in CacheKey : l1[k] # NoEntry /\ k[2] = got[r].ver /\ s = l1[k]
      BY <1>5
    <2>2. LooksUp(r) /\ Valid(s, k)
      BY <1>1, <1>5, <2>1, KindsApart DEF LooksUp, PlaceInv
    <2>3. QED
      BY <1>1, <2>1, <2>2, LookupAllowed
  <1>6. CASE pc[r] = "wait" /\ s = got[r].entry
    BY <1>1, <1>6, OwnAllowed DEF WaitInv
  <1>7. CASE s = r
    BY <1>1, <1>7, OwnAllowed
  <1>8. QED
    BY <1>1, <1>2, <1>3, <1>4, <1>5, <1>6, <1>7 DEF AnswerWalk

\* Nobody is given what an edit before the question retired.
LEMMA ServedStep ==
    ASSUME CacheFuns, RouteInv, ArriveInv, VersionInv, AskInv, PlaceInv, WaitInv, ServedInv, [CacheNext]_cacheVars
    PROVE  ServedInv'
  <1>1. SUFFICES ASSUME NEW r \in Req, NEW s, s = served'[r], s # NoEntry
                 PROVE  /\ pc'[r] = "done" /\ Known(s)'
                        /\ \A e \in Req : Raised(e)' /\ Before(s, e)' /\ Before(e, r)' => r \in hurt' \/ Excused(s)'
    <2>1. ASSUME NEW r \in Req, served'[r] # NoEntry
          PROVE  /\ pc'[r] = "done" /\ Known(served[r])'
                 /\ \A e \in Req : Raised(e)' /\ Before(served[r], e)' /\ Before(e, r)' => r \in hurt' \/ Excused(served[r])'
      <3>1. PICK s : s = served'[r]
        OBVIOUS
      <3>2. /\ pc'[r] = "done" /\ Known(s)'
            /\ \A e \in Req : Raised(e)' /\ Before(s, e)' /\ Before(e, r)' => r \in hurt' \/ Excused(s)'
        BY <1>1, <2>1, <3>1
      <3>3. QED
        BY <3>1, <3>2 DEF Known, Before, Excused
    <2>2. QED
      BY <2>1 DEF ServedInv
  <1>2. VersionRises
    BY VersionSteps
  \* Who had its answer, and who gets one now.
  <1>3. CASE served'[r] = served[r]
    <2>1. pc[r] = "done" /\ Known(s)
      BY <1>1, <1>3 DEF ServedInv
    <2>2. pc'[r] = "done"
      <3>1. ASSUME NEW q \in Req, Submit(q) PROVE pc'[r] = "done"
        BY <2>1, <3>1, SubmitDoes
      <3>2. QED
        BY <2>1, <3>1, StaysStill DEF Still
    <2>3. ASSUME NEW e \in Req, Raised(e)', Before(s, e)', Before(e, r)' PROVE r \in hurt' \/ Excused(s)'
      <3>1. Before(s, e) /\ Before(e, r)
        BY <2>3, Lasts
      <3>2. pc[e] = "done"
        BY <2>1, <3>1, EndedFirst
      <3>3. Raised(e)
        BY <1>2, <2>3, <3>2 DEF VersionRises
      <3>4. r \in hurt \/ Excused(s)
        BY <1>1, <1>3, <3>1, <3>3 DEF ServedInv
      <3>5. QED
        BY <3>4, Lasts, ExcusesLast
    <2>4. QED
      BY <2>1, <2>2, <2>3, Lasts
  <1>4. CASE served'[r] # served[r]
    <2>1. pc'[r] = "done" /\ Allowed(s, r) /\ pc[r] # "bump" /\ \A e \in Req : Raised(e)' => Raised(e)
      <3>1. (\E q \in Req : OwnStep(q)) \/ Restart
        BY <1>4, CacheTurn, SubmitDoes, ExpireDoes DEF cacheVars
      <3>2. ASSUME NEW q \in Req, OwnStep(q)
            PROVE  pc'[r] = "done" /\ Allowed(s, r) /\ pc[r] # "bump" /\ \A e \in Req : Raised(e)' => Raised(e)
        <4>1. q = r
          BY <1>4, <3>2, OwnStepAlone
        <4>2. pc'[r] = "done" /\ Kind(r) = "ask" /\ Allowed(s, r)
          BY <1>1, <1>4, <3>2, <4>1, AnswerAllowed
        <4>3. StepOf(r)
          BY DEF RouteInv
        <4>4. pc[r] # "bump"
          BY <4>2, <4>3, KindsApart DEF StepOf
        <4>5. \A e \in Req : e # r => pc'[e] = pc[e] /\ got'[e] = got[e] /\ Kind(e)' = Kind(e)
          BY <3>2, <4>1, OwnStepAlone DEF Kind
        <4>6. Reads(r) \/ LetsBe(r)
          BY <3>2, <4>1, <4>4, VersionMoves DEF Raises
        <4>7. version' = version /\ version \in Nat
          BY <4>6 DEF Reads, LetsBe, VersionInv
        <4>8. QED
          BY <1>2, <4>2, <4>4, <4>7 DEF VersionRises
      <3>3. ASSUME Restart
            PROVE  pc'[r] = "done" /\ Allowed(s, r) /\ pc[r] # "bump" /\ \A e \in Req : Raised(e)' => Raised(e)
        <4>1. Kind(r) = "ask" /\ pc'[r] = "done" /\ s = r /\ pc[r] # "done"
          BY <1>1, <1>4, <3>3, RestartDoes
        <4>2. pc[r] # "free"
          BY <4>1, <3>3, RestartGoes
        <4>3. version' = version /\ version \in Nat
          BY <3>3, RestartEmpties DEF shared, VersionInv
        <4>4. StepOf(r)
          BY DEF RouteInv
        <4>5. pc[r] # "bump"
          BY <4>1, <4>4, KindsApart DEF StepOf
        <4>6. QED
          BY <1>2, <4>1, <4>2, <4>3, <4>5, OwnAllowed DEF VersionRises
      <3>4. QED
        BY <3>1, <3>2, <3>3
    <2>2. ASSUME NEW e \in Req, Raised(e)', Before(s, e)', Before(e, r)' PROVE r \in hurt' \/ Excused(s)'
      <3>1. Before(s, e) /\ Before(e, r) /\ Raised(e)
        BY <2>1, <2>2, Lasts
      <3>2. QED
        BY <2>1, <3>1, ExcusesLast DEF Allowed
    <2>3. QED
      BY <2>1, <2>2, Lasts DEF Allowed
  <1>5. QED
    BY <1>3, <1>4

-----------------------------------------------------------------------------
(* Entries and those who find them *)

\* A question in flight beside another request blurs every answer there is.
LEMMA Blurs ==
    ASSUME RouteInv, ArriveInv, NEW q \in Req, NEW r \in Req, q # r, Kind(q) = "ask",
           pc[q] \notin {"free", "done"}, pc[r] \notin {"free", "done"}, NEW s, Known(s)
    PROVE  Blurred(s)
  <1>1. {q, r} \in met
    BY BothMet
  <1>2. ~Before(q, s)
    <2>1. CASE s = 0
      BY <2>1, CacheNumbers DEF Before
    <2>2. CASE s \in Req /\ pc[s] # "free"
      BY <2>2, EndedFirst
    <2>3. QED
      BY <2>1, <2>2 DEF Known
  <1>3. QED
    BY <1>1, <1>2 DEF Blurred

\* What an entry of L1 was before the step: there already, or put now by a question in flight.
LEMMA EntryComes ==
    ASSUME CacheFuns, RouteInv, PlaceInv, NEW r \in Req, OwnStep(r), NEW k \in CacheKey, NEW s, s = l1'[k], s # NoEntry
    PROVE  /\ Known(s)
           /\ \/ l1[k] = s
              \/ k = KeyOf(r) /\ pc[r] \in {"promote", "put"} /\ Kind(r) = "ask"
  <1>1. EntryWalk(r) /\ StepOf(r) /\ pc[r] \notin {"free", "done"}
    BY EntryMoves, OwnStepAlone DEF RouteInv
  <1>2. CASE l1[k] = s
    BY <1>2 DEF PlaceInv, Valid
  <1>3. CASE k = KeyOf(r) /\ pc[r] = "promote" /\ s = got[r].entry
    BY <1>1, <1>3, KindsApart DEF PlaceInv, Valid, Promotes, StepOf
  <1>4. CASE k = KeyOf(r) /\ pc[r] = "put" /\ s = r
    BY <1>1, <1>4, KindsApart DEF Known, StepOf
  <1>5. QED
    BY <1>1, <1>2, <1>3, <1>4 DEF EntryWalk

\* Who tracks a key is a question in flight.
LEMMA TrackersAsk ==
    ASSUME RouteInv, NEW r \in Req, NEW k, Tracks(r, k)
    PROVE  Kind(r) = "ask" /\ pc[r] \notin {"free", "done"}
  BY KindsApart DEF RouteInv, StepOf, Tracks

\* Every entry can be found, or its question is about to note it, or other requests came in between.
LEMMA TrackStep ==
    ASSUME CacheFuns, RouteInv, ArriveInv, AskInv, PlaceInv, TrackInv, EvictInv, [CacheNext]_cacheVars
    PROVE  TrackInv'
  <1> DEFINE Found(k, s) == Blurred(s)' \/ k \in lsh' \cap keysByOrg' \/ \E r \in Req : Tracks(r, k)'
  <1>1. SUFFICES ASSUME NEW k \in CacheKey, NEW s, s = l1'[k], s # NoEntry PROVE Found(k, s)
    <2>1. ASSUME NEW k \in CacheKey, l1'[k] # NoEntry
          PROVE  Blurred(l1[k])' \/ k \in lsh' \cap keysByOrg' \/ \E r \in Req : Tracks(r, k)'
      <3>1. PICK s : s = l1'[k]
        OBVIOUS
      <3>2. Found(k, s)
        BY <1>1, <2>1, <3>1
      <3>3. QED
        BY <3>1, <3>2 DEF Blurred, Before
    <2>2. QED
      BY <2>1 DEF TrackInv
  <1>2. ASSUME UNCHANGED <<l1, lsh, keysByOrg>>, \A r \in Req : Tracks(r, k) => Tracks(r, k)' PROVE Found(k, s)
    BY <1>1, <1>2, ExcusesLast DEF TrackInv
  <1>3. ASSUME NEW r \in Req, Submit(r) PROVE Found(k, s)
    <2>1. /\ \A q \in Req : q # r => pc'[q] = pc[q] /\ job'[q] = job[q]
          /\ got' = got /\ UNCHANGED <<l1, lsh, keysByOrg>> /\ pc[r] = "free"
      BY <1>3, SubmitDoes DEF memory
    <2>2. \A q \in Req : Tracks(q, k) => Tracks(q, k)'
      BY <2>1 DEF Tracks, KeyOf, On
    <2>3. QED
      BY <1>2, <2>1, <2>2
  <1>4. ASSUME NEW r \in Req, OwnStep(r) PROVE Found(k, s)
    <2>1. /\ TrackWalk(r) /\ job' = job /\ pc[r] \notin {"free", "done"} /\ StepOf(r)
          /\ \A q \in Req : q # r => pc'[q] = pc[q] /\ got'[q] = got[q]
      BY <1>4, TrackMoves, OwnStepAlone DEF RouteInv
    <2>2. CASE k = KeyOf(r) /\ pc[r] \in {"promote", "put"}
      BY <1>1, <2>1, <2>2 DEF TrackWalk
    <2>3. CASE l1[k] = s
      <3>1. CASE Blurred(s)
        BY <3>1, ExcusesLast
      <3>2. ASSUME NEW q \in Req, Tracks(q, k) PROVE Found(k, s)
        <4>1. CASE q = r
          BY <1>1, <2>1, <3>2, <4>1 DEF TrackWalk
        <4>2. CASE q # r
          BY <2>1, <3>2, <4>2 DEF Tracks, KeyOf, On
        <4>3. QED
          BY <4>1, <4>2
      <3>3. CASE k \in lsh \cap keysByOrg
        <4>1. CASE pc[r] \in {"victim", "evictIds"} /\ k \in got[r].keys
          <5>1. Absent(k) \/ (pc[r] = "victim" /\ k = KeyOf(r))
            BY <4>1 DEF EvictInv
          <5>2. Blurred(s) \/ Tracks(r, k)
            BY <1>1, <2>3, <5>1 DEF Absent, Tracks
          <5>3. QED
            BY <3>1, <3>2, <5>2
        <4>2. CASE pc[r] = "invLsh"
          <5>1. Blurred(s)
            BY <1>1, <2>3, <4>2 DEF EvictInv, Absent
          <5>2. QED
            BY <3>1, <5>1
        <4>3. QED
          BY <1>1, <2>1, <3>3, <4>1, <4>2 DEF TrackWalk
      <3>4. QED
        BY <1>1, <2>3, <3>1, <3>2, <3>3 DEF TrackInv
    <2>4. QED
      BY <1>1, <1>4, <2>2, <2>3, EntryComes
  <1>5. ASSUME Restart PROVE Found(k, s)
    BY <1>1, <1>5, RestartEmpties
  <1>6. ASSUME UNCHANGED <<job, pc, got, memory>> PROVE Found(k, s)
    <2>1. \A r \in Req : Tracks(r, k) => Tracks(r, k)'
      BY <1>6 DEF Tracks, KeyOf, On
    <2>2. QED
      BY <1>2, <1>6, <2>1 DEF memory
  <1>7. QED
    BY <1>3, <1>4, <1>5, <1>6, CacheTurn, ExpireDoes DEF cacheVars

\* The keys about to be forgotten are those of entries that are gone.
LEMMA EvictStep ==
    ASSUME CacheFuns, RouteInv, ArriveInv, AskInv, PlaceInv, TrackInv, EvictInv, [CacheNext]_cacheVars
    PROVE  EvictInv'
  <1> DEFINE Lost(k) == \A s : s = l1'[k] => s = NoEntry \/ Blurred(s)'
             Fine(q, k) ==
                /\ pc'[q] = "victim" /\ k \in got'[q].keys => Lost(k) \/ k = KeyOf(q)'
                /\ pc'[q] = "evictIds" /\ k \in got'[q].keys => Lost(k)
                /\ pc'[q] = "sweepKey" /\ k \in got'[q].keys => Lost(k) \/ l1'[k] \in expired'
                /\ pc'[q] = "invLsh" => Lost(k)
  <1>1. SUFFICES ASSUME NEW q \in Req, NEW k \in CacheKey PROVE Fine(q, k)
    <2>1. ASSUME NEW k \in CacheKey, Lost(k) PROVE Absent(k)'
      <3>1. PICK s : s = l1'[k]
        OBVIOUS
      <3>2. s = NoEntry \/ Blurred(s)'
        BY <2>1, <3>1
      <3>3. QED
        BY <3>1, <3>2 DEF Absent, Blurred, Before
    <2>2. QED
      BY <1>1, <2>1 DEF EvictInv
  <1>2. ASSUME pc'[q] \in {"victim", "evictIds", "sweepKey", "invLsh"} => pc'[q] = pc[q] /\ got'[q] = got[q] /\ job'[q] = job[q],
               Absent(k) => Lost(k), l1[k] \in expired => l1'[k] \in expired' \/ Lost(k)
        PROVE  Fine(q, k)
    BY <1>1, <1>2 DEF EvictInv, KeyOf, On
  <1>3. ASSUME l1'[k] = l1[k], Absent(k) PROVE Lost(k)
    BY <1>3, ExcusesLast DEF Absent
  <1>4. ASSUME NEW r \in Req, Submit(r) PROVE Fine(q, k)
    <2>1. /\ q # r => pc'[q] = pc[q] /\ job'[q] = job[q]
          /\ got' = got /\ l1' = l1 /\ expired' = expired /\ pc'[r] \in {"start", "inv", "sweep"}
      BY <1>4, SubmitDoes, SubmitGoes DEF memory
    <2>2. QED
      BY <1>2, <1>3, <2>1
  <1>5. ASSUME NEW r \in Req, OwnStep(r) PROVE Fine(q, k)
    <2>1. /\ TrackWalk(r) /\ job' = job /\ pc[r] \notin {"free", "done"} /\ StepOf(r) /\ StepOf(r)' /\ expired' = expired /\ Kind(r)' = Kind(r)
          /\ q # r => pc'[q] = pc[q] /\ got'[q] = got[q]
      BY <1>5, TrackMoves, OwnStepAlone, OwnStepGoes DEF RouteInv, Kind
    <2>2. CASE q # r
      <3>1. SUFFICES ASSUME pc'[q] \in {"victim", "evictIds", "sweepKey", "invLsh"} PROVE Fine(q, k)
        OBVIOUS
      <3>2. pc[q] \notin {"free", "done"}
        BY <2>1, <2>2, <3>1
      <3>3. Lost(k) \/ l1'[k] = l1[k]
        <4>1. PICK s : s = l1'[k]
          OBVIOUS
        <4>2. CASE s = NoEntry
          BY <4>1, <4>2
        <4>3. CASE s # NoEntry /\ l1[k] # s
          <5>1. Known(s) /\ Kind(r) = "ask"
            BY <1>5, <4>1, <4>3, EntryComes
          <5>2. Blurred(s)
            BY <2>1, <2>2, <3>2, <5>1, Blurs
          <5>3. QED
            BY <4>1, <5>2, ExcusesLast
        <4>4. QED
          BY <4>1, <4>2, <4>3
      <3>4. QED
        BY <1>2, <1>3, <2>1, <2>2, <3>3
    <2>3. CASE q = r
      <3>1. pc'[r] = "victim" /\ k \in got'[r].keys => Lost(k) \/ k = KeyOf(r)'
        BY <2>1 DEF TrackWalk
      <3>2. ASSUME pc'[r] = "evictIds", k \in got'[r].keys PROVE Lost(k)
        <4>1. CASE pc[r] = "evict"
          BY <2>1, <3>2, <4>1 DEF TrackWalk
        <4>2. CASE pc[r] = "sweepKey"
          <5>1. k \in got[r].keys /\ (l1[k] \in expired => l1'[k] = NoEntry)
            BY <2>1, <3>2, <4>2 DEF TrackWalk
          <5>2. Absent(k) \/ l1[k] \in expired
            BY <4>2, <5>1 DEF EvictInv
          <5>3. Kind(r) = "sweep"
            BY <2>1, <4>2 DEF StepOf
          <5>4. l1'[k] = NoEntry \/ l1'[k] = l1[k]
            <6>1. PICK s : s = l1'[k]
              OBVIOUS
            <6>2. QED
              BY <1>5, <5>3, <6>1, EntryComes
          <5>5. QED
            BY <1>3, <5>1, <5>2, <5>4
        <4>3. QED
          BY <2>1, <3>2, <4>1, <4>2 DEF TrackWalk
      <3>3. pc'[r] = "sweepKey" /\ k \in got'[r].keys => Lost(k) \/ l1'[k] \in expired'
        BY <2>1 DEF TrackWalk
      <3>4. ASSUME pc'[r] = "invLsh" PROVE Lost(k)
        <4>1. PICK s : s = l1'[k]
          OBVIOUS
        <4>2. CASE s = NoEntry
          BY <4>1, <4>2
        <4>3. CASE s # NoEntry
          <5>1. l1[k] = s /\ ~(k \in lsh \cap keysByOrg) /\ pc[r] = "inv"
            BY <2>1, <3>4, <4>1, <4>3 DEF TrackWalk
          <5>2. Known(s)
            BY <4>3, <5>1 DEF PlaceInv, Valid
          <5>3. Blurred(s)
            <6>1. Blurred(s) \/ \E t \in Req : Tracks(t, k)
              BY <4>3, <5>1 DEF TrackInv
            <6>2. ASSUME NEW t \in Req, Tracks(t, k) PROVE Blurred(s)
              <7>1. Kind(t) = "ask" /\ pc[t] \notin {"free", "done"}
                BY <6>2, TrackersAsk
              <7>2. Kind(r) # "ask"
                BY <2>1, <5>1 DEF StepOf, Edits
              <7>3. QED
                BY <2>1, <5>2, <7>1, <7>2, Blurs
            <6>3. QED
              BY <6>1, <6>2
          <5>4. QED
            BY <4>1, <5>3, ExcusesLast
        <4>4. QED
          BY <4>2, <4>3
      <3>5. QED
        BY <2>3, <3>1, <3>2, <3>3, <3>4
    <2>4. QED
      BY <2>2, <2>3
  <1>6. ASSUME Restart PROVE Fine(q, k)
    BY <1>6, RestartEmpties
  <1>7. ASSUME UNCHANGED <<job, pc, got, l1>> PROVE Fine(q, k)
    BY <1>2, <1>3, <1>7, Lasts
  <1>8. QED
    BY <1>4, <1>5, <1>6, <1>7, CacheTurn, ExpireDoes DEF cacheVars, memory

\* Without a failure nobody is cut short.
LEMMA UnhurtStays ==
    ASSUME CacheFuns, RouteInv, Restart, hurt' = {}
    PROVE  \A r \in Req : /\ pc'[r] = pc[r] /\ got'[r].entry = got[r].entry /\ got'[r].then = got[r].then /\ got'[r].ok = got[r].ok
                          /\ served'[r] = served[r]
  <1>1. SUFFICES ASSUME NEW r \in Req
                 PROVE  /\ pc'[r] = pc[r] /\ got'[r].entry = got[r].entry /\ got'[r].then = got[r].then /\ got'[r].ok = got[r].ok
                        /\ served'[r] = served[r]
    OBVIOUS
  <1>2. pc'[r] = pc[r]
    BY RestartDoes
  <1>3. pc[r] \notin LookupSteps \cup SharedSteps
    BY <1>2, RestartEmpties
  <1>4. got'[r] = got[r]
    BY <1>3, RestartDoes
  <1>5. served'[r] = served[r]
    BY <1>2, RestartDoes
  <1>6. QED
    BY <1>2, <1>4, <1>5

\* An entry of Redis can be found by an invalidation.
LEMMA IndexStep ==
    ASSUME CacheFuns, RouteInv, ArriveInv, AskInv, PlaceInv, IndexInv, [CacheNext]_cacheVars
    PROVE  IndexInv'
  <1> DEFINE Fine(k, s) ==
        /\ Blurred(s)' \/ k \in orgIndex' \/ Indexes(s, k)'
        /\ \A r \in Req : pc'[r] = "forget" => Blurred(s)' \/ k \in got'[r].keys
  <1>1. SUFFICES ASSUME hurt' = {}, NEW k \in CacheKey, NEW s, s = redis'[k], s # NoEntry PROVE Fine(k, s)
    <2>1. ASSUME hurt' = {}, NEW k \in CacheKey, redis'[k] # NoEntry
          PROVE  /\ Blurred(redis[k])' \/ k \in orgIndex' \/ Indexes(redis[k], k)'
                 /\ \A r \in Req : pc'[r] = "forget" => Blurred(redis[k])' \/ k \in got'[r].keys
      <3>1. PICK s : s = redis'[k]
        OBVIOUS
      <3>2. Fine(k, s)
        BY <1>1, <2>1, <3>1
      <3>3. QED
        BY <3>1, <3>2 DEF Blurred, Before, Indexes, KeyOf, On
    <2>2. QED
      BY <2>1 DEF IndexInv
  <1>2. hurt = {}
    BY <1>1, Lasts
  <1>3. ASSUME redis' = redis, orgIndex' = orgIndex,
               \A r \in Req : pc'[r] = "forget" => pc[r] = "forget" /\ got'[r].keys = got[r].keys,
               \A r \in Req : pc[r] = "l2index" => pc'[r] = "l2index" /\ KeyOf(r)' = KeyOf(r)
        PROVE  Fine(k, s)
    <2>1. Blurred(s) \/ k \in orgIndex \/ Indexes(s, k)
      BY <1>1, <1>2, <1>3 DEF IndexInv
    <2>2. Indexes(s, k) => Indexes(s, k)'
      BY <1>3 DEF Indexes
    <2>3. \A r \in Req : pc[r] = "forget" => Blurred(s) \/ k \in got[r].keys
      BY <1>1, <1>2, <1>3 DEF IndexInv
    <2>4. QED
      BY <1>3, <2>1, <2>2, <2>3, ExcusesLast
  <1>4. ASSUME NEW r \in Req, Submit(r) PROVE Fine(k, s)
    <2>1. /\ \A q \in Req : q # r => pc'[q] = pc[q] /\ job'[q] = job[q]
          /\ got' = got /\ UNCHANGED <<redis, orgIndex>> /\ pc[r] = "free" /\ pc'[r] \in {"start", "inv", "sweep"}
      BY <1>4, SubmitDoes, SubmitGoes DEF shared
    <2>2. \A q \in Req : pc[q] = "l2index" => pc'[q] = "l2index" /\ KeyOf(q)' = KeyOf(q)
      BY <2>1 DEF KeyOf, On
    <2>3. QED
      BY <1>3, <2>1, <2>2
  <1>5. ASSUME NEW r \in Req, OwnStep(r) PROVE Fine(k, s)
    <2>1. /\ EntryWalk(r) /\ IndexWalk(r) /\ job' = job /\ pc[r] \notin {"free", "done"} /\ StepOf(r)
          /\ \A q \in Req : q # r => pc'[q] = pc[q] /\ got'[q] = got[q]
      BY <1>5, EntryMoves, IndexMoves, OwnStepAlone DEF RouteInv
    <2>2. pc[r] \in {"members", "forget", "inv"} => Kind(r) # "ask"
      BY <2>1 DEF StepOf, Edits
    \* The entry is written now.
    <2>3. CASE k = KeyOf(r) /\ pc[r] = "l2" /\ pc'[r] = "l2index" /\ got'[r] = got[r] /\ s = r
      <3>1. Indexes(s, k)'
        BY <2>1, <2>3 DEF Indexes, KeyOf, On
      <3>2. Known(s) /\ Kind(r) = "ask"
        BY <2>1, <2>3, KindsApart DEF Known, StepOf
      <3>3. \A q \in Req : pc'[q] = "forget" => Blurred(s)
        BY <2>1, <2>3, <3>2, Blurs
      <3>4. QED
        BY <3>1, <3>3, ExcusesLast
    \* It was there.
    <2>4. CASE s = redis[k]
      <3>1. Known(s) /\ (Blurred(s) \/ k \in orgIndex \/ Indexes(s, k))
        BY <1>1, <1>2, <2>4 DEF IndexInv, PlaceInv, Valid
      <3>2. \A q \in Req : pc[q] = "forget" => Blurred(s) \/ k \in got[q].keys
        BY <1>1, <1>2, <2>4 DEF IndexInv
      <3>3. Indexes(s, k) => s \in Req /\ Kind(s) = "ask" /\ pc[s] \notin {"free", "done"}
        BY KindsApart DEF Indexes, RouteInv, StepOf
      <3>4. Blurred(s) \/ k \in orgIndex' \/ Indexes(s, k)'
        <4>1. CASE k \in orgIndex
          <5>1. pc[r] = "forget" => Blurred(s) \/ redis'[k] = NoEntry \/ k \in orgIndex'
            BY <2>1, <3>2, <4>1 DEF IndexWalk
          <5>2. QED
            BY <1>1, <2>1, <4>1, <5>1, ExcusesLast DEF IndexWalk
        <4>2. CASE Indexes(s, k) /\ s = r
          BY <1>1, <2>1, <4>2 DEF IndexWalk, Indexes
        <4>3. CASE Indexes(s, k) /\ s # r
          BY <2>1, <4>3 DEF Indexes, KeyOf, On
        <4>4. QED
          BY <3>1, <4>1, <4>2, <4>3, ExcusesLast
      <3>5. ASSUME pc'[r] = "forget" PROVE Blurred(s) \/ k \in got'[r].keys
        <4>1. got'[r].keys = orgIndex
          BY <2>1, <3>5 DEF IndexWalk
        <4>2. ASSUME Indexes(s, k) PROVE Blurred(s)
          <5>1. Kind(r) \in Edits \cup {"purge"}
            BY <1>5, <3>5, OwnStepGoes, OwnStepAlone DEF StepOf, Kind, Edits
          <5>2. s # r
            BY <3>3, <4>2, <5>1 DEF Edits
          <5>3. QED
            BY <2>1, <3>1, <3>3, <4>2, <5>2, Blurs
        <4>3. QED
          BY <3>1, <4>1, <4>2
      <3>6. QED
        BY <2>1, <3>2, <3>4, <3>5, ExcusesLast
    <2>5. QED
      BY <1>1, <2>1, <2>3, <2>4 DEF EntryWalk
  <1>6. ASSUME Restart PROVE Fine(k, s)
    <2>1. /\ \A r \in Req : pc'[r] = pc[r] /\ got'[r].ver = got[r].ver /\ got'[r].keys = got[r].keys
          /\ job' = job /\ UNCHANGED <<redis, orgIndex>>
      BY <1>1, <1>6, UnhurtStays, RestartEmpties DEF shared, Restart
    <2>2. QED
      BY <1>3, <2>1 DEF KeyOf, On
  <1>7. ASSUME UNCHANGED <<job, pc, got, redis, orgIndex>> PROVE Fine(k, s)
    BY <1>3, <1>7 DEF KeyOf, On
  <1>8. QED
    BY <1>4, <1>5, <1>6, <1>7, CacheTurn, ExpireDoes DEF cacheVars, shared

\* A purge that nothing else overlaps: who came before it has ended, and who comes after it finds it ended.
LEMMA LonePurge ==
    ASSUME RouteInv, ArriveInv, NEW p \in Req, Alone(p), pc[p] # "free"
    PROVE  /\ \A q \in Req : q < p => pc[q] = "done"
           /\ \A q \in Req : p < q /\ pc[q] # "free" => pc[p] = "done"
           /\ \A q \in Req : q # p /\ pc[q] \notin {"free", "done"} => pc[p] = "done" /\ p < q
  <1>1. \A q \in Req : q < p => pc[q] = "done"
    BY DEF ArriveInv, Alone
  <1>2. \A q \in Req : {p, q} = {q, p}
    OBVIOUS
  <1>3. \A q \in Req : p < q /\ pc[q] # "free" => pc[p] = "done"
    BY <1>2 DEF ArriveInv, Alone
  <1>4. \A q \in Req : q # p => q < p \/ p < q
    BY CacheNumbers
  <1>5. QED
    BY <1>1, <1>3, <1>4

\* While a purge that nothing overlaps runs, what is blurred was blurred by those before it.
LEMMA BlurredIsMixed ==
    ASSUME RouteInv, ArriveInv, NEW p \in Req, Alone(p), Kind(p) = "purge", pc[p] \notin {"free", "done"}, NEW s, Blurred(s)
    PROVE  Mixed(s, p)
  <1>1. PICK a, b \in Req : a # b /\ {a, b} \in met /\ Kind(a) = "ask" /\ ~(Before(a, s) /\ Before(b, s))
    BY DEF Blurred
  <1>2. a # p /\ b # p
    BY <1>1 DEF Alone
  <1>3. pc[a] # "free" /\ pc[b] # "free"
    BY <1>1 DEF ArriveInv
  <1>4. ~(p < a) /\ ~(p < b)
    BY <1>3, LonePurge
  <1>5. a < p /\ b < p
    BY <1>2, <1>4, CacheNumbers
  <1>6. QED
    BY <1>1, <1>5 DEF Mixed

\* A purge's own steps drop what it finds, and it finds what is there.
LEMMA PurgeSteps ==
    ASSUME CacheFuns, RouteInv, ArriveInv, AskInv, PlaceInv, ServedInv, TrackInv, IndexInv, [CacheNext]_cacheVars,
           hurt = {}, hurt' = {}, NEW p \in Req, Kind(p) = "purge", Alone(p), OwnStep(p),
           NEW s \in Id, Before(s, p), ~Mixed(s, p), Dropped(p, s)
    PROVE  Dropped(p, s)'
  <1>1. /\ EntryWalk(p) /\ TrackWalk(p) /\ IndexWalk(p) /\ StepOf(p) /\ LeadsOn(p) /\ pc[p] \notin {"free", "done"}
        /\ \A q \in Req : q # p => pc'[q] = pc[q] /\ got'[q] = got[q] /\ served'[q] = served[q]
        /\ met' = met /\ job' = job
    BY EntryMoves, TrackMoves, IndexMoves, OwnStepAlone DEF RouteInv
  <1>2. ~Blurred(s) /\ s # NoEntry
    BY <1>1, BlurredIsMixed, CacheNumbers
  <1>3. pc[p] \in {"inv", "invLsh", "members", "forget"}
    BY <1>1, KindsApart DEF StepOf, CacheSteps
  <1>4. \A k \in CacheKey : l1'[k] = s => l1[k] = s
    BY <1>1, <1>2, <1>3 DEF EntryWalk
  <1>5. \A k \in CacheKey : redis'[k] = s => redis[k] = s
    BY <1>1, <1>2, <1>3 DEF EntryWalk
  <1>6. ASSUME pc[p] = "inv" PROVE pc'[p] = "invLsh" /\ \A k \in CacheKey : l1'[k] # s
    <2>1. pc'[p] = "invLsh"
      BY <1>1, <1>6 DEF IndexWalk
    <2>2. ASSUME NEW k \in CacheKey, l1'[k] = s PROVE FALSE
      <3>1. l1[k] = s /\ ~(k \in lsh \cap keysByOrg)
        BY <1>1, <1>2, <2>1, <2>2 DEF TrackWalk
      <3>2. PICK t \in Req : Tracks(t, k)
        BY <1>2, <3>1 DEF TrackInv
      <3>3. Kind(t) = "ask" /\ pc[t] \notin {"free", "done"}
        BY <3>2, TrackersAsk
      <3>4. t # p
        BY <3>3
      <3>5. QED
        BY <1>1, <3>3, <3>4, LonePurge
    <2>3. QED
      BY <2>1, <2>2
  <1>7. pc[p] = "inv" \/ \A k \in CacheKey : l1'[k] # s
    BY <1>3, <1>4 DEF Dropped
  <1>8. ASSUME pc'[p] = "forget", NEW k \in CacheKey, redis'[k] = s PROVE k \in got'[p].keys
    <2>1. got'[p].keys = orgIndex /\ redis[k] = s
      BY <1>1, <1>5, <1>8 DEF IndexWalk
    <2>2. k \in orgIndex \/ Indexes(s, k)
      BY <1>2, <2>1 DEF IndexInv
    <2>3. pc[s] = "done" \/ s = 0
      BY <1>1, CacheNumbers, EndedFirst
    <2>4. ~Indexes(s, k)
      BY <2>3, CacheNumbers DEF Indexes
    <2>5. QED
      BY <2>1, <2>2, <2>4
  <1>9. pc'[p] = "done" => \A k \in CacheKey : redis'[k] # s
    <2>1. SUFFICES ASSUME pc'[p] = "done", NEW k \in CacheKey, redis'[k] = s PROVE FALSE
      OBVIOUS
    <2>2. pc[p] \in {"members", "forget"}
      BY <1>1, <1>3, <2>1 DEF IndexWalk
    <2>3. pc[p] = "forget" /\ \A x \in CacheKey : x \in got[p].keys => redis'[x] = NoEntry
      BY <1>1, <2>1, <2>2 DEF IndexWalk
    <2>4. k \in got[p].keys
      BY <1>5, <2>1, <2>3 DEF Dropped
    <2>5. QED
      BY <1>2, <2>1, <2>3, <2>4
  <1>10. \A r \in Req : p < r => pc[r] = "free"
    BY <1>1, LonePurge
  <1>11. \A r \in Req : p < r => r # p
    BY CacheNumbers
  <1>12. \A r \in Req : p < r /\ Promotes(r)' => got'[r].entry # s
    <2>1. \A r \in Req : p < r => pc'[r] = "free"
      BY <1>1, <1>10, <1>11
    <2>2. QED
      BY <2>1 DEF Promotes
  <1>13. \A r \in Req : Before(p, r)' => served'[r] # s
    BY <1>1, <1>2, <1>10, <1>11 DEF Before, ServedInv
  <1>14. \A k \in CacheKey : l1'[k] # s
    BY <1>6, <1>7
  <1>15. QED
    BY <1>8, <1>9, <1>12, <1>13, <1>14 DEF Dropped

\* What a purge has dropped does not come back with those who come later.
LEMMA DroppedStays ==
    ASSUME CacheFuns, RouteInv, ArriveInv, AskInv, PlaceInv, WaitInv, ServedInv, [CacheNext]_cacheVars,
           NEW p \in Req, Kind(p) = "purge", Alone(p), NEW r \in Req, r # p, OwnStep(r),
           NEW s \in Id, Before(s, p), Dropped(p, s)
    PROVE  Dropped(p, s)'
  <1>1. /\ EntryWalk(r) /\ AnswerWalk(r) /\ StepOf(r) /\ pc[r] \notin {"free", "done"}
        /\ \A q \in Req : q # r => pc'[q] = pc[q] /\ got'[q] = got[q] /\ served'[q] = served[q]
        /\ met' = met /\ job' = job
        /\ Kind(r) = "ask" => KeyOf(r) \in CacheKey
    BY EntryMoves, AnswerMoves, OwnStepAlone, KeyFacts DEF RouteInv
  <1>2. pc[p] # "free"
    BY DEF RouteInv, StepOf
  <1>3. pc[p] = "done" /\ p < r /\ pc'[p] = "done"
    BY <1>1, <1>2, LonePurge
  <1>4. s # r /\ s # NoEntry /\ (s \in Req => {s, r} \notin met)
    <2>1. s < p /\ s < r
      BY <1>3, CacheNumbers DEF Before
    <2>2. CASE s = 0
      BY <2>2, CacheNumbers
    <2>3. CASE s \in Req
      BY <1>2, <1>3, <2>1, <2>3, EndedFirst, CacheNumbers
    <2>4. QED
      BY <2>2, <2>3, CacheNumbers
  <1>5. \A k \in CacheKey : l1[k] # s /\ redis[k] # s
    BY <1>3 DEF Dropped
  <1>6. Promotes(r) => got[r].entry # s
    BY <1>3 DEF Dropped
  <1>7. \A k \in CacheKey : l1'[k] # s
    BY <1>1, <1>4, <1>5, <1>6 DEF EntryWalk, Promotes
  <1>8. \A k \in CacheKey : redis'[k] # s
    BY <1>1, <1>4, <1>5 DEF EntryWalk
  <1>9. Promotes(r)' => got'[r].entry # s
    <2>1. pc[r] = "exact" => Kind(r) = "ask"
      BY <1>1, KindsApart DEF StepOf
    <2>2. QED
      BY <1>1, <1>5, <1>6, <2>1 DEF AnswerWalk
  <1>10. \A q \in Req : p < q /\ Promotes(q)' => got'[q].entry # s
    <2>1. \A q \in Req : q # r => (Promotes(q)' = Promotes(q)) /\ got'[q] = got[q]
      BY <1>1 DEF Promotes
    <2>2. QED
      BY <1>3, <1>9, <2>1 DEF Dropped
  <1>11. served'[r] # s \/ served'[r] = served[r]
    BY <1>1, <1>4, <1>5, <1>6 DEF AnswerWalk, Promotes, WaitInv
  <1>12. \A q \in Req : Before(p, q)' => served'[q] # s
    BY <1>1, <1>11 DEF Before, Dropped
  <1>13. QED
    BY <1>3, <1>7, <1>8, <1>10, <1>12 DEF Dropped

\* What a purge that nothing overlapped drops stays away.
LEMMA DropStep ==
    ASSUME CacheFuns, RouteInv, ArriveInv, AskInv, PlaceInv, WaitInv, ServedInv, TrackInv, IndexInv, DropInv, [CacheNext]_cacheVars
    PROVE  DropInv'
  <1>1. SUFFICES ASSUME hurt' = {}, NEW p \in Req, Kind(p)' = "purge", Alone(p)', NEW s \in Id, Before(s, p)', ~Mixed(s, p)'
                 PROVE  Dropped(p, s)'
    BY DEF DropInv
  <1>2. hurt = {} /\ met \subseteq met' /\ Before(s, p) /\ Alone(p)
    BY <1>1, Lasts DEF Alone
  <1>3. ~Mixed(s, p)
    <2>1. SUFFICES ASSUME Mixed(s, p) PROVE FALSE
      OBVIOUS
    <2>2. PICK a, b \in Req : /\ a < p /\ b < p /\ a # b /\ {a, b} \in met /\ Kind(a) = "ask"
                              /\ ~(Before(a, s) /\ Before(b, s))
      BY <2>1 DEF Mixed
    <2>3. {a, b} \in met' /\ Kind(a)' = Kind(a) /\ ~(Before(a, s)' /\ Before(b, s)')
      BY <2>2, Lasts DEF ArriveInv
    <2>4. QED
      BY <1>1, <2>2, <2>3 DEF Mixed
  <1>4. s # NoEntry
    BY CacheNumbers
  \* The purge arrives now, or was there.
  <1>5. ASSUME pc[p] = "free" PROVE Dropped(p, s)'
    <2>1. Kind(p) = "none"
      BY <1>5 DEF RouteInv, StepOf
    <2>2. PICK q \in Req : Submit(q)
      BY <1>1, <2>1, StaysStill DEF Still, Kind
    <2>3. p = q
      BY <1>1, <2>1, <2>2, SubmitDoes DEF Kind
    <2>4. /\ pc'[p] = "inv" /\ served' = served /\ \A r \in Req : r # p => pc'[r] = pc[r]
          /\ got' = got
      BY <1>1, <2>2, <2>3, SubmitDoes, SubmitGoes DEF Kind
    <2>5. \A r \in Req : p < r => pc[r] = "free" /\ r # p
      BY <1>5, CacheNumbers DEF ArriveInv
    <2>6. \A r \in Req : p < r => served[r] = NoEntry
      BY <2>5 DEF ServedInv
    <2>7. \A r \in Req : Before(p, r)' => served'[r] # s
      BY <1>4, <2>4, <2>6 DEF Before
    <2>8. QED
      BY <2>4, <2>7 DEF Dropped
  <1>6. ASSUME pc[p] # "free" PROVE Dropped(p, s)'
    <2>1. Kind(p) = "purge"
      BY <1>1, <1>6, Lasts
    <2>2. Dropped(p, s)
      BY <1>2, <1>3, <2>1 DEF DropInv
    <2>3. ASSUME NEW r \in Req, Submit(r) PROVE Dropped(p, s)'
      <3>1. /\ \A q \in Req : q # r => pc'[q] = pc[q]
            /\ got' = got /\ served' = served /\ UNCHANGED <<l1, redis>> /\ pc[r] = "free" /\ pc'[r] \in {"start", "inv", "sweep"}
        BY <2>3, SubmitDoes, SubmitGoes DEF memory, shared
      <3>2. pc'[p] = pc[p]
        BY <1>6, <3>1
      <3>3. \A q \in Req : Promotes(q)' => Promotes(q)
        BY <3>1 DEF Promotes
      <3>4. \A q \in Req : Before(p, q)' => Before(p, q)
        BY Lasts
      <3>5. QED
        BY <2>2, <3>1, <3>2, <3>3, <3>4 DEF Dropped
    <2>4. ASSUME NEW r \in Req, OwnStep(r) PROVE Dropped(p, s)'
      BY <1>1, <1>2, <1>3, <2>1, <2>2, <2>4, PurgeSteps, DroppedStays
    <2>5. ASSUME Restart PROVE Dropped(p, s)'
      <3>1. /\ \A q \in Req : pc'[q] = pc[q] /\ got'[q].keys = got[q].keys /\ ~Promotes(q)' /\ served'[q] = served[q]
            /\ \A k \in CacheKey : l1'[k] = NoEntry
            /\ redis' = redis /\ met' = met
        BY <1>1, <2>5, UnhurtStays, RestartEmpties DEF shared, Restart
      <3>2. QED
        BY <1>4, <2>2, <3>1 DEF Dropped, Before
    <2>6. ASSUME UNCHANGED <<pc, got, l1, redis, served, met>> PROVE Dropped(p, s)'
      BY <2>2, <2>6 DEF Dropped, Before, Promotes
    <2>7. QED
      BY <2>3, <2>4, <2>5, <2>6, CacheTurn, ExpireDoes DEF cacheVars, memory, shared, history
  <1>7. QED
    BY <1>5, <1>6

-----------------------------------------------------------------------------
(* Rows and chunks *)

\* The subject of an edit is an article.
LEMMA SubjectIs ==
    ASSUME RouteInv, NEW r \in Req, Kind(r) \in Edits
    PROVE  Subject(r) \in Id /\ (Kind(r) \in {"create", "update"} => Opt(r) \in {"published", "archived"})
  <1>1. WellFormed(job[r]) /\ r \in Id /\ Id = 0..MaxReq
    BY CacheNumbers DEF RouteInv, StepOf, Edits, Id
  <1>2. QED
    BY <1>1 DEF WellFormed, Subject, Kind, On, Opt, Edits

\* What an edit does is one of its five operations, or a step of the invalidation.
LEMMA EditMoves ==
    ASSUME CacheFuns, RouteInv, NEW r \in Req, OwnStep(r), Kind(r) \in Edits
    PROVE  \/ Edit(r)
           \/ /\ pc[r] \in InvalidateSteps /\ UNCHANGED content
              /\ got'[r].row = got[r].row /\ got'[r].ok = got[r].ok /\ got'[r].then = got[r].then
              /\ pc'[r] \in InvalidateSteps \/ (pc[r] = "bump" /\ pc'[r] = got[r].then)
  <1>1. /\ StepOf(r) /\ DOMAIN got[r] = DOMAIN Nothing /\ DOMAIN pc = Req
    BY DEF RouteInv, LeadsOn, CacheFuns
  <1>2. ~Question(r)
    <2>1. pc[r] \notin AskSteps /\ Kind(r) # "ask" /\ pc[r] # "evictIds"
      BY <1>1, KindsApart DEF StepOf
    <2>2. QED
      BY <2>1, KindsApart DEF Question, Ask, ExactInL1, ExactInL2, Promote, SemanticLookup, OnMiss, Waited, Retrieve, Store,
         Keeps, StoreL2, Complete, EvictionListener, Evict
  <1>3. ~Sweep(r) /\ ~ClearAll(r)
    BY <1>1, KindsApart DEF StepOf, Sweep, ClearAll
  <1>4. ASSUME InvalidateL1(r)
        PROVE  pc[r] \in InvalidateSteps /\ UNCHANGED content /\ UNCHANGED got /\ pc'[r] \in InvalidateSteps
    BY <1>1, <1>4, KindsApart DEF InvalidateL1, Go
  <1>5. ASSUME InvalidateL2(r)
        PROVE  /\ pc[r] \in InvalidateSteps /\ UNCHANGED content /\ pc'[r] \in InvalidateSteps
               /\ got'[r].row = got[r].row /\ got'[r].ok = got[r].ok /\ got'[r].then = got[r].then
    <2>1. pc[r] \in InvalidateSteps /\ UNCHANGED content /\ pc'[r] \in InvalidateSteps
      BY <1>1, <1>5, KindsApart DEF InvalidateL2, Go
    <2>2. \E x : Keep(r, "keys", x)
      BY <1>5 DEF InvalidateL2
    <2>3. QED
      BY <1>1, <2>1, <2>2, KeepDoes DEF Holds
  <1>6. ASSUME Bump(r)
        PROVE  /\ pc[r] = "bump" /\ UNCHANGED content /\ pc'[r] = got[r].then
               /\ got'[r].row = got[r].row /\ got'[r].ok = got[r].ok /\ got'[r].then = got[r].then
    BY <1>1, <1>6, KeepDoes DEF Bump, Go, Holds
  <1>7. QED
    BY <1>2, <1>3, <1>4, <1>5, <1>6, KindsApart DEF OwnStep

\* What an edit writes to its row.
LEMMA WriteDoes ==
    ASSUME RouteInv, RowTypes, NEW r \in Req, Kind(r) \in {"create", "update"},
           article' = [article EXCEPT ![Subject(r)].status = Opt(r),
                                      ![Subject(r)].text = IF Opt(r) = "published" THEN r ELSE @]
    PROVE  LET a == Subject(r) IN
           /\ article' \in [Id -> Row] /\ \A b \in Id \ {a} : article'[b] = article[b]
           /\ article'[a].status = Opt(r) /\ article'[a].indexed = article[a].indexed
           /\ article'[a].text = IF Opt(r) = "published" THEN r ELSE article[a].text
  <1> DEFINE a == Subject(r)
  <1>1. a \in Id /\ Opt(r) \in {"published", "archived"} /\ r \in Id
    BY SubjectIs, CacheNumbers DEF Edits
  <1>2. article \in [Id -> Row] /\ article[a] \in Row
    BY <1>1 DEF RowTypes
  <1>3. article'[a] = [article[a] EXCEPT !.status = Opt(r), !.text = IF Opt(r) = "published" THEN r ELSE @]
    BY <1>1, <1>2
  <1>4. article'[a] \in Row /\ article'[a].status = Opt(r) /\ article'[a].indexed = article[a].indexed
        /\ article'[a].text = IF Opt(r) = "published" THEN r ELSE article[a].text
    BY <1>1, <1>2, <1>3 DEF Row
  <1>5. DOMAIN article' = Id /\ \A b \in Id \ {a} : article'[b] = article[b]
    BY <1>2
  <1>6. article' = [b \in Id |-> article'[b]]
    BY <1>2
  <1>7. \A b \in Id : article'[b] \in Row
    BY <1>2, <1>4, <1>5
  <1>8. QED
    BY <1>4, <1>5, <1>6, <1>7

\* Rows are rows, and the index holds texts of articles.
LEMMA TypesStep ==
    ASSUME CacheFuns, RouteInv, RowTypes, [CacheNext]_cacheVars
    PROVE  RowTypes'
  <1> USE CacheNumbers DEF RowTypes
  <1>1. ASSUME UNCHANGED content, \A r \in Req : got'[r].row \in {got[r].row, NoEntry} PROVE RowTypes'
    BY <1>1 DEF content
  <1>2. ASSUME NEW r \in Req, OwnStep(r) PROVE RowTypes'
    <2>1. IndexWalk(r) /\ (\A q \in Req : q # r => got'[q] = got[q]) /\ StepOf(r) /\ DOMAIN got[r] = DOMAIN Nothing /\ DOMAIN pc = Req
      BY <1>2, IndexMoves, OwnStepAlone DEF RouteInv, LeadsOn, CacheFuns
    <2>2. CASE Kind(r) \notin Edits
      BY <1>1, <2>1, <2>2 DEF IndexWalk
    <2>3. CASE Kind(r) \in Edits
      <3> DEFINE a == Subject(r)
      <3>1. a \in Id /\ article[a] \in Row
        BY <2>3, SubjectIs
      <3>2. ASSUME UNCHANGED article, index' \in {index, index \ Chunks(a), index \cup {<<a, got[r].row>>}},
                   got'[r].row \in {got[r].row, NoEntry, article[a].text}
            PROVE  RowTypes'
        <4>1. article[a].text \in Id /\ got[r].row \in Id \cup {NoEntry}
          BY <3>1 DEF Row
        <4>2. index' \subseteq Id \X (Id \cup {NoEntry})
          BY <3>1, <3>2, <4>1
        <4>3. QED
          BY <2>1, <3>2, <4>1, <4>2
      <3>3. ASSUME article' \in [Id -> Row], UNCHANGED index, got'[r].row \in {got[r].row, NoEntry} PROVE RowTypes'
        BY <2>1, <3>3
      <3>4. ASSUME Write(r) PROVE RowTypes'
        <4>1. CASE UNCHANGED content /\ (got' = got \/ \E x : Keep(r, "then", x))
          <5>1. got'[r].row = got[r].row
            BY <2>1, <4>1, KeepDoes DEF Holds
          <5>2. QED
            BY <3>2, <4>1, <5>1 DEF content
        <4>2. CASE /\ pc[r] = "write" \/ Kind(r) = "create"
                   /\ article' = [article EXCEPT ![a].status = Opt(r), ![a].text = IF Opt(r) = "published" THEN r ELSE @]
                   /\ index' = index /\ Keep(r, "then", "flag")
          <5>1. got'[r].row = got[r].row
            BY <2>1, <4>2, KeepDoes DEF Holds
          <5>2. Kind(r) \in {"create", "update"}
            BY <2>1, <4>2 DEF StepOf
          <5>3. article' \in [Id -> Row]
            BY <4>2, <5>2, WriteDoes
          <5>4. QED
            BY <3>3, <4>2, <5>1, <5>3
        <4>3. QED
          BY <3>4, <4>1, <4>2 DEF Write, Pass
      <3>5. ASSUME Sync(r) PROVE RowTypes'
        <4>1. got'[r].row = article[a].text /\ UNCHANGED content
          BY <2>1, <3>5, KeepDoes DEF Sync, Holds
        <4>2. QED
          BY <3>2, <4>1 DEF content
      <3>6. ASSUME Index(r) PROVE RowTypes'
        <4>1. UNCHANGED article /\ index' \in {index, index \ Chunks(a), index \cup {<<a, got[r].row>>}}
          BY <3>6 DEF Index
        <4>2. got'[r].row = got[r].row
          BY <2>1, <3>6, KeepDoes DEF Index, Holds
        <4>3. QED
          BY <3>2, <4>1, <4>2
      <3>7. ASSUME Flag(r) PROVE RowTypes'
        <4>1. got'[r].row = NoEntry /\ UNCHANGED index
          BY <3>7, EndDoes DEF Flag, Holds
        <4>2. PICK ok \in BOOLEAN : article' = IF article[a].status = "none" THEN article ELSE [article EXCEPT ![a].indexed = ok]
          BY <3>7 DEF Flag
        <4>3. [article[a] EXCEPT !.indexed = ok] \in Row
          BY <3>1 DEF Row
        <4>4. article' \in [Id -> Row]
          BY <3>1, <4>2, <4>3
        <4>5. QED
          BY <3>3, <4>1, <4>4
      <3>8. ASSUME Drop(r) PROVE RowTypes'
        <4>1. got'[r].row = NoEntry /\ UNCHANGED index /\ article' = [article EXCEPT ![a] = Gone]
          BY <3>8, EndDoes DEF Drop, Holds
        <4>2. Gone \in Row
          BY DEF Gone, Row
        <4>3. QED
          BY <3>3, <4>1, <4>2
      <3>9. QED
        BY <1>1, <1>2, <2>1, <2>3, <3>2, <3>4, <3>5, <3>6, <3>7, <3>8, EditMoves DEF Edit, content
    <2>4. QED
      BY <2>2, <2>3
  <1>3. QED
    BY <1>1, <1>2, CacheTurn, SubmitDoes, RestartEmpties, ExpireDoes DEF cacheVars

\* An edit that nothing overlaps and nothing fails brings its article's chunks to what the row says.
LEMMA EditBrings ==
    ASSUME CacheFuns, RouteInv, RowTypes, NEW r \in Req, OwnStep(r), Kind(r) \in Edits, hurt' = {},
           EditOK(r), \A b \in Id \ {Subject(r)} : RowOK(b)
    PROVE  /\ \A b \in Id \ {Subject(r)} : RowOK(b)'
           /\ IF pc'[r] = "done" THEN RowOK(Subject(r))' ELSE EditOK(r)'
  <1>0. PICK a \in Id : a = Subject(r)
    BY SubjectIs
  <1> DEFINE Kept == \A b \in Id \ {a} : article'[b] = article[b] /\ Chunks(b)' = Chunks(b)
             Next1 == IF pc'[r] = "done" THEN RowOK(a)' ELSE EditOK(r)'
  <1>1. /\ StepOf(r) /\ LeadsOn(r) /\ DOMAIN got[r] = DOMAIN Nothing /\ DOMAIN pc = Req /\ job' = job
        /\ a \in Id /\ article[a] \in Row /\ DOMAIN article = Id /\ pc[r] \notin {"free", "done"}
        /\ Kind(r)' = Kind(r) /\ Subject(r) = a /\ Subject(r)' = a
    BY <1>0, OwnStepAlone DEF RouteInv, LeadsOn, CacheFuns, RowTypes, Kind, Subject, On
  <1>2. article[a].status \in {"none", "published", "archived"}
    BY <1>1 DEF Row
  <1>3. ASSUME Kept PROVE \A b \in Id \ {Subject(r)} : RowOK(b)'
    BY <1>1, <1>3 DEF RowOK, Due, Published
  <1>4. ASSUME UNCHANGED content PROVE Kept /\ Chunks(a)' = Chunks(a) /\ Due(a)' = Due(a) /\ Published(a)' = Published(a) /\ article' = article
    BY <1>4 DEF content, Chunks, Due, Published
  <1>w. ASSUME Write(r) PROVE Kept /\ Next1
    <2>1. CASE /\ pc[r] = "start" /\ Kind(r) \in {"update", "delete"} /\ UNCHANGED content
               /\ pc'[r] = IF article[a].status = "none" THEN "done" ELSE IF Kind(r) = "update" THEN "write" ELSE "unindex"
               /\ Keep(r, "then", IF Kind(r) = "delete" THEN "drop" ELSE "flag")
      <3>1. got'[r].then = (IF Kind(r) = "delete" THEN "drop" ELSE "flag") /\ got'[r].ok = got[r].ok
        BY <1>1, <2>1, KeepDoes DEF Holds
      <3>2. RowOK(a) /\ got[r].ok = FALSE
        BY <1>1, <2>1 DEF EditOK
      <3>3. RowOK(a)'
        BY <1>4, <2>1, <3>2 DEF RowOK
      <3>4. pc'[r] # "done" => EditOK(r)'
        BY <1>1, <2>1, <3>1, <3>2, <3>3, KindsApart DEF EditOK
      <3>5. QED
        BY <1>4, <2>1, <3>3, <3>4
    <2>2. CASE /\ (pc[r] = "start" /\ Kind(r) = "create") \/ pc[r] = "write"
               /\ article' = [article EXCEPT ![a].status = Opt(r), ![a].text = IF Opt(r) = "published" THEN r ELSE @]
               /\ index' = index /\ pc'[r] = "sync" /\ Keep(r, "then", "flag")
      <3>1. got'[r].then = "flag" /\ got'[r].ok = got[r].ok
        BY <1>1, <2>2, KeepDoes DEF Holds
      <3>2. RowOK(a) /\ got[r].ok = FALSE
        BY <1>1, <2>2 DEF EditOK
      <3>3. Kind(r) \in {"create", "update"} /\ Opt(r) \in {"published", "archived"}
        BY <1>1, <2>2, SubjectIs DEF StepOf
      <3>4. /\ \A b \in Id \ {a} : article'[b] = article[b]
            /\ article'[a].status = Opt(r) /\ article'[a].indexed = article[a].indexed
        BY <1>1, <2>2, <3>3, WriteDoes
      <3>5. \A b : Chunks(b)' = Chunks(b)
        BY <2>2 DEF Chunks
      <3>6. article'[a].status # "none" /\ (Chunks(a)' = {} \/ article'[a].indexed)
        BY <3>2, <3>3, <3>4, <3>5 DEF RowOK, Due
      <3>7. EditOK(r)'
        BY <1>1, <2>2, <3>1, <3>2, <3>6, KindsApart DEF EditOK
      <3>8. QED
        BY <2>2, <3>4, <3>5, <3>7
    <2>3. CASE pc[r] = "write" /\ article[a].status = "none" /\ pc'[r] = "done" /\ UNCHANGED content
      <3>1. RowOK(a)
        BY <1>1, <2>3 DEF EditOK
      <3>2. RowOK(a)'
        BY <1>4, <2>3, <3>1 DEF RowOK
      <3>3. QED
        BY <1>4, <2>3, <3>2
    <2>4. QED
      BY <1>1, <1>w, <2>1, <2>2, <2>3 DEF Write, Pass, Go
  <1>s. ASSUME Sync(r) PROVE Kept /\ Next1
    <2>1. /\ pc[r] = "sync" /\ UNCHANGED content
          /\ pc'[r] = CASE article[a].status = "published" -> "index"
                        [] article[a].status = "archived" /\ article[a].indexed -> "unindex"
                        [] OTHER -> "done"
          /\ got'[r].row = article[a].text /\ got'[r].ok = got[r].ok /\ got'[r].then = "flag"
      BY <1>1, <1>s, KeepDoes DEF Sync, Go, Holds, LeadsOn
    <2>2. article[a].status # "none" /\ got[r].ok = FALSE /\ (~Published(a) => Chunks(a) = {} \/ article[a].indexed)
      BY <1>1, <2>1 DEF EditOK
    <2>3. CASE article[a].status = "published"
      <3>1. pc'[r] = "index" /\ Published(a)
        BY <2>1, <2>3 DEF Published
      <3>2. EditOK(r)'
        BY <1>1, <1>4, <2>1, <2>2, <3>1, KindsApart DEF EditOK
      <3>3. QED
        BY <1>4, <2>1, <3>1, <3>2
    <2>4. CASE article[a].status = "archived" /\ article[a].indexed
      <3>1. pc'[r] = "unindex"
        BY <2>1, <2>4
      <3>2. EditOK(r)'
        BY <1>1, <1>4, <2>1, <2>2, <2>4, <3>1, KindsApart DEF EditOK
      <3>3. QED
        BY <1>4, <2>1, <3>1, <3>2
    <2>5. CASE article[a].status = "archived" /\ ~article[a].indexed
      <3>1. pc'[r] = "done" /\ ~Published(a) /\ Chunks(a) = {}
        BY <2>1, <2>2, <2>5 DEF Published
      <3>2. article[a].indexed \in BOOLEAN
        BY <1>1 DEF Row
      <3>3. RowOK(a)
        BY <2>5, <3>1, <3>2 DEF RowOK, Due, Published
      <3>4. RowOK(a)'
        BY <1>4, <2>1, <3>3 DEF RowOK
      <3>5. QED
        BY <1>4, <2>1, <3>1, <3>4
    <2>6. QED
      BY <1>2, <2>2, <2>3, <2>4, <2>5
  <1>i. ASSUME Index(r) PROVE Kept /\ Next1
    <2>1. UNCHANGED article
      BY <1>1, <1>i DEF Index
    <2>2. CASE pc[r] = "unindex" /\ index' = index \ Chunks(a) /\ pc'[r] = "inv" /\ got' = got
      <3>1. Chunks(a)' = {} /\ \A b \in Id \ {a} : Chunks(b)' = Chunks(b)
        BY <2>2 DEF Chunks
      <3>2. got[r].ok = FALSE /\ (got[r].then = "flag" => article[a].status = "archived")
        BY <1>1, <2>2 DEF EditOK
      <3>3. got[r].then = "flag" => Due(a)' = {} /\ article'[a].status = "archived"
        BY <2>1, <3>2 DEF Published, Due
      <3>6. got[r].then = "flag" => got'[r].ok = Published(a)'
        BY <2>2, <3>2, <3>3 DEF Published
      <3>7. got'[r].then = got[r].then /\ pc'[r] \in InvalidateSteps
        BY <2>2 DEF InvalidateSteps
      <3>4. EditOK(r)'
        BY <1>1, <2>2, <3>1, <3>3, <3>6, <3>7, KindsApart DEF EditOK
      <3>5. QED
        BY <2>1, <2>2, <3>1, <3>4
    <2>3. CASE pc[r] = "index" /\ index' = index \ Chunks(a) /\ pc'[r] = "insert" /\ got' = got
      <3>1. Chunks(a)' = {} /\ \A b \in Id \ {a} : Chunks(b)' = Chunks(b)
        BY <2>3 DEF Chunks
      <3>2. got[r].ok = FALSE /\ Published(a) /\ got[r].row = article[a].text /\ Published(a)' = Published(a)
        BY <1>1, <2>1, <2>3 DEF EditOK, Published
      <3>3. EditOK(r)'
        BY <1>1, <2>1, <2>3, <3>1, <3>2, KindsApart DEF EditOK
      <3>4. QED
        BY <2>1, <2>3, <3>1, <3>3
    <2>4. CASE pc[r] = "insert" /\ index' = index \cup {<<a, got[r].row>>} /\ pc'[r] = "inv" /\ Keep(r, "ok", TRUE)
      <3>1. Chunks(a) = {} /\ Published(a) /\ got[r].row = article[a].text /\ got[r].then = "flag"
        BY <1>1, <2>4 DEF EditOK, LeadsOn
      <3>2. got'[r].ok = TRUE /\ got'[r].then = "flag"
        BY <1>1, <2>4, <3>1, KeepDoes DEF Holds
      <3>3. Chunks(a)' = {<<a, article[a].text>>} /\ \A b \in Id \ {a} : Chunks(b)' = Chunks(b)
        BY <2>4, <3>1 DEF Chunks
      <3>4. Published(a)' /\ Due(a)' = {<<a, article[a].text>>} /\ article'[a].status # "none"
        BY <2>1, <3>1 DEF Published, Due
      <3>5. EditOK(r)'
        BY <1>1, <2>4, <3>2, <3>3, <3>4, KindsApart DEF EditOK
      <3>6. QED
        BY <2>1, <2>4, <3>3, <3>5
    <2>5. QED
      BY <1>1, <1>i, <2>2, <2>3, <2>4 DEF Index, Go, Hurts
  <1>f. ASSUME Flag(r) PROVE Kept /\ Next1
    <2>1. /\ pc[r] = "flag" /\ pc'[r] = "done" /\ UNCHANGED index
          /\ article' = IF article[a].status = "none" THEN article ELSE [article EXCEPT ![a].indexed = got[r].ok]
      BY <1>1, <1>f DEF Flag, Go, Hurts
    <2>2. Chunks(a) = Due(a) /\ got[r].ok = Published(a) /\ article[a].status # "none"
      BY <1>1, <2>1 DEF EditOK, LeadsOn
    <2>3. article' = [article EXCEPT ![a].indexed = got[r].ok]
      BY <2>1, <2>2
    <2>4. article'[a] = [article[a] EXCEPT !.indexed = got[r].ok] /\ \A b \in Id \ {a} : article'[b] = article[b]
      BY <1>1, <2>3
    <2>5. article'[a].indexed = got[r].ok /\ article'[a].status = article[a].status /\ article'[a].text = article[a].text
      BY <1>1, <2>4 DEF Row
    <2>6. \A b : Chunks(b)' = Chunks(b)
      BY <2>1 DEF Chunks
    <2>7. RowOK(a)'
      BY <2>2, <2>5, <2>6 DEF RowOK, Due, Published
    <2>8. QED
      BY <2>1, <2>4, <2>6, <2>7
  <1>d. ASSUME Drop(r) PROVE Kept /\ Next1
    <2>1. pc[r] = "drop" /\ pc'[r] = "done" /\ UNCHANGED index /\ article' = [article EXCEPT ![a] = Gone]
      BY <1>1, <1>d DEF Drop, Go
    <2>2. Chunks(a) = {}
      BY <1>1, <2>1 DEF EditOK, LeadsOn
    <2>3. article'[a] = Gone /\ \A b \in Id \ {a} : article'[b] = article[b]
      BY <1>1, <2>1
    <2>4. \A b : Chunks(b)' = Chunks(b)
      BY <2>1 DEF Chunks
    <2>7. article'[a].status = "none" /\ article'[a].indexed = FALSE
      BY <2>3 DEF Gone
    <2>8. Published(a)' = FALSE
      BY <2>7 DEF Published
    <2>9. Due(a)' = {} /\ Chunks(a)' = {} /\ article'[a].indexed = Published(a)'
      BY <2>2, <2>4, <2>7, <2>8 DEF Due
    <2>5. RowOK(a)'
      BY <2>9 DEF RowOK
    <2>6. QED
      BY <2>1, <2>3, <2>4, <2>5
  <1>v. ASSUME /\ pc[r] \in InvalidateSteps /\ UNCHANGED content
               /\ got'[r].row = got[r].row /\ got'[r].ok = got[r].ok /\ got'[r].then = got[r].then
               /\ pc'[r] \in InvalidateSteps \/ (pc[r] = "bump" /\ pc'[r] = got[r].then)
        PROVE  Kept /\ Next1
    <2>1. /\ got[r].then = "flag" => Chunks(a) = Due(a) /\ got[r].ok = Published(a) /\ article[a].status # "none"
          /\ got[r].then = "drop" => Chunks(a) = {}
      BY <1>1, <1>v DEF EditOK
    <2>2. got[r].then \in {"flag", "drop"}
      BY <1>1, <1>v DEF LeadsOn
    <2>3. EditOK(r)'
      BY <1>1, <1>4, <1>v, <2>1, <2>2, KindsApart DEF EditOK
    <2>4. pc'[r] # "done"
      BY <1>v, <2>2, KindsApart
    <2>5. QED
      BY <1>4, <1>v, <2>3, <2>4
  <1> HIDE DEF Kept, Next1
  <1>5. Kept /\ Next1
    BY <1>w, <1>s, <1>i, <1>f, <1>d, <1>v, EditMoves DEF Edit
  <1>6. RowOK(a)' => RowOK(Subject(r))'
    BY <1>1 DEF RowOK, Chunks, Due, Published
  <1>7. QED
    BY <1>3, <1>5, <1>6 DEF Next1

\* Two edits in flight overlap.
LEMMA ApartAlone ==
    ASSUME ArriveInv, Apart, NEW e \in InFlight, NEW f \in InFlight, Kind(e) \in Edits, Kind(f) \in Edits
    PROVE  e = f
  <1>1. e \in Req /\ f \in Req /\ pc[e] \notin {"free", "done"} /\ pc[f] \notin {"free", "done"}
    BY DEF InFlight
  <1>2. e # f => {e, f} \in met
    BY <1>1, BothMet
  <1>3. QED
    BY <1>1, <1>2 DEF Apart

\* Articles are indexed as their rows say, or as far as their edit has come.
LEMMA RowStep ==
    ASSUME CacheFuns, RouteInv, ArriveInv, RowInv, [CacheNext]_cacheVars
    PROVE  RowInv'
  <1>1. RowTypes'
    BY TypesStep DEF RowInv
  <1>2. SUFFICES ASSUME Apart'
                 PROVE  /\ \A a \in Id : ~Editing(a)' => RowOK(a)'
                        /\ \A e \in InFlight' : Kind(e)' \in Edits => EditOK(e)'
    BY <1>1 DEF RowInv, Edits
  <1> DEFINE P == /\ \A a \in Id : ~Editing(a)' => RowOK(a)'
                  /\ \A e \in InFlight' : Kind(e)' \in Edits => EditOK(e)'
  <1>3. hurt' = {} /\ hurt = {}
    BY <1>2, Lasts DEF Apart
  <1>4. Apart
    <2>1. ASSUME NEW e \in Req, NEW f \in Req, {Kind(e), Kind(f)} \subseteq Edits, e # f, {e, f} \in met PROVE FALSE
      <3>1. Kind(e)' = Kind(e) /\ Kind(f)' = Kind(f) /\ {e, f} \in met'
        BY <2>1, Lasts DEF ArriveInv
      <3>2. {Kind(e)', Kind(f)'} \subseteq Edits
        BY <2>1, <3>1
      <3>3. QED
        BY <1>2, <2>1, <3>1, <3>2 DEF Apart, Edits
    <2>2. QED
      BY <1>3, <2>1 DEF Apart
  <1>5. /\ \A a \in Id : ~Editing(a) => RowOK(a)
        /\ \A e \in InFlight : Kind(e) \in Edits => EditOK(e)
    BY <1>4 DEF RowInv
  \* Edits and their articles stay as they were.
  <1>6. ASSUME UNCHANGED content,
               \A e \in Req : Kind(e) \in Edits \/ Kind(e)' \in Edits =>
                    job'[e] = job[e] /\ pc'[e] = pc[e] /\ got'[e].row = got[e].row /\ got'[e].ok = got[e].ok /\ got'[e].then = got[e].then
        PROVE  P
    <2>1. \A e \in Req : Kind(e)' \in Edits <=> Kind(e) \in Edits
      BY <1>6 DEF Kind
    <2>2. \A a : RowOK(a)' = RowOK(a) /\ Chunks(a)' = Chunks(a) /\ Due(a)' = Due(a) /\ Published(a)' = Published(a)
      BY <1>6 DEF RowOK, Chunks, Due, Published, content
    <2>3. \A e \in Req : Kind(e) \in Edits => Subject(e)' = Subject(e)
      BY <1>6 DEF Subject, Kind, On
    <2>4. \A a \in Id : Editing(a)' = Editing(a)
      BY <1>6, <2>1, <2>3 DEF Editing, InFlight, Edits
    <2>5. ASSUME NEW e \in InFlight', Kind(e)' \in Edits PROVE EditOK(e)'
      <3>1. e \in InFlight /\ e \in Req /\ Kind(e) \in Edits
        BY <1>6, <2>1, <2>5 DEF InFlight
      <3>2. EditOK(e)
        BY <1>5, <3>1
      <3>3. /\ pc'[e] = pc[e] /\ got'[e].row = got[e].row /\ got'[e].ok = got[e].ok /\ got'[e].then = got[e].then
            /\ Subject(e)' = Subject(e) /\ article' = article
        BY <1>6, <2>3, <3>1 DEF content
      <3>4. QED
        BY <2>2, <3>2, <3>3 DEF EditOK, InvalidateSteps
    <2>6. QED
      BY <1>5, <2>2, <2>4, <2>5
  <1>7. ASSUME NEW r \in Req, Submit(r) PROVE P
    <2>1. /\ \A q \in Req : q # r => pc'[q] = pc[q] /\ job'[q] = job[q]
          /\ got' = got /\ UNCHANGED content /\ Kind(r) = "none" /\ pc'[r] \in {"start", "inv", "sweep"}
          /\ pc[r] = "free" /\ got[r] = Nothing
          /\ pc'[r] = "start" \/ Kind(r)' \notin Edits
          /\ r \in InFlight'
      BY <1>7, SubmitDoes, SubmitGoes DEF Edits, InFlight
    <2>2. CASE Kind(r)' \notin Edits
      <3>1. Kind(r) \notin Edits
        BY <2>1 DEF Edits
      <3>2. QED
        BY <1>6, <2>1, <2>2, <3>1
    <2>3. CASE Kind(r)' \in Edits
      <3>1. ASSUME NEW e \in InFlight, Kind(e) \in Edits PROVE FALSE
        <4>1. e \in Req /\ e # r /\ e \in InFlight' /\ Kind(e)' = Kind(e)
          BY <2>1, <3>1 DEF InFlight, Kind
        <4>2. {r, e} \in met'
          BY <1>7, <3>1, SubmitDoes
        <4>3. {Kind(r)', Kind(e)'} \subseteq Edits
          BY <2>3, <3>1, <4>1
        <4>4. QED
          BY <1>2, <4>1, <4>2, <4>3 DEF Apart, Edits
      <3>2. \A a \in Id : RowOK(a)
        BY <1>5, <3>1 DEF Editing
      <3>3. \A a : RowOK(a)' = RowOK(a)
        BY <2>1 DEF RowOK, Chunks, Due, Published, content
      <3>4. ASSUME NEW e \in InFlight', Kind(e)' \in Edits PROVE e = r
        BY <2>1, <3>1, <3>4 DEF InFlight, Kind
      <3>5. Subject(r)' \in Id
        <4>1. RouteInv'
          BY RouteStep
        <4>2. WellFormed(job[r])' /\ r \in Id /\ Id = 0..MaxReq
          BY <4>1, <2>1, CacheNumbers DEF RouteInv, StepOf, Id, InFlight
        <4>3. QED
          BY <2>3, <4>2 DEF WellFormed, Subject, Kind, On, Edits
      <3>6. RowOK(Subject(r))'
        BY <3>2, <3>3, <3>5
      <3>7. pc'[r] = "start" /\ got'[r].ok = FALSE
        BY <2>1, <2>3 DEF Nothing
      <3>8. EditOK(r)'
        BY <3>6, <3>7, KindsApart DEF EditOK
      <3>9. QED
        BY <3>2, <3>3, <3>4, <3>8
    <2>4. QED
      BY <2>2, <2>3
  <1>8. ASSUME NEW r \in Req, OwnStep(r) PROVE P
    <2>1. /\ \A q \in Req : q # r => pc'[q] = pc[q] /\ got'[q] = got[q]
          /\ job' = job /\ IndexWalk(r) /\ pc[r] \notin {"free", "done"} /\ \A e : Kind(e)' = Kind(e) /\ Subject(e)' = Subject(e)
      BY <1>8, OwnStepAlone, IndexMoves DEF Kind, Subject, On
    <2>2. CASE Kind(r) \notin Edits
      BY <1>6, <2>1, <2>2 DEF IndexWalk
    <2>3. CASE Kind(r) \in Edits
      <3>1. r \in InFlight /\ EditOK(r)
        BY <1>5, <2>1, <2>3 DEF InFlight
      <3>2. \A e \in InFlight : Kind(e) \in Edits => e = r
        BY <1>4, <2>3, <3>1, ApartAlone
      <3>3. \A b \in Id \ {Subject(r)} : RowOK(b)
        BY <1>5, <3>2 DEF Editing
      <3>4. /\ \A b \in Id \ {Subject(r)} : RowOK(b)'
            /\ IF pc'[r] = "done" THEN RowOK(Subject(r))' ELSE EditOK(r)'
        BY <1>3, <1>8, <2>3, <3>1, <3>3, EditBrings DEF RowInv
      <3>5. ASSUME NEW e \in InFlight', Kind(e)' \in Edits PROVE e = r /\ pc'[r] # "done"
        BY <2>1, <3>2, <3>5 DEF InFlight
      <3>6. ASSUME NEW a \in Id, ~Editing(a)' PROVE RowOK(a)'
        <4>1. CASE a # Subject(r)
          BY <3>4, <4>1
        <4>2. CASE a = Subject(r)
          <5>1. r \in InFlight' => Editing(a)'
            BY <2>1, <2>3, <4>2 DEF Editing, Edits
          <5>2. pc'[r] \in {"free", "done"}
            BY <3>6, <5>1 DEF InFlight
          <5>3. pc'[r] = "done"
            BY <1>8, <5>2, OwnStepGoes
          <5>4. RowOK(Subject(r))' /\ Subject(r)' = a
            BY <2>1, <3>4, <4>2, <5>3
          <5>5. QED
            BY <5>4 DEF RowOK, Chunks, Due, Published
        <4>3. QED
          BY <4>1, <4>2
      <3>7. QED
        BY <3>4, <3>5, <3>6
    <2>4. QED
      BY <2>2, <2>3
  <1>9. ASSUME Restart PROVE P
    <2>1. job' = job /\ UNCHANGED content
      BY <1>9, RestartEmpties DEF Restart
    <2>2. \A e \in Req : pc'[e] = pc[e] /\ got'[e].row = got[e].row /\ got'[e].ok = got[e].ok /\ got'[e].then = got[e].then
      BY <1>3, <1>9, UnhurtStays, RestartEmpties
    <2>3. QED
      BY <1>6, <2>1, <2>2
  <1>10. ASSUME UNCHANGED <<job, pc, got, content>> PROVE P
    BY <1>6, <1>10
  <1> HIDE DEF P
  <1>11. P
    BY <1>7, <1>8, <1>9, <1>10, CacheTurn, ExpireDoes DEF cacheVars
  <1>12. QED
    BY <1>11 DEF P

-----------------------------------------------------------------------------
(* The theorems *)

\* At the start there is one published article, indexed, and at most one answer, which the cache finds wherever it is.
LEMMA CacheStarts == CacheInit => CacheInv
  <1> SUFFICES ASSUME CacheInit PROVE CacheInv
    OBVIOUS
  <1>1. PICK k \in {<<CHOOSE q \in Query : TRUE, 0>>}, cached \in {"nowhere", "L2", "both"} :
          /\ l1 = [x \in CacheKey |-> IF x = k /\ cached \in {"both"} THEN 0 ELSE NoEntry]
          /\ redis = [x \in CacheKey |-> IF x = k /\ cached \in {"L2", "both"} THEN 0 ELSE NoEntry]
          /\ lsh = (IF cached \in {"both"} THEN {k} ELSE {})
          /\ keysByOrg = (IF cached \in {"both"} THEN {k} ELSE {})
          /\ orgIndex = (IF cached \in {"L2", "both"} THEN {k} ELSE {})
    BY Zenon DEF CacheInit
  <1>2. /\ job = [r \in Req |-> [kind |-> "none", on |-> NoEntry, opt |-> "none"]]
        /\ pc = [r \in Req |-> "free"] /\ got = [r \in Req |-> Nothing] /\ served = [r \in Req |-> NoEntry]
        /\ article = [a \in Id |-> IF a = 0 THEN [status |-> "published", text |-> 0, indexed |-> TRUE] ELSE Gone]
        /\ index = {<<0, 0>>} /\ version = 0 /\ local = 0 /\ lease = [x \in CacheKey |-> NoEntry]
        /\ met = {} /\ hurt = {} /\ expired = {}
    BY DEF CacheInit
  <1>3. k \in CacheKey /\ k[2] = 0
    <2>1. (CHOOSE q \in Query : TRUE) \in Query
      BY KnowledgeCacheAssumption
    <2>2. 0 \in Version
      BY CacheNumbers DEF Version
    <2>3. QED
      BY <1>1, <2>1, <2>2 DEF CacheKey
  <1>4. \A r \in Req : pc[r] = "free" /\ Kind(r) = "none" /\ served[r] = NoEntry
    BY <1>2 DEF Kind
  <1>5. \A r \in Req : got[r] = Nothing /\ got[r].ver = 0 /\ got[r].row = NoEntry
    BY <1>2 DEF Nothing
  <1>6. InFlight = {} /\ \A r \in Req : ~Raised(r)
    BY <1>4 DEF InFlight, Raised, Edits
  <1>7. CacheFuns
    BY <1>1, <1>2, <1>3 DEF CacheFuns
  <1>8. ArriveInv
    BY <1>2, <1>4, <1>6 DEF ArriveInv
  <1>9. RouteInv
    BY <1>4, <1>5, KindsApart DEF RouteInv, StepOf, LeadsOn, CacheSteps
  <1>10. WaitInv
    BY <1>2, <1>4 DEF WaitInv
  <1>11. VersionInv
    BY <1>2, <1>4, <1>5, <1>6 DEF VersionInv, Edits
  <1>12. \A r \in Req : ~LooksUp(r) /\ ~Stores(r) /\ ~Promotes(r)
    BY <1>4 DEF LooksUp, Stores, Promotes, LookupSteps, StoreSteps, SharedSteps
  <1>13. AskInv
    BY <1>4, <1>12 DEF AskInv
  <1>14. Valid(0, k)
    BY <1>2, <1>3, <1>6, CacheNumbers DEF Valid, Known
  <1>15. \A x \in CacheKey : (l1[x] # NoEntry => x = k /\ cached = "both" /\ l1[x] = 0)
                          /\ (redis[x] # NoEntry => x = k /\ cached \in {"L2", "both"} /\ redis[x] = 0)
    BY <1>1
  <1>16. PlaceInv
    BY <1>12, <1>14, <1>15 DEF PlaceInv
  <1>17. ServedInv
    BY <1>4 DEF ServedInv
  <1>18. TrackInv
    BY <1>1, <1>15 DEF TrackInv
  <1>19. EvictInv
    BY <1>4 DEF EvictInv
  <1>20. IndexInv
    BY <1>1, <1>4, <1>15 DEF IndexInv
  <1>21. DropInv
    BY <1>4 DEF DropInv
  <1>22. article \in [Id -> Row]
    BY <1>2, CacheNumbers DEF Row, Gone
  <1>23. RowTypes
    BY <1>2, <1>5, <1>22, CacheNumbers DEF RowTypes
  <1>24. ASSUME NEW a \in Id PROVE RowOK(a)
    <2>1. CASE a = 0
      <3>1. article[a] = [status |-> "published", text |-> 0, indexed |-> TRUE]
        BY <1>2, <2>1
      <3>2. Published(a) = TRUE /\ article[a].text = 0 /\ article[a].indexed = TRUE
        BY <3>1 DEF Published
      <3>3. Chunks(a) = {<<0, 0>>}
        BY <1>2, <2>1 DEF Chunks
      <3>4. QED
        BY <2>1, <3>2, <3>3 DEF RowOK, Due
    <2>2. CASE a # 0
      <3>1. article[a] = Gone
        BY <1>2, <2>2
      <3>2. Published(a) = FALSE /\ article[a].indexed = FALSE
        BY <3>1 DEF Published, Gone
      <3>3. Chunks(a) = {}
        BY <1>2, <2>2 DEF Chunks
      <3>4. QED
        BY <3>2, <3>3 DEF RowOK, Due
    <2>3. QED
      BY <2>1, <2>2
  <1>25. RowInv
    BY <1>6, <1>23, <1>24 DEF RowInv
  <1>26. QED
    BY <1>7, <1>8, <1>9, <1>10, <1>11, <1>13, <1>16, <1>17, <1>18, <1>19, <1>20, <1>21, <1>25 DEF CacheInv

\* No step of any request, no failure, expiry or restart undoes any part of it.
LEMMA CacheKeeps == CacheInv /\ [CacheNext]_cacheVars => CacheInv'
  <1> SUFFICES ASSUME CacheInv, [CacheNext]_cacheVars PROVE CacheInv'
    OBVIOUS
  <1>1. /\ CacheFuns /\ ArriveInv /\ RouteInv /\ WaitInv /\ VersionInv /\ AskInv /\ PlaceInv /\ ServedInv
        /\ TrackInv /\ EvictInv /\ IndexInv /\ DropInv /\ RowInv
    BY DEF CacheInv
  <1>2. CacheFuns' /\ ArriveInv' /\ RouteInv' /\ WaitInv'
    BY <1>1, FunsStep, ArriveStep, RouteStep, WaitStep
  <1>3. VersionInv' /\ AskInv' /\ PlaceInv' /\ ServedInv'
    BY <1>1, VersionSteps, AsksStep, PlaceStep, ServedStep
  <1>4. TrackInv' /\ EvictInv' /\ IndexInv'
    BY <1>1, TrackStep, EvictStep, IndexStep
  <1>5. DropInv' /\ RowInv'
    BY <1>1, DropStep, RowStep
  <1>6. QED
    BY <1>2, <1>3, <1>4, <1>5 DEF CacheInv

\* Whatever requests interleave, fail, expire or restart, the cache, the version in its keys and the index stay as
\* CacheInv describes them.
THEOREM CacheInvariantHolds == CacheSpec => []CacheInv
  <1>1. CacheInit => CacheInv
    BY CacheStarts
  <1>2. CacheInv /\ [CacheNext]_cacheVars => CacheInv'
    BY CacheKeeps
  <1>3. QED
    BY <1>1, <1>2, PTL DEF CacheSpec

\* An answer given before an edit that reached the index and the cache is not given after it (KbVersionRegistry):
\* for every number of requests, versions and failures.
THEOREM RetiredStays == CacheSpec => []RetiredStaysRetired
  <1>1. CacheInv => RetiredStaysRetired
    <2> SUFFICES ASSUME CacheInv, NEW r \in Req, NEW e \in Req, NEW s \in Id,
                        served[r] = s, Retires(e), Before(s, e), Before(e, r)
                 PROVE  r \in hurt \/ \E f \in hurt : Kind(f) \in Edits /\ ~Before(s, f)
      BY DEF RetiredStaysRetired
    <2>1. served[r] # NoEntry
      BY CacheNumbers
    <2>2. Raised(e)
      BY DEF Retires, Raised
    <2>3. r \in hurt \/ Excused(s)
      BY <2>1, <2>2 DEF CacheInv, ServedInv
    <2>4. QED
      BY <2>3 DEF Excused
  <1>2. QED
    BY <1>1, CacheInvariantHolds, PTL

\* A purge that nothing overlaps drops what was answered before it, and with no two requests in flight together every
\* entry of L1 can be found by a paraphrase and by a purge (invalidateOrg, promote, the eviction listener).
THEOREM PurgesAlwaysHold == CacheSpec => []PurgesHold
  <1>1. CacheInv => PurgeDrops
    <2> SUFFICES ASSUME CacheInv, NEW r \in Req, NEW p \in Req, NEW s \in Id,
                        served[r] = s, Kind(p) = "purge", Before(s, p), Before(p, r), Alone(p), ~Mixed(s, p), hurt = {}
                 PROVE  FALSE
      BY DEF PurgeDrops
    <2>1. Dropped(p, s)
      BY DEF CacheInv, DropInv
    <2>2. QED
      BY <2>1 DEF Dropped
  <1>2. CacheInv => EntriesAreTracked
    <2> SUFFICES ASSUME CacheInv, InFlight = {}, met = {}, NEW k \in CacheKey, l1[k] # NoEntry
                 PROVE  k \in lsh \cap keysByOrg
      BY DEF EntriesAreTracked
    <2>1. ~Blurred(l1[k])
      BY DEF Blurred
    <2>2. ASSUME NEW r \in Req, Tracks(r, k) PROVE FALSE
      <3>1. pc[r] \notin {"free", "done"}
        BY <2>2, TrackersAsk DEF CacheInv
      <3>2. QED
        BY <3>1 DEF InFlight
    <2>3. QED
      BY <2>1, <2>2 DEF CacheInv, TrackInv
  <1>3. CacheInv => PurgesHold
    BY <1>1, <1>2 DEF PurgesHold
  <1>4. QED
    BY <1>3, CacheInvariantHolds, PTL

\* With everything at rest, nothing failed and no two edits overlapped, the vector index holds the text of the
\* published articles and nothing else (knowledge.service syncToIndex).
THEOREM IndexAlwaysFollows == CacheSpec => []IndexFollowsRows
  <1>1. CacheInv => IndexFollowsRows
    <2> SUFFICES ASSUME CacheInv, InFlight = {}, hurt = {},
                        \A e, f \in Req : {Kind(e), Kind(f)} \subseteq Edits => {e, f} \notin met \/ e = f
                 PROVE  index = {<<a, article[a].text>> : a \in {b \in Id : Published(b)}}
      BY DEF IndexFollowsRows
    <2>1. Apart
      BY DEF Apart
    <2>2. \A a \in Id : ~Editing(a)
      BY DEF Editing
    <2>3. RowTypes /\ \A a \in Id : Chunks(a) = Due(a)
      BY <2>1, <2>2 DEF CacheInv, RowInv, RowOK
    <2>4. ASSUME NEW c \in index PROVE c \in {<<a, article[a].text>> : a \in {b \in Id : Published(b)}}
      <3>1. c[1] \in Id
        BY <2>3, <2>4 DEF RowTypes
      <3>2. c \in Due(c[1])
        BY <2>3, <2>4, <3>1 DEF Chunks
      <3>3. Published(c[1]) /\ c = <<c[1], article[c[1]].text>>
        BY <3>2 DEF Due
      <3>4. QED
        BY <3>1, <3>3
    <2>5. ASSUME NEW a \in Id, Published(a) PROVE <<a, article[a].text>> \in index
      <3>1. <<a, article[a].text>> \in Due(a)
        BY <2>5 DEF Due
      <3>2. QED
        BY <2>3, <3>1 DEF Chunks
    <2>6. QED
      BY <2>4, <2>5
  <1>2. QED
    BY <1>1, CacheInvariantHolds, PTL
=============================================================================
