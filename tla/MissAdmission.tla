----------------------------- MODULE MissAdmission -----------------------------
(***************************************************************************)
(* What happens to a cache miss in the semantic cache (apps/semantic-      *)
(* cache): RequestCoalescer makes the first miss of a key its owner and    *)
(* parks the others on the owner's future, LlmRequestScheduler hands the   *)
(* owner one of maxConcurrent slots or queues it, and the slot goes back   *)
(* when the owner's lease ends: stored, released, timed out or cleared.    *)
(*                                                                         *)
(* Requests run on different threads, timers on another.  A lease bears    *)
(* the name of the request that owns it.  What is done under the           *)
(* scheduler's lock is one step; so is each operation of a concurrent map  *)
(* and the completion of a future, whose callbacks run as steps of their   *)
(* own, later.                                                             *)
(***************************************************************************)
EXTENDS Integers, FiniteSets

CONSTANTS
    Requests,       \* lookups that missed
    Keys,           \* exact cache identities
    Key,            \* Key[r]: the identity request r asks for
    None,           \* no lease
    MaxConcurrent,  \* scheduler-max-concurrent
    MaxQueue,       \* scheduler-max-queue-size
    Priority,       \* Priority[r]: the priority request r comes with
    MaxPriority,    \* bound: priorities 0 .. MaxPriority, ageing included
    MaxClears       \* bound: calls of clearAll

ASSUME AdmissionAssumption ==
    /\ None \notin Requests
    /\ Key \in [Requests -> Keys]
    /\ MaxConcurrent \in Nat \ {0}
    /\ MaxQueue \in Nat
    /\ MaxPriority \in Nat
    /\ Priority \in [Requests -> 0..MaxPriority]
    /\ MaxClears \in Nat

VARIABLES
    req,        \* req[r]: where request r is, and its lease or the one it waits on
    byKey,      \* byKey[k]: the lease in flight for k, or None
    byLease,    \* leases complete and fail can find
    future,     \* future[l]: "none", "open", or "over" (answered or failed)
    cleaned,    \* leases whose map entries the coalescer's callback removed
    admitted,   \* admitted[l]: what acquire has answered lease l
    active,     \* slots in use
    queue,      \* waiters, those that timed out included until they are discarded
    enqueuedAt, \* enqueuedAt[l] of a waiter: the instants, numbered
    priority,   \* priority[l] of a waiter
    holds,      \* leaseHoldsSlot[l]: "absent", TRUE or FALSE
    released,   \* leases whose releaseSlot callback has run
    clearing,   \* clearAll has failed the futures and not yet emptied the maps
    clears,
    dropped     \* leases clear() took out of the maps while they were open

coalescer == <<byKey, byLease, future, cleaned>>
scheduler == <<admitted, active, queue, enqueuedAt, priority>>
slots == <<holds, released>>
clear == <<clearing, clears, dropped>>
vars == <<req, coalescer, scheduler, slots, clear>>

Done(l) == future[l] = "over"

\* The lease is in begin's maps and its callbacks are attached.
Registered(l) == req[l].pc \in {"acquire", "await", "running", "done"} /\ req[l].lease = l

\* A waiter whose future nobody completed yet.
Live(l) == admitted[l] = "queued"

-----------------------------------------------------------------------------
(* Helpers *)

\* ORDER: the highest priority first, the earliest among equals.  Two waiters of the same
\* priority and instant are polled in any order.
Ahead(l, m) ==
    \/ priority[l] > priority[m]
    \/ priority[l] = priority[m] /\ enqueuedAt[l] < enqueuedAt[m]

\* dispatch, when one slot is free: waiters that timed out are polled and skipped, the
\* first live one is granted the slot.
DispatchNobody(used) ==
    active' = used /\ UNCHANGED <<admitted, queue>>
Dispatch(used) ==
    LET live == {l \in queue : Live(l)} IN
    \/ /\ live = {}
       /\ active' = used
       /\ queue' = {}
       /\ UNCHANGED admitted
    \/ \E next \in live, skipped \in SUBSET (queue \ live) :
          /\ \A l \in live : ~Ahead(l, next)
          /\ \A l \in queue \ live : /\ Ahead(l, next) => l \in skipped
                                    /\ Ahead(next, l) => l \notin skipped
          /\ active' = used + 1
          /\ admitted' = [admitted EXCEPT ![next] = "granted"]
          /\ queue' = queue \ (skipped \cup {next})

\* A waiter comes no earlier than those before it: in the millisecond of the last of them,
\* or later.
Instants ==
    {t \in {0} \cup UNION {{enqueuedAt[l], enqueuedAt[l] + 1} : l \in queue} :
        \A l \in queue : enqueuedAt[l] <= t}

\* byKey.remove(key, created): only this lease's own entry.
RemoveOwner(k, l) == byKey' = [byKey EXCEPT ![k] = IF @ = l THEN None ELSE @]

\* The lease leaves byLease when its future ends, however it ended.
KeepsLease(l) == byLease' = byLease
ForgetsLease(l) == byLease' = byLease \ {l}

\* A lease that may still time out: the timer is on the future, not on the maps.
OpenInMap(l) == future[l] = "open" /\ l \in byLease
OpenFuture(l) == future[l] = "open"

\* orTimeout's timer will end the lease: its owner was told, and its future is open.  The
\* timeout is longer than acquire's in the configuration, so it does not run out before.
LeaseRuns(l) == req[l].pc \in {"running", "done"} /\ req[l].lease = l /\ OpenFuture(l)

\* The scheduler has answered the owner.
Decided(r) == req[r].pc = "await" /\ admitted[r] \in {"granted", "denied"}

\* The lease a parked request waits on is over.
Answered(r) == req[r].pc = "waiting" /\ Done(req[r].lease)

\* The size test of acquire.
QueueFull == Cardinality(queue) >= MaxQueue

\* releaseSlot gives back the slots that were granted, no others.
HeldSlot(held) == held = "TRUE"

-----------------------------------------------------------------------------
(* State *)

Lookup == [pc : {"new", "register", "acquire", "await", "running", "waiting", "done"},
           lease : Requests \cup {None}]

\* The type invariant; at most MaxConcurrent slots are in use and MaxQueue waiters queued.
TypeOK ==
    /\ req \in [Requests -> Lookup]
    /\ byKey \in [Keys -> Requests \cup {None}]
    /\ byLease \subseteq Requests
    /\ future \in [Requests -> {"none", "open", "over"}]
    /\ cleaned \subseteq Requests
    /\ admitted \in [Requests -> {"none", "queued", "granted", "denied"}]
    /\ active \in 0..MaxConcurrent
    /\ queue \subseteq Requests /\ IsFiniteSet(queue) /\ Cardinality(queue) <= MaxQueue
    /\ enqueuedAt \in [Requests -> Nat]
    /\ priority \in [Requests -> 0..MaxPriority]
    /\ holds \in [Requests -> {"absent", "TRUE", "FALSE"}]
    /\ released \subseteq Requests
    /\ clearing \in BOOLEAN
    /\ clears \in 0..MaxClears
    /\ dropped \subseteq Requests

Init ==
    /\ req = [r \in Requests |-> [pc |-> "new", lease |-> None]]
    /\ byKey = [k \in Keys |-> None]
    /\ byLease = {}
    /\ future = [l \in Requests |-> "none"]
    /\ cleaned = {}
    /\ admitted = [l \in Requests |-> "none"]
    /\ active = 0
    /\ queue = {}
    /\ enqueuedAt = [l \in Requests |-> 0]
    /\ priority = Priority
    /\ holds = [l \in Requests |-> "absent"]
    /\ released = {}
    /\ clearing = FALSE
    /\ clears = 0
    /\ dropped = {}

-----------------------------------------------------------------------------
(* RequestCoalescer *)

\* begin: putIfAbsent makes r the owner of its key, or r waits on the owner's future.
Begin(r) ==
    LET k == Key[r] IN
    /\ req[r].pc = "new"
    /\ \/ /\ byKey[k] = None
          /\ byKey' = [byKey EXCEPT ![k] = r]
          /\ future' = [future EXCEPT ![r] = "open"]
          /\ req' = [req EXCEPT ![r].pc = "register", ![r].lease = r]
       \/ /\ byKey[k] # None
          /\ req' = [req EXCEPT ![r].pc = "waiting", ![r].lease = byKey[k]]
          /\ UNCHANGED <<byKey, future>>
    /\ UNCHANGED <<byLease, cleaned, scheduler, slots, clear>>

\* The rest of begin: byLease, the timeout and the callbacks.
Register(r) ==
    /\ req[r].pc = "register"
    /\ byLease' = byLease \cup {r}
    /\ req' = [req EXCEPT ![r].pc = "acquire"]
    /\ UNCHANGED <<byKey, future, cleaned, scheduler, slots, clear>>

\* The owner's answer arrives in store, or its release does, early or late: complete and
\* fail find the lease or not.
OwnerFinishes(r) ==
    /\ req[r].pc = "running"
    /\ future' = [future EXCEPT ![r] = IF r \in byLease THEN "over" ELSE @]
    /\ req' = [req EXCEPT ![r].pc = "done"]
    /\ UNCHANGED <<byKey, byLease, cleaned, scheduler, slots, clear>>

\* orTimeout.
LeaseTimeout(l) ==
    /\ LeaseRuns(l)
    /\ future' = [future EXCEPT ![l] = "over"]
    /\ UNCHANGED <<req, byKey, byLease, cleaned, scheduler, slots, clear>>

\* The coalescer's callback: the entries of a lease that ended are removed.
Cleanup(l) ==
    /\ Registered(l) /\ Done(l) /\ l \notin cleaned
    /\ RemoveOwner(Key[l], l)
    /\ ForgetsLease(l)
    /\ cleaned' = cleaned \cup {l}
    /\ UNCHANGED <<req, future, scheduler, slots, clear>>

\* A parked request gets the answer, or a plain miss when the owner failed.
Served(r) ==
    /\ Answered(r)
    /\ req' = [req EXCEPT ![r].pc = "done"]
    /\ UNCHANGED <<coalescer, scheduler, slots, clear>>

\* clear: every future in the map is failed ...
ClearFutures ==
    /\ clears < MaxClears /\ ~clearing
    /\ clears' = clears + 1
    /\ clearing' = TRUE
    /\ future' = [l \in Requests |-> IF \E k \in Keys : byKey[k] = l
                                     THEN "over" ELSE future[l]]
    /\ UNCHANGED <<req, byKey, byLease, cleaned, scheduler, slots, dropped>>

\* ... then both maps are emptied, of leases begun meanwhile too.
ClearMaps ==
    /\ clearing
    /\ clearing' = FALSE
    /\ dropped' = dropped \cup {l \in Requests : (\E k \in Keys : byKey[k] = l) /\ ~Done(l)}
    /\ byKey' = [k \in Keys |-> None]
    /\ byLease' = {}
    /\ UNCHANGED <<req, future, cleaned, scheduler, slots, clears>>

-----------------------------------------------------------------------------
(* LlmRequestScheduler *)

Acquire(r) ==
    /\ req[r].pc = "acquire"
    /\ req' = [req EXCEPT ![r].pc = "await"]
    /\ \/ /\ active < MaxConcurrent
          /\ active' = active + 1
          /\ admitted' = [admitted EXCEPT ![r] = "granted"]
          /\ UNCHANGED <<queue, enqueuedAt>>
       \/ /\ active = MaxConcurrent /\ QueueFull
          /\ admitted' = [admitted EXCEPT ![r] = "denied"]
          /\ UNCHANGED <<active, queue, enqueuedAt>>
       \/ /\ active = MaxConcurrent /\ ~QueueFull
          /\ admitted' = [admitted EXCEPT ![r] = "queued"]
          /\ queue' = queue \cup {r}
          /\ \E instant \in Instants : enqueuedAt' = [enqueuedAt EXCEPT ![r] = instant]
          /\ UNCHANGED active
    /\ UNCHANGED <<coalescer, priority, slots, clear>>

\* completeOnTimeout(false): the waiter stays in the queue until it is discarded.
WaiterTimeout(l) ==
    /\ Live(l)
    /\ admitted' = [admitted EXCEPT ![l] = "denied"]
    /\ UNCHANGED <<req, coalescer, active, queue, enqueuedAt, priority, slots, clear>>

\* ageWaiters: those that were queued by some instant move up.
AgeWaiters ==
    /\ \E instant \in {enqueuedAt[l] : l \in queue} :
          priority' = [l \in Requests |->
                           IF l \in queue /\ enqueuedAt[l] <= instant /\ priority[l] < MaxPriority
                           THEN priority[l] + 1 ELSE priority[l]]
    /\ UNCHANGED <<req, coalescer, admitted, active, queue, enqueuedAt, slots, clear>>

\* onMiss's callback: leaseHoldsSlot is written and the owner gets its lease; a denied
\* waiter is discarded from the queue first.
Publish(r) ==
    /\ Decided(r)
    /\ holds' = [holds EXCEPT ![r] = IF admitted[r] = "granted" THEN "TRUE" ELSE "FALSE"]
    /\ queue' = IF admitted[r] = "denied" THEN queue \ {r} ELSE queue
    /\ req' = [req EXCEPT ![r].pc = "running"]
    /\ UNCHANGED <<coalescer, admitted, active, enqueuedAt, priority, released, clear>>

\* The callback of a lease that ended: releaseSlot, which gives a held slot back.
ReleaseSlot(l) ==
    /\ Registered(l) /\ Done(l) /\ l \notin released
    /\ released' = released \cup {l}
    /\ holds' = [holds EXCEPT ![l] = "absent"]
    /\ \/ HeldSlot(holds[l]) /\ Dispatch(IF active > 0 THEN active - 1 ELSE 0)
       \/ ~HeldSlot(holds[l]) /\ UNCHANGED <<admitted, active, queue>>
    /\ UNCHANGED <<req, coalescer, enqueuedAt, priority, clear>>

-----------------------------------------------------------------------------

LeaseStep(r) ==
    Begin(r) \/ Register(r) \/ Acquire(r) \/ Publish(r) \/ Served(r)

Timers(l) == LeaseTimeout(l) \/ WaiterTimeout(l)

Callbacks(l) == Cleanup(l) \/ ReleaseSlot(l)

Next ==
    \/ \E r \in Requests : LeaseStep(r) \/ OwnerFinishes(r) \/ Timers(r) \/ Callbacks(r)
    \/ AgeWaiters
    \/ ClearFutures \/ ClearMaps

Spec == Init /\ [][Next]_vars

-----------------------------------------------------------------------------
(* Properties *)

Granted == {l \in Requests : holds[l] = "TRUE"}

\* Slots are given back once each: those recorded as held never exceed those in use,
\* which release's test of active > 0 would otherwise hide.
HeldSlotsAreActive == Cardinality(Granted) <= active

\* No waiter is queued beside a free slot.
NoIdleSlotWhileQueued ==
    (\E l \in queue : Live(l)) => active = MaxConcurrent

\* The count of slots is right both ways: none is given back twice, and none stays free while
\* somebody waits for one (LlmScheduler).
SlotsAreUsed == HeldSlotsAreActive /\ NoIdleSlotWhileQueued

\* One owner per key: an open lease is the one its key's later misses wait on, unless
\* clear() dropped it from the map.
OneOwnerPerKey ==
    \A l \in Requests :
        future[l] = "open" /\ l \notin dropped => byKey[Key[l]] = l

\* Every request is over, and so is every lease with its callbacks.
Settled == \A r \in Requests :
               req[r].pc = "done" /\ (req[r].lease = r => Done(r) /\ r \in cleaned /\ r \in released)

\* "nothing is left behind": when every request and lease is over the coalescer's maps
\* are empty, nobody is queued, and the only slots in use are those recorded in
\* leaseHoldsSlot after their lease had ended.
NothingLeftBehind ==
    Settled /\ ~clearing =>
        /\ \A k \in Keys : byKey[k] = None
        /\ byLease = {}
        /\ queue = {}
        /\ active = Cardinality(Granted)

\* Leases: one per key while they last, and nothing of them afterwards (RequestCoalescer).
LeasesHold == OneOwnerPerKey /\ NothingLeftBehind

\* A request, or a timer of its lease, has a step to take: Begin, Register and Acquire ask
\* for nothing else, Publish, Served, WaiterTimeout and LeaseTimeout have these guards.
CanMove(r) ==
    \/ req[r].pc \in {"new", "register", "acquire"}
    \/ Decided(r) \/ Answered(r) \/ Live(r) \/ LeaseRuns(r)

\* "a stuck owner degrades throughput, it does not hang the platform"
\* (RequestCoalescer.java): every request that is not through can move, or is parked on a
\* lease whose owner or timer can.  It never waits for an owner's answer, for a request
\* that is parked itself, nor for a lease that clear() took from the maps.  Every step but
\* ageing takes a request or a lease forward for good, so nobody is stranded.
NobodyIsStranded ==
    \A r \in Requests :
        \/ req[r].pc \in {"running", "done"}
        \/ CanMove(r)
        \/ req[r].pc = "waiting" /\ CanMove(req[r].lease)

\* "exactly one release happens per grant" (SemanticCacheService.java:64): once every
\* lease is over, no slot is in use.
EveryGrantIsReleased == Settled /\ ~clearing => active = 0

=============================================================================
