---------------------------- MODULE Outgoing_proofs ----------------------------
(***************************************************************************)
(* Proofs about what the platform sends on its own: the webhooks           *)
(* (WebhookDelivery), for any replicas, endpoints, events and attempt      *)
(* limit and any number of retries and crashes; and the status e-mails     *)
(* (StatusEmails), for any agents, pollers, statuses, attempts, batch size *)
(* and numbers of rows and faults.                                         *)
(***************************************************************************)
EXTENDS WebhookDelivery, StatusEmails, FiniteSetTheorems, SequenceTheorems, TLAPS

-----------------------------------------------------------------------------
(* The webhooks: the inductive invariant *)

\* What every sender is doing with d.
At(d) == [w \in Senders |-> attempt[w][d]]

Flying(a) == a.pc \in {"send", "record"}
Flight(at) == {w \in Senders : Flying(at[w])}

\* The POSTs attempt a may still make of a budget of m, its retries included.
Left(a, m) == {i \in 0..(m - 1) : /\ Flying(a)
                                  /\ a.attempts <= i
                                  /\ a.pc = "record" => i # a.attempts}
Owed(at, m) == {p \in Senders \X (0..(m - 1)) : p[2] \in Left(at[p[1]], m)}

Flights(d) == Cardinality(Flight(At(d)))
Posts(d) == Cardinality(Owed(At(d), Budget(d)))

\* Some attempt in flight is the one the row waits for.
Held(d) == \E w \in Senders : InFlight(w, d) /\ attempt[w][d].next = row[d].next

\* The POSTs the row itself stands for, when no attempt in flight holds it.
RowOwes(d) ==
    IF HasRow(d) /\ row[d].status = "pending" /\ ~Held(d) THEN Budget(d) - row[d].attempts ELSE 0

\* Its row was, or might have been, created: that happens once.
Created(d) == IF d[2] = TestEvent THEN d[1] \in tested ELSE dispatch[d[2]].pc = "done"

NothingBeforeCreation(d) ==
    ~Created(d) => /\ ~HasRow(d)
                   /\ \A w \in Senders : attempt[w][d] = NoAttempt
                   /\ sends[d] = 0 /\ retried[d] = 0 /\ d \notin accepted

StampsHandedOut(d) ==
    /\ HasRow(d) => row[d].next <= stamps
    /\ \A w \in Senders : attempt[w][d] # NoAttempt => attempt[w][d].next <= stamps

AttemptsInBudget(d) ==
    /\ HasRow(d) /\ row[d].status = "pending" => row[d].attempts < Budget(d)
    /\ \A w \in Senders : attempt[w][d] # NoAttempt => attempt[w][d].attempts < Budget(d)

DueIsNotHeld(d) == HasRow(d) /\ row[d].status = "pending" /\ row[d].due => ~Held(d)

\* Nobody can claim what is in flight.
ClaimsAreStale(d) ==
    \A v, w \in Senders :
        attempt[v][d].pc = "claim" /\ InFlight(w, d) => attempt[v][d].next # attempt[w][d].next

HolderKnowsTheRow(d) ==
    \A w \in Senders :
        HasRow(d) /\ row[d].status = "pending" /\ InFlight(w, d) /\ attempt[w][d].next = row[d].next
            => attempt[w][d].attempts = row[d].attempts

\* Each manual retry can leave one attempt in flight behind.
FlightsAreExplained(d) ==
    Flights(d) <= retried[d] + (IF HasRow(d) /\ ~Held(d) THEN 0 ELSE 1)

SendsAreExplained(d) ==
    sends[d] + Posts(d) + RowOwes(d) <= Budget(d) * (1 + retried[d]) + crashes

InFlightIsPending(d) ==
    retried[d] = 0 /\ HasRow(d) /\ Flight(At(d)) # {} => row[d].status = "pending"

AcceptedIsRecorded(d) ==
    retried[d] = 0 /\ crashes = 0 /\ HasRow(d) /\ d \in accepted =>
        \/ row[d].status = "delivered"
        \/ \E w \in Senders : attempt[w][d].pc = "record" /\ attempt[w][d].answer = "2xx"

DeliveryInv(d) ==
    /\ NothingBeforeCreation(d)
    /\ StampsHandedOut(d)
    /\ DueIsNotHeld(d)
    /\ ClaimsAreStale(d)
    /\ HolderKnowsTheRow(d)
    /\ FlightsAreExplained(d)
    /\ SendsAreExplained(d)
    /\ InFlightIsPending(d)
    /\ AcceptedIsRecorded(d)

\* A retry that passed its check is still to be counted.
RetriesToCount == \A d \in retrying : retried[d] < MaxRetries

TypeInv == TypeOK /\ RetriesToCount /\ \A d \in Deliveries : AttemptsInBudget(d)

WebhookInv == TypeInv /\ \A d \in Deliveries : DeliveryInv(d)

-----------------------------------------------------------------------------
(* Counting: what one sender's step changes *)

\* A bigger set in two disjoint parts.
LEMMA SplitCardinality ==
    ASSUME NEW S, NEW T, IsFiniteSet(S), IsFiniteSet(T), S \cap T = {}
    PROVE  /\ IsFiniteSet(S \cup T)
           /\ Cardinality(S) \in Nat /\ Cardinality(T) \in Nat
           /\ Cardinality(S \cup T) = Cardinality(S) + Cardinality(T)
  <1>1. Cardinality(S) \in Nat /\ Cardinality(T) \in Nat
    BY FS_CardinalityType
  <1>2. Cardinality(S \cap T) = 0
    BY FS_EmptySet
  <1>3. /\ IsFiniteSet(S \cup T)
        /\ Cardinality(S \cup T) = Cardinality(S) + Cardinality(T) - Cardinality(S \cap T)
    BY FS_Union
  <1>4. QED
    BY <1>1, <1>2, <1>3

\* There are finitely many senders.
LEMMA SendersFinite == IsFiniteSet(Senders)
  BY WebhookAssumption, FS_AddElement DEF Senders

\* One sender's attempt is in flight or not: the others count as before.
LEMMA FlightChange ==
    ASSUME NEW at \in [Senders -> Attempt], NEW to \in [Senders -> Attempt],
           NEW w \in Senders, \A v \in Senders \ {w} : to[v] = at[v]
    PROVE  /\ Cardinality(Flight(at)) \in Nat
           /\ Cardinality(Flight(to)) \in Nat
           /\ Cardinality(Flight(to)) + (IF Flying(at[w]) THEN 1 ELSE 0)
                = Cardinality(Flight(at)) + (IF Flying(to[w]) THEN 1 ELSE 0)
  <1> DEFINE rest == Flight(at) \ {w}
             mine(x) == IF Flying(x[w]) THEN {w} ELSE {}
  <1>1. /\ Flight(at) = rest \cup mine(at)
        /\ Flight(to) = rest \cup mine(to)
        /\ rest \cap mine(at) = {} /\ rest \cap mine(to) = {}
    BY DEF Flight
  <1>2. IsFiniteSet(rest)
    BY SendersFinite, FS_Subset DEF Flight
  <1>3. \A x : /\ IsFiniteSet(mine(x))
               /\ Cardinality(mine(x)) = IF Flying(x[w]) THEN 1 ELSE 0
    BY FS_EmptySet, FS_Singleton
  <1> HIDE DEF rest, mine
  <1>4. /\ Cardinality(rest) \in Nat
        /\ Cardinality(Flight(at)) = Cardinality(rest) + Cardinality(mine(at))
        /\ Cardinality(Flight(to)) = Cardinality(rest) + Cardinality(mine(to))
    BY <1>1, <1>2, <1>3, SplitCardinality
  <1>5. QED
    BY <1>3, <1>4

\* The POSTs left to an attempt.
LEMMA LeftSize ==
    ASSUME NEW a \in Attempt, NEW m \in Nat, a # NoAttempt => a.attempts < m
    PROVE  /\ IsFiniteSet(Left(a, m))
           /\ Cardinality(Left(a, m)) = IF a.pc = "send" THEN m - a.attempts
                                        ELSE IF a.pc = "record" THEN m - a.attempts - 1
                                        ELSE 0
  <1>1. CASE ~Flying(a)
    <2>1. Left(a, m) = {}
      BY <1>1 DEF Left
    <2>2. QED
      BY <1>1, <2>1, FS_EmptySet DEF Flying
  <1>2. CASE Flying(a)
    <2>1. a.attempts \in Nat /\ a.attempts < m
      BY <1>2 DEF Attempt, NoAttempt, Flying
    <2>2. CASE a.pc = "send"
      <3>1. Left(a, m) = a.attempts..(m - 1)
        BY <2>1, <2>2 DEF Left, Flying
      <3>2. QED
        BY <2>1, <2>2, <3>1, FS_Interval, SMTT(30)
    <2>3. CASE a.pc = "record"
      <3>1. Left(a, m) = (a.attempts + 1)..(m - 1)
        <4>1. \A i \in Int : i \in Left(a, m) <=> i \in (a.attempts + 1)..(m - 1)
          BY <2>1, <2>3 DEF Left, Flying
        <4>2. Left(a, m) \subseteq Int /\ (a.attempts + 1)..(m - 1) \subseteq Int
          BY DEF Left
        <4>3. QED
          BY <4>1, <4>2
      <3> DEFINE first == a.attempts + 1
                 last == m - 1
      <3>2. first \in Int /\ last \in Int /\ first <= last + 1
        BY <2>1
      <3> HIDE DEF first, last
      <3>3. /\ IsFiniteSet(first..last)
            /\ Cardinality(first..last) = last - first + 1
        BY <3>2, FS_Interval
      <3>4. QED
        BY <2>1, <2>3, <3>1, <3>3 DEF first, last
    <2>4. QED
      BY <1>2, <2>2, <2>3 DEF Flying
  <1>3. QED
    BY <1>1, <1>2

\* The POSTs left to all attempts change by what changes for one of them.
LEMMA OwedChange ==
    ASSUME NEW at \in [Senders -> Attempt], NEW to \in [Senders -> Attempt], NEW m \in Nat,
           NEW w \in Senders, \A v \in Senders \ {w} : to[v] = at[v]
    PROVE  /\ Cardinality(Owed(at, m)) \in Nat
           /\ Cardinality(Owed(to, m)) \in Nat
           /\ Cardinality(Owed(to, m)) + Cardinality(Left(at[w], m))
                = Cardinality(Owed(at, m)) + Cardinality(Left(to[w], m))
  <1> DEFINE rest == {p \in Owed(at, m) : p[1] # w}
             mine(x) == {w} \X Left(x[w], m)
  <1>1. /\ Owed(at, m) = rest \cup mine(at)
        /\ Owed(to, m) = rest \cup mine(to)
        /\ rest \cap mine(at) = {} /\ rest \cap mine(to) = {}
    BY DEF Owed, Left
  <1>2. IsFiniteSet(0..(m - 1))
    BY FS_Interval
  <1>3. IsFiniteSet(Senders \X (0..(m - 1)))
    BY <1>2, SendersFinite, FS_Product
  <1>4. IsFiniteSet(rest)
    BY <1>3, FS_Subset DEF Owed
  <1>5. \A x : /\ IsFiniteSet(mine(x))
               /\ Cardinality(mine(x)) = Cardinality(Left(x[w], m))
    <2> SUFFICES ASSUME NEW x
                 PROVE  /\ IsFiniteSet(mine(x))
                        /\ Cardinality(mine(x)) = Cardinality(Left(x[w], m))
      OBVIOUS
    <2>1. IsFiniteSet(Left(x[w], m))
      BY <1>2, FS_Subset DEF Left
    <2>2. IsFiniteSet({w}) /\ Cardinality({w}) = 1 /\ Cardinality(Left(x[w], m)) \in Nat
      BY <2>1, FS_Singleton, FS_CardinalityType
    <2>3. QED
      BY <2>1, <2>2, FS_Product
  <1> HIDE DEF rest, mine
  <1>6. /\ Cardinality(rest) \in Nat
        /\ Cardinality(mine(at)) \in Nat /\ Cardinality(mine(to)) \in Nat
        /\ Cardinality(Owed(at, m)) = Cardinality(rest) + Cardinality(mine(at))
        /\ Cardinality(Owed(to, m)) = Cardinality(rest) + Cardinality(mine(to))
    BY <1>1, <1>4, <1>5, SplitCardinality
  <1>7. QED
    BY <1>5, <1>6

-----------------------------------------------------------------------------
(* Type correctness *)

\* Writing one sender's attempt at one delivery leaves the others alone.
LEMMA WriteAttempt ==
    ASSUME NEW f \in [Senders -> [Deliveries -> Attempt]], NEW w \in Senders,
           NEW d \in Deliveries, NEW a \in Attempt
    PROVE  /\ [f EXCEPT ![w][d] = a] \in [Senders -> [Deliveries -> Attempt]]
           /\ [f EXCEPT ![w][d] = a][w][d] = a
           /\ \A v \in Senders, e \in Deliveries :
                v # w \/ e # d => [f EXCEPT ![w][d] = a][v][e] = f[v][e]
  <1> DEFINE mine == [f[w] EXCEPT ![d] = a]
  <1>1. /\ mine \in [Deliveries -> Attempt]
        /\ mine[d] = a
        /\ \A e \in Deliveries : e # d => mine[e] = f[w][e]
    OBVIOUS
  <1>2. [f EXCEPT ![w][d] = a] = [f EXCEPT ![w] = mine]
    OBVIOUS
  <1> HIDE DEF mine
  <1>3. QED
    BY <1>1, <1>2

\* The fields of a row and of an attempt.
LEMMA RowType ==
    ASSUME NEW r \in Row
    PROVE  r # NoRow <=> r \in [status : {"pending", "delivered", "dead"}, attempts : 0..MaxAttempts,
                                next : Nat, due : BOOLEAN]
  BY DEF Row, NoRow

\* An attempt is a record of its fields, or there is none.
LEMMA AttemptType ==
    ASSUME NEW a \in Attempt
    PROVE  /\ a # NoAttempt <=> a \in [pc : {"claim", "send", "record"}, attempts : 0..MaxAttempts,
                                       next : Nat, on : BOOLEAN,
                                       answer : {"none", "2xx", "410", "error"}]
           /\ a = NoAttempt <=> a.pc = "none"
           /\ Flying(a) => a # NoAttempt
  BY DEF Attempt, NoAttempt, Flying

\* A budget is at least one attempt and at most the limit.
LEMMA BudgetType ==
    ASSUME NEW d \in Deliveries
    PROVE  Budget(d) \in Nat \ {0} /\ Budget(d) <= MaxAttempts
  BY WebhookAssumption DEF Budget

\* What the step of one attempt does: sender w's attempt at d becomes a, its row newRow.
StepOf(w, d, a, newRow) ==
    /\ attempt' \in [Senders -> [Deliveries -> Attempt]]
    /\ attempt'[w][d] = a
    /\ \A v \in Senders, e \in Deliveries : v # w \/ e # d => attempt'[v][e] = attempt[v][e]
    /\ row' \in [Deliveries -> Row]
    /\ row'[d] = newRow
    /\ \A e \in Deliveries : e # d => row'[e] = row[e]

\* A row is written only where there is one.
LEMMA RowWrittenEffect ==
    ASSUME TypeOK, NEW w, NEW d \in Deliveries, NEW r, HasRow(d) => r \in Row,
           RowWritten(w, d, r)
    PROVE  /\ row' \in [Deliveries -> Row]
           /\ row'[d] = IF HasRow(d) THEN r ELSE NoRow
           /\ \A e \in Deliveries : e # d => row'[e] = row[e]
  <1>1. row \in [Deliveries -> Row]
    BY DEF TypeOK
  <1>2. CASE HasRow(d)
    BY <1>1, <1>2 DEF RowWritten
  <1>3. CASE ~HasRow(d)
    BY <1>1, <1>3 DEF RowWritten, HasRow
  <1>4. QED
    BY <1>2, <1>3

\* What each step of an attempt writes.
LEMMA ClaimEffect ==
    ASSUME TypeOK, NEW w \in Replicas, NEW d \in Deliveries, Claim(w, d)
    PROVE  /\ w \in Senders /\ attempt[w][d].pc = "claim" /\ attempt[w][d] # NoAttempt
           /\ \/ /\ HasRow(d) /\ ClaimMatches(row[d], attempt[w][d])
                 /\ stamps' = stamps + 1
                 /\ StepOf(w, d, [attempt[w][d] EXCEPT !.pc = "send", !.next = stamps'],
                           [row[d] EXCEPT !.next = stamps', !.due = FALSE])
              \/ /\ stamps' = stamps
                 /\ StepOf(w, d, NoAttempt, row[d])
           /\ UNCHANGED <<endpoint, dispatch, tested, retrying, retried, sends, accepted, crashes>>
  <1> DEFINE a == attempt[w][d]
  <1>0. /\ row \in [Deliveries -> Row]
        /\ attempt \in [Senders -> [Deliveries -> Attempt]]
        /\ stamps \in Nat
    BY DEF TypeOK
  <1>1. w \in Senders
    BY DEF Senders
  <1>2. a.pc = "claim" /\ a \in Attempt /\ a # NoAttempt
    BY <1>0, <1>1 DEF Claim, NoAttempt
  <1>3. UNCHANGED <<endpoint, dispatch, tested, retrying, retried, sends, accepted, crashes>>
    BY DEF Claim, queue, managers, receiver
  <1>4. CASE /\ HasRow(d) /\ ClaimMatches(row[d], a)
             /\ stamps' = stamps + 1
             /\ row' = [row EXCEPT ![d].next = stamps', ![d].due = FALSE]
             /\ attempt' = [attempt EXCEPT ![w][d].pc = "send", ![w][d].next = stamps']
    <2> DEFINE b == [a EXCEPT !.pc = "send", !.next = stamps']
               r == [row[d] EXCEPT !.next = stamps', !.due = FALSE]
    <2>1. b \in Attempt /\ r \in Row
      <3>1. stamps' \in Nat
        BY <1>0, <1>4
      <3>2. a \in [pc : {"claim", "send", "record"}, attempts : 0..MaxAttempts, next : Nat,
                   on : BOOLEAN, answer : {"none", "2xx", "410", "error"}]
        BY <1>2, AttemptType
      <3>3. row[d] \in [status : {"pending", "delivered", "dead"}, attempts : 0..MaxAttempts,
                        next : Nat, due : BOOLEAN]
        BY <1>0, <1>4, RowType DEF HasRow
      <3>4. QED
        BY <3>1, <3>2, <3>3 DEF Attempt, Row
    <2>2. attempt' = [attempt EXCEPT ![w][d] = b]
      BY <1>0, <1>1, <1>4
    <2>3. row' = [row EXCEPT ![d] = r]
      BY <1>0, <1>4
    <2> HIDE DEF b, r
    <2>4. StepOf(w, d, b, r)
      BY <1>0, <1>1, <2>1, <2>2, <2>3, WriteAttempt DEF StepOf
    <2>5. QED
      BY <1>1, <1>2, <1>3, <1>4, <2>4 DEF b, r
  <1>5. CASE /\ attempt' = [attempt EXCEPT ![w][d] = NoAttempt]
             /\ UNCHANGED <<row, stamps>>
    <2>1. NoAttempt \in Attempt
      BY DEF Attempt
    <2>2. StepOf(w, d, NoAttempt, row[d])
      BY <1>0, <1>1, <1>5, <2>1, WriteAttempt DEF StepOf
    <2>3. QED
      BY <1>1, <1>2, <1>3, <1>5, <2>2
  <1>6. QED
    BY <1>4, <1>5 DEF Claim

\* Ending an attempt writes the outcome where there is still a row.
LEMMA EndEffect ==
    ASSUME TypeOK, NEW w \in Senders, NEW d \in Deliveries, NEW r, HasRow(d) => r \in Row,
           RowWritten(w, d, r), EndAttempt(w, d)
    PROVE  StepOf(w, d, NoAttempt, IF HasRow(d) THEN r ELSE NoRow)
  <1>1. attempt \in [Senders -> [Deliveries -> Attempt]] /\ NoAttempt \in Attempt
    BY DEF TypeOK, Attempt
  <1>2. QED
    BY <1>1, RowWrittenEffect, WriteAttempt DEF EndAttempt, StepOf

\* The outcome of an attempt, as the row shows it.
Closed(d, outcome, n) == [row[d] EXCEPT !.status = outcome, !.attempts = n]
Requeued(n, stamp) == [status |-> "pending", attempts |-> n, next |-> stamp, due |-> FALSE]

\* What attemptDelivery writes: dead, delivered, requeued under a fresh stamp, or the POST made.
LEMMA AttemptEffect ==
    ASSUME TypeInv, NEW w \in Senders, NEW d \in Deliveries, AttemptStep(w, d)
    PROVE  LET a == attempt[w][d]
               n == a.attempts + 1 IN
           /\ a \in Attempt /\ Flying(a) /\ a.attempts < Budget(d) /\ n \in 1..MaxAttempts
           /\ \/ /\ \/ a.pc = "send"
                    \/ a.pc = "record" /\ a.answer = "410"
                    \/ a.pc = "record" /\ a.answer = "error" /\ Exhausted(d, n)
                 /\ StepOf(w, d, NoAttempt, IF HasRow(d) THEN Closed(d, "dead", n) ELSE NoRow)
                 /\ UNCHANGED <<stamps, sends, accepted>>
              \/ /\ a.pc = "record" /\ a.answer = "2xx"
                 /\ StepOf(w, d, NoAttempt, IF HasRow(d) THEN Closed(d, "delivered", n) ELSE NoRow)
                 /\ UNCHANGED <<stamps, sends, accepted>>
              \/ /\ a.pc = "record" /\ a.answer = "error" /\ ~Exhausted(d, n)
                 /\ stamps' = stamps + 1
                 /\ StepOf(w, d, NoAttempt, IF HasRow(d) THEN Requeued(n, stamps') ELSE NoRow)
                 /\ UNCHANGED <<sends, accepted>>
              \/ /\ a.pc = "send"
                 /\ sends' = [sends EXCEPT ![d] = @ + 1]
                 /\ \E answer \in {"2xx", "410", "error"} :
                       /\ accepted' = IF answer = "2xx" THEN accepted \cup {d} ELSE accepted
                       /\ StepOf(w, d, [a EXCEPT !.pc = "record", !.answer = answer], row[d])
                 /\ UNCHANGED stamps
           /\ endpoint' \in [Endpoints -> {"on", "off", "removed"}]
           /\ UNCHANGED <<dispatch, tested, retrying, retried, crashes>>
  <1> DEFINE a == attempt[w][d]
             n == a.attempts + 1
  <1>0. TypeOK /\ AttemptsInBudget(d)
    BY DEF TypeInv
  <1>1. /\ attempt \in [Senders -> [Deliveries -> Attempt]]
        /\ row \in [Deliveries -> Row]
        /\ endpoint \in [Endpoints -> {"on", "off", "removed"}]
        /\ stamps \in Nat
    BY <1>0 DEF TypeOK
  <1>2. a \in Attempt /\ Flying(a)
    BY <1>1 DEF AttemptStep, SkipDisabled, Post, RecordDelivered, RecordGone, RecordFailure, Flying
  <1>3. a \in [pc : {"claim", "send", "record"}, attempts : 0..MaxAttempts, next : Nat,
               on : BOOLEAN, answer : {"none", "2xx", "410", "error"}]
    BY <1>2, AttemptType
  <1>4. a.attempts < Budget(d)
    BY <1>0, <1>2, AttemptType DEF AttemptsInBudget
  <1>5. n \in 1..MaxAttempts
    <2>1. a.attempts \in Nat
      BY <1>3
    <2>2. QED
      BY <2>1, <1>4, BudgetType, WebhookAssumption
  <1>6. ASSUME HasRow(d), NEW outcome \in {"dead", "delivered"} PROVE Closed(d, outcome, n) \in Row
    <2>1. row[d] \in [status : {"pending", "delivered", "dead"}, attempts : 0..MaxAttempts,
                      next : Nat, due : BOOLEAN]
      BY <1>1, <1>6, RowType DEF HasRow
    <2>2. n \in 0..MaxAttempts
      BY <1>5
    <2> HIDE DEF n
    <2>3. QED
      BY <2>1, <2>2 DEF Closed, Row
  <1> HIDE DEF a, n
  <1>7. CASE SkipDisabled(w, d)
    <2>1. /\ a.pc = "send"
          /\ RowWritten(w, d, Closed(d, "dead", n))
          /\ EndAttempt(w, d)
          /\ UNCHANGED <<endpoint, dispatch, tested, retrying, retried, stamps, sends, accepted, crashes>>
      BY <1>7 DEF SkipDisabled, queue, managers, receiver, Closed, AttemptNumber, a, n
    <2>2. StepOf(w, d, NoAttempt, IF HasRow(d) THEN Closed(d, "dead", n) ELSE NoRow)
      BY <2>1, <1>0, <1>6, EndEffect
    <2>3. QED
      BY <2>1, <2>2, <1>1, <1>2, <1>4, <1>5 DEF a, n
  <1>8. CASE Post(w, d)
    <2>1. PICK answer \in {"2xx", "410", "error"} :
            /\ accepted' = IF answer = "2xx" THEN accepted \cup {d} ELSE accepted
            /\ attempt' = [attempt EXCEPT ![w][d].pc = "record", ![w][d].answer = answer]
      BY <1>8 DEF Post
    <2> DEFINE b == [a EXCEPT !.pc = "record", !.answer = answer]
    <2>2. b \in Attempt
      BY <1>3 DEF Attempt
    <2>3. attempt' = [attempt EXCEPT ![w][d] = b]
      BY <2>1, <1>1 DEF a
    <2>4. /\ a.pc = "send"
          /\ sends' = [sends EXCEPT ![d] = @ + 1]
          /\ UNCHANGED <<endpoint, row, dispatch, tested, retrying, retried, stamps, crashes>>
      BY <1>8 DEF Post, queue, managers, a
    <2> HIDE DEF b
    <2>5. StepOf(w, d, b, row[d])
      BY <2>2, <2>3, <2>4, <1>1, WriteAttempt DEF StepOf
    <2>6. QED
      BY <2>1, <2>4, <2>5, <1>1, <1>2, <1>4, <1>5 DEF a, b, n
  <1>9. CASE RecordDelivered(w, d)
    <2>1. /\ a.pc = "record" /\ a.answer = "2xx"
          /\ RowWritten(w, d, Closed(d, "delivered", n))
          /\ EndAttempt(w, d)
          /\ UNCHANGED <<endpoint, dispatch, tested, retrying, retried, stamps, sends, accepted, crashes>>
      BY <1>9 DEF RecordDelivered, queue, managers, receiver, Closed, AttemptNumber, a, n
    <2>2. StepOf(w, d, NoAttempt, IF HasRow(d) THEN Closed(d, "delivered", n) ELSE NoRow)
      BY <2>1, <1>0, <1>6, EndEffect
    <2>3. QED
      BY <2>1, <2>2, <1>1, <1>2, <1>4, <1>5 DEF a, n
  <1>10. CASE RecordGone(w, d)
    <2>1. /\ a.pc = "record" /\ a.answer = "410"
          /\ RowWritten(w, d, Closed(d, "dead", n))
          /\ EndAttempt(w, d)
          /\ endpoint' = IF HasRow(d) THEN [endpoint EXCEPT ![d[1]] = "off"] ELSE endpoint
          /\ UNCHANGED <<dispatch, tested, retrying, retried, stamps, sends, accepted, crashes>>
      BY <1>10 DEF RecordGone, queue, managers, receiver, Closed, AttemptNumber, a, n
    <2>2. StepOf(w, d, NoAttempt, IF HasRow(d) THEN Closed(d, "dead", n) ELSE NoRow)
      BY <2>1, <1>0, <1>6, EndEffect
    <2>3. endpoint' \in [Endpoints -> {"on", "off", "removed"}]
      BY <2>1, <1>1
    <2>4. QED
      BY <2>1, <2>2, <2>3, <1>2, <1>4, <1>5 DEF a, n
  <1>11. CASE RecordFailure(w, d)
    <2>1. /\ a.pc = "record" /\ a.answer = "error"
          /\ EndAttempt(w, d)
          /\ \/ /\ Exhausted(d, n)
                /\ RowWritten(w, d, Closed(d, "dead", n))
                /\ UNCHANGED stamps
             \/ /\ ~Exhausted(d, n)
                /\ stamps' = stamps + 1
                /\ RowWritten(w, d, Requeued(n, stamps'))
          /\ UNCHANGED <<endpoint, dispatch, tested, retrying, retried, sends, accepted, crashes>>
      BY <1>11 DEF RecordFailure, queue, managers, receiver, Closed, Requeued, AttemptNumber, a, n
    <2>2. CASE Exhausted(d, n) /\ RowWritten(w, d, Closed(d, "dead", n)) /\ UNCHANGED stamps
      <3>1. StepOf(w, d, NoAttempt, IF HasRow(d) THEN Closed(d, "dead", n) ELSE NoRow)
        BY <2>1, <2>2, <1>0, <1>6, EndEffect
      <3>2. QED
        BY <2>1, <2>2, <3>1, <1>1, <1>2, <1>4, <1>5 DEF a, n
    <2>3. CASE ~Exhausted(d, n) /\ stamps' = stamps + 1 /\ RowWritten(w, d, Requeued(n, stamps'))
      <3>1. Requeued(n, stamps') \in Row
        BY <2>3, <1>1, <1>5 DEF Requeued, Row
      <3>2. StepOf(w, d, NoAttempt, IF HasRow(d) THEN Requeued(n, stamps') ELSE NoRow)
        BY <2>1, <2>3, <3>1, <1>0, EndEffect
      <3>3. QED
        BY <2>1, <2>3, <3>2, <1>1, <1>2, <1>4, <1>5 DEF a, n
    <2>4. QED
      BY <2>1, <2>2, <2>3
  <1>12. QED
    BY <1>7, <1>8, <1>9, <1>10, <1>11 DEF AttemptStep

\* A step that writes an attempt and a row within budget keeps all of them within it.
LEMMA StepInBudget ==
    ASSUME TypeInv, NEW w \in Senders, NEW d \in Deliveries, NEW a, NEW r, StepOf(w, d, a, r),
           a # NoAttempt => a.attempts < Budget(d),
           r # NoRow /\ r.status = "pending" => r.attempts < Budget(d)
    PROVE  \A e \in Deliveries : AttemptsInBudget(e)'
  BY DEF TypeInv, StepOf, AttemptsInBudget, HasRow

\* sendTest: the row and the attempt of the test are created together.
LEMMA SendTestEffect ==
    ASSUME TypeOK, NEW e \in Endpoints, SendTest(e)
    PROVE  LET d == <<e, TestEvent>>
               r == [status |-> "pending", attempts |-> 0, next |-> 0, due |-> FALSE] IN
           /\ d \in Deliveries /\ e \notin tested /\ tested' = tested \cup {e}
           /\ \E on \in BOOLEAN :
                 StepOf(Api, d, [pc |-> "send", attempts |-> 0, next |-> 0, on |-> on,
                                 answer |-> "none"], r)
           /\ UNCHANGED <<endpoint, dispatch, retrying, retried, stamps, sends, accepted, crashes>>
  <1> DEFINE d == <<e, TestEvent>>
             r == [status |-> "pending", attempts |-> 0, next |-> 0, due |-> FALSE]
             a == [pc |-> "send", attempts |-> 0, next |-> 0, on |-> endpoint[e] = "on",
                   answer |-> "none"]
  <1>1. /\ attempt \in [Senders -> [Deliveries -> Attempt]]
        /\ row \in [Deliveries -> Row]
        /\ Api \in Senders /\ d \in Deliveries
    BY DEF TypeOK, Senders, Deliveries
  <1>2. /\ e \notin tested /\ tested' = tested \cup {e}
        /\ row' = [row EXCEPT ![d] = r]
        /\ attempt' = [attempt EXCEPT ![Api][d] = a]
        /\ UNCHANGED <<endpoint, dispatch, retrying, retried, stamps, sends, accepted, crashes>>
    BY DEF SendTest, managers, receiver
  <1>3. a \in Attempt /\ r \in Row
    BY WebhookAssumption DEF Attempt, Row
  <1> HIDE DEF d, r
  <1>4. \E on \in BOOLEAN :
          StepOf(Api, d, [pc |-> "send", attempts |-> 0, next |-> 0, on |-> on, answer |-> "none"], r)
    <2>1. (endpoint[e] = "on") \in BOOLEAN
      OBVIOUS
    <2> HIDE DEF a
    <2>2. StepOf(Api, d, a, r)
      BY <1>1, <1>2, <1>3, WriteAttempt DEF StepOf
    <2>3. QED
      BY <2>1, <2>2 DEF a
  <1>5. QED
    BY <1>1, <1>2, <1>4 DEF d, r

\* The poll: what a replica read of the due rows, and nothing else, is what it will claim.
LEMMA PollEffect ==
    ASSUME TypeOK, NEW w \in Replicas, Poll(w)
    PROVE  /\ w \in Senders
           /\ attempt' \in [Senders -> [Deliveries -> Attempt]]
           /\ \A v \in Senders \ {w}, d \in Deliveries : attempt'[v][d] = attempt[v][d]
           /\ \A d \in Deliveries :
                 /\ attempt[w][d] = NoAttempt
                 /\ \/ attempt'[w][d] = NoAttempt
                    \/ /\ HasRow(d) /\ row[d].status = "pending" /\ row[d].due
                       /\ attempt'[w][d].pc = "claim"
                       /\ attempt'[w][d].attempts = row[d].attempts
                       /\ attempt'[w][d].next = row[d].next
           /\ UNCHANGED <<endpoint, row, dispatch, tested, retrying, retried, stamps, sends, accepted,
                          crashes>>
  <1> DEFINE Due == {d \in Deliveries : HasRow(d) /\ IsDue(row[d])}
             claimed(d) == [pc |-> "claim", attempts |-> row[d].attempts, next |-> row[d].next,
                            on |-> endpoint[d[1]] = "on", answer |-> "none"]
             mine == [d \in Deliveries |-> IF d \in Due THEN claimed(d) ELSE NoAttempt]
  <1>1. /\ attempt \in [Senders -> [Deliveries -> Attempt]] /\ row \in [Deliveries -> Row]
        /\ w \in Senders
    BY DEF TypeOK, Senders
  <1>2. /\ \A d \in Deliveries : attempt[w][d] = NoAttempt
        /\ attempt' = [attempt EXCEPT ![w] = mine]
        /\ UNCHANGED <<endpoint, row, dispatch, tested, retrying, retried, stamps, sends, accepted,
                       crashes>>
    BY DEF Poll, queue, managers, receiver
  <1>3. \A d \in Due : claimed(d) \in Attempt
    <2> SUFFICES ASSUME NEW d \in Due PROVE claimed(d) \in Attempt
      OBVIOUS
    <2>1. row[d] \in [status : {"pending", "delivered", "dead"}, attempts : 0..MaxAttempts,
                      next : Nat, due : BOOLEAN]
      BY <1>1, RowType DEF HasRow
    <2>2. QED
      BY <2>1 DEF Attempt
  <1>4. mine \in [Deliveries -> Attempt]
    BY <1>3 DEF Attempt
  <1>5. \A d \in Deliveries : mine[d] = IF d \in Due THEN claimed(d) ELSE NoAttempt
    OBVIOUS
  <1>6. attempt' \in [Senders -> [Deliveries -> Attempt]] /\ attempt'[w] = mine
        /\ \A v \in Senders \ {w}, d \in Deliveries : attempt'[v][d] = attempt[v][d]
    <2> HIDE DEF mine
    <2>1. QED
      BY <1>1, <1>2, <1>4
  <1> HIDE DEF mine
  <1>7. QED
    BY <1>1, <1>2, <1>5, <1>6 DEF IsDue

\* Every action keeps the types, and the attempts within their budget.
LEMMA NextTypeInv == TypeInv /\ [Next]_vars => TypeInv'
  <1> SUFFICES ASSUME TypeInv, [Next]_vars PROVE TypeInv'
    OBVIOUS
  <1> USE WebhookAssumption DEF managers, receiver, queue
  <1>0. TypeOK /\ RetriesToCount /\ \A d \in Deliveries : AttemptsInBudget(d)
    BY DEF TypeInv
  <1>a. ASSUME UNCHANGED <<retrying, retried>> PROVE RetriesToCount'
    BY <1>0, <1>a DEF RetriesToCount
  <1>1. ASSUME UNCHANGED <<row, attempt>> PROVE \A d \in Deliveries : AttemptsInBudget(d)'
    BY <1>0, <1>1 DEF AttemptsInBudget, HasRow
  <1>2. ASSUME NEW v \in Events, DispatchRead(v) PROVE TypeInv'
    <2>1. TypeOK'
      BY <1>0, <1>2 DEF DispatchRead, TypeOK
    <2>2. QED
      BY <2>1, <1>a, <1>1, <1>2 DEF DispatchRead, TypeInv
  <1>3. ASSUME NEW v \in Events, DispatchCreate(v) PROVE TypeInv'
    <2>1. dispatch[v] \in [pc : {"read", "done"}, to : SUBSET Endpoints]
      BY <1>0, <1>3 DEF DispatchCreate, TypeOK, NotDispatched
    <2>2. dispatch' \in [Events -> {NotDispatched} \cup [pc : {"read", "done"}, to : SUBSET Endpoints]]
      BY <2>1, <1>0, <1>3 DEF DispatchCreate, TypeOK
    <2>3. \A d \in Deliveries :
            \/ row'[d] = row[d]
            \/ row'[d] = [status |-> "pending", attempts |-> 0, next |-> 0, due |-> TRUE]
      BY <1>3 DEF DispatchCreate
    <2>4. row' \in [Deliveries -> Row]
      <3>1. [status |-> "pending", attempts |-> 0, next |-> 0, due |-> TRUE] \in Row
        BY DEF Row
      <3>2. \A d \in Deliveries : row'[d] \in Row
        BY <2>3, <3>1, <1>0 DEF TypeOK
      <3>3. row' = [d \in Deliveries |-> row'[d]]
        BY <1>0, <1>3 DEF DispatchCreate, TypeOK
      <3>4. QED
        BY <3>2, <3>3
    <2>5. TypeOK'
      BY <2>2, <2>4, <1>0, <1>3 DEF DispatchCreate, TypeOK
    <2>6. \A d \in Deliveries : AttemptsInBudget(d)'
      <3> SUFFICES ASSUME NEW d \in Deliveries PROVE AttemptsInBudget(d)'
        OBVIOUS
      <3>1. UNCHANGED attempt
        BY <1>3 DEF DispatchCreate
      <3>2. QED
        BY <2>3, <3>1, <1>0, BudgetType DEF AttemptsInBudget, HasRow
    <2>7. QED
      BY <2>5, <2>6, <1>a, <1>3 DEF DispatchCreate, TypeInv
  <1>4. ASSUME NEW e \in Endpoints, SendTest(e) PROVE TypeInv'
    <2> DEFINE d == <<e, TestEvent>>
               r == [status |-> "pending", attempts |-> 0, next |-> 0, due |-> FALSE]
    <2>1. PICK on \in BOOLEAN :
            StepOf(Api, d, [pc |-> "send", attempts |-> 0, next |-> 0, on |-> on, answer |-> "none"], r)
      BY <1>0, <1>4, SendTestEffect
    <2>2. /\ d \in Deliveries /\ tested' = tested \cup {e}
          /\ UNCHANGED <<endpoint, dispatch, retrying, retried, stamps, sends, accepted, crashes>>
      BY <1>0, <1>4, SendTestEffect
    <2>3. 0 < Budget(d)
      BY <2>2, BudgetType
    <2>4. TypeOK'
      BY <2>1, <2>2, <1>0 DEF StepOf, TypeOK
    <2>5. Api \in Senders
      BY DEF Senders
    <2> HIDE DEF d
    <2>6. \A x \in Deliveries : AttemptsInBudget(x)'
      BY <2>1, <2>2, <2>3, <2>5, StepInBudget
    <2>7. QED
      BY <2>2, <2>4, <2>6, <1>a DEF TypeInv
  <1>5. ASSUME NEW e \in Endpoints, SwitchEndpoint(e) PROVE TypeInv'
    <2>1. TypeOK'
      BY <1>0, <1>5 DEF SwitchEndpoint, TypeOK
    <2>2. QED
      BY <2>1, <1>a, <1>1, <1>5 DEF SwitchEndpoint, TypeInv
  <1>6. ASSUME NEW e \in Endpoints, RemoveEndpoint(e) PROVE TypeInv'
    <2>1. /\ row' = [d \in Deliveries |-> IF d[1] = e THEN NoRow ELSE row[d]]
          /\ endpoint' = [endpoint EXCEPT ![e] = "removed"]
          /\ UNCHANGED <<attempt, queue, managers, stamps, receiver, crashes>>
      BY <1>6 DEF RemoveEndpoint
    <2>2. TypeOK'
      BY <2>1, <1>0 DEF TypeOK, Row
    <2>3. QED
      BY <2>1, <2>2, <1>0, <1>a DEF TypeInv, AttemptsInBudget, HasRow
  <1>7. ASSUME NEW w \in Replicas, Poll(w) PROVE TypeInv'
    <2>1. TypeOK'
      BY <1>0, <1>7, PollEffect DEF TypeOK
    <2>2. \A d \in Deliveries : AttemptsInBudget(d)'
      BY <1>0, <1>7, PollEffect DEF AttemptsInBudget, HasRow
    <2>3. QED
      BY <2>1, <2>2, <1>0, <1>7, <1>a, PollEffect DEF TypeInv
  <1>8. ASSUME NEW w \in Replicas, NEW d \in Deliveries, Claim(w, d) PROVE TypeInv'
    <2>0. /\ w \in Senders /\ attempt[w][d] # NoAttempt
          /\ UNCHANGED <<endpoint, dispatch, tested, retrying, retried, sends, accepted, crashes>>
      BY <1>0, <1>8, ClaimEffect
    <2>1. w \in Senders /\ attempt[w][d].attempts < Budget(d)
      BY <2>0, <1>0 DEF AttemptsInBudget
    <2>2. attempt[w][d] \in [pc : {"claim", "send", "record"}, attempts : 0..MaxAttempts,
                             next : Nat, on : BOOLEAN, answer : {"none", "2xx", "410", "error"}]
      <3>1. attempt[w][d] \in Attempt
        BY <2>1, <1>0 DEF TypeOK
      <3>2. QED
        BY <2>0, <3>1, AttemptType
    <2>3. CASE /\ HasRow(d) /\ ClaimMatches(row[d], attempt[w][d])
               /\ stamps' = stamps + 1
               /\ StepOf(w, d, [attempt[w][d] EXCEPT !.pc = "send", !.next = stamps'],
                         [row[d] EXCEPT !.next = stamps', !.due = FALSE])
      <3> DEFINE a == [attempt[w][d] EXCEPT !.pc = "send", !.next = stamps']
                 r == [row[d] EXCEPT !.next = stamps', !.due = FALSE]
      <3>1. a.attempts < Budget(d)
        BY <2>1, <2>2
      <3>2. r.status = "pending" => r.attempts < Budget(d)
        <4>1. row[d] \in [status : {"pending", "delivered", "dead"}, attempts : 0..MaxAttempts,
                          next : Nat, due : BOOLEAN]
          BY <2>3, <1>0, RowType DEF TypeOK, HasRow
        <4>2. QED
          BY <4>1, <2>3, <1>0 DEF AttemptsInBudget
      <3> HIDE DEF a, r
      <3>3. StepOf(w, d, a, r)
        BY <2>3 DEF a, r
      <3>4. \A e \in Deliveries : AttemptsInBudget(e)'
        BY <3>1, <3>2, <3>3, <2>1, StepInBudget
      <3>5. TypeOK'
        <4>1. stamps' \in Nat
          BY <2>3, <1>0 DEF TypeOK
        <4>2. QED
          BY <3>3, <4>1, <2>0, <1>0 DEF StepOf, TypeOK
      <3>6. QED
        BY <2>0, <3>4, <3>5, <1>a DEF TypeInv
    <2>4. CASE stamps' = stamps /\ StepOf(w, d, NoAttempt, row[d])
      <3>1. \A e \in Deliveries : AttemptsInBudget(e)'
        BY <2>1, <2>4, <1>0, StepInBudget DEF AttemptsInBudget, HasRow
      <3>2. TypeOK'
        BY <2>0, <2>4, <1>0 DEF StepOf, TypeOK
      <3>3. QED
        BY <2>0, <3>1, <3>2, <1>a DEF TypeInv
    <2>5. QED
      BY <2>3, <2>4, <1>0, <1>8, ClaimEffect
  <1>9. ASSUME NEW w \in Senders, Crash(w) PROVE TypeInv'
    <2>1. /\ crashes' \in 0..MaxCrashes
          /\ attempt' = [attempt EXCEPT ![w] = [d \in Deliveries |-> NoAttempt]]
          /\ UNCHANGED <<endpoint, row, queue, managers, stamps, receiver>>
      BY <1>0, <1>9 DEF Crash, TypeOK
    <2>2. attempt' \in [Senders -> [Deliveries -> Attempt]]
      BY <2>1, <1>0 DEF TypeOK, Attempt
    <2>3. \A v \in Senders, d \in Deliveries : attempt'[v][d] = attempt[v][d] \/ attempt'[v][d] = NoAttempt
      BY <2>1, <1>0 DEF TypeOK
    <2>4. \A d \in Deliveries : AttemptsInBudget(d)'
      BY <2>1, <2>3, <1>0 DEF AttemptsInBudget, HasRow
    <2>5. QED
      BY <2>1, <2>2, <2>4, <1>0, <1>a DEF TypeInv, TypeOK
  <1>10. ASSUME NEW w \in Senders, NEW d \in Deliveries, AttemptStep(w, d) PROVE TypeInv'
    <2> DEFINE a == attempt[w][d]
               n == a.attempts + 1
    <2>1. /\ a \in Attempt /\ Flying(a) /\ a.attempts < Budget(d) /\ n \in 1..MaxAttempts
          /\ endpoint' \in [Endpoints -> {"on", "off", "removed"}]
          /\ UNCHANGED <<dispatch, tested, retrying, retried, crashes>>
      BY <1>10, AttemptEffect
    <2>2. PICK b, r :
            /\ StepOf(w, d, b, r)
            /\ b = NoAttempt \/ \E answer \in {"2xx", "410", "error"} :
                                  b = [a EXCEPT !.pc = "record", !.answer = answer]
            /\ \/ r = NoRow
               \/ HasRow(d) /\ r \in {Closed(d, "dead", n), Closed(d, "delivered", n)}
               \/ ~Exhausted(d, n) /\ r = Requeued(n, stamps')
               \/ r = row[d]
      <3>1. CASE \E answer \in {"2xx", "410", "error"} :
                    StepOf(w, d, [a EXCEPT !.pc = "record", !.answer = answer], row[d])
        BY <3>1
      <3>2. CASE StepOf(w, d, NoAttempt, IF HasRow(d) THEN Closed(d, "dead", n) ELSE NoRow)
        BY <3>2
      <3>3. CASE StepOf(w, d, NoAttempt, IF HasRow(d) THEN Closed(d, "delivered", n) ELSE NoRow)
        BY <3>3
      <3>4. CASE /\ ~Exhausted(d, n)
                 /\ StepOf(w, d, NoAttempt, IF HasRow(d) THEN Requeued(n, stamps') ELSE NoRow)
        BY <3>4
      <3>5. QED
        BY <1>10, <3>1, <3>2, <3>3, <3>4, AttemptEffect
    <2>3. stamps' \in Nat /\ sends' \in [Deliveries -> Nat] /\ accepted' \subseteq Deliveries
      <3>1. /\ stamps' = stamps \/ stamps' = stamps + 1
            /\ sends' = sends \/ sends' = [sends EXCEPT ![d] = @ + 1]
            /\ accepted' = accepted \/ accepted' = accepted \cup {d}
        BY <1>10, AttemptEffect
      <3>2. QED
        BY <3>1, <1>0 DEF TypeOK
    <2>4. a \in [pc : {"claim", "send", "record"}, attempts : 0..MaxAttempts, next : Nat,
                 on : BOOLEAN, answer : {"none", "2xx", "410", "error"}]
      BY <2>1, AttemptType
    <2>5. b # NoAttempt => b.attempts < Budget(d)
      BY <2>1, <2>2, <2>4
    <2>6. r # NoRow /\ r.status = "pending" => r.attempts < Budget(d)
      <3>1. CASE r = Requeued(n, stamps') /\ ~Exhausted(d, n)
        <4>1. n < Budget(d)
          BY <3>1, <2>1 DEF Exhausted, Budget
        <4>2. r.attempts = n
          BY <3>1 DEF Requeued
        <4>3. QED
          BY <4>1, <4>2
      <3>2. CASE HasRow(d) /\ r \in {Closed(d, "dead", n), Closed(d, "delivered", n)}
        <4>1. row[d] \in [status : {"pending", "delivered", "dead"}, attempts : 0..MaxAttempts,
                          next : Nat, due : BOOLEAN]
          BY <3>2, <1>0, RowType DEF TypeOK, HasRow
        <4>2. r.status # "pending"
          BY <3>2, <4>1 DEF Closed
        <4>3. QED
          BY <4>2
      <3>3. CASE r = row[d]
        BY <3>3, <1>0 DEF AttemptsInBudget, HasRow
      <3>4. QED
        BY <2>2, <3>1, <3>2, <3>3
    <2> HIDE DEF a, n
    <2>7. \A e \in Deliveries : AttemptsInBudget(e)'
      BY <2>2, <2>5, <2>6, StepInBudget
    <2>8. TypeOK'
      BY <2>1, <2>2, <2>3, <1>0 DEF StepOf, TypeOK
    <2>9. QED
      BY <2>1, <2>7, <2>8, <1>a DEF TypeInv
  <1>11. ASSUME NEW d \in Deliveries, TimePasses(d) PROVE TypeInv'
    <2>1. /\ HasRow(d)
          /\ row' = [row EXCEPT ![d].due = TRUE]
          /\ UNCHANGED <<endpoint, attempt, queue, managers, stamps, receiver, crashes>>
      BY <1>11 DEF TimePasses
    <2>2. row[d] \in [status : {"pending", "delivered", "dead"}, attempts : 0..MaxAttempts,
                      next : Nat, due : BOOLEAN]
      BY <2>1, <1>0, RowType DEF TypeOK, HasRow
    <2> DEFINE r == [row[d] EXCEPT !.due = TRUE]
    <2>3. r \in Row /\ r # NoRow /\ r.attempts = row[d].attempts /\ r.status = row[d].status
      BY <2>2 DEF Row, NoRow
    <2>4. row' = [row EXCEPT ![d] = r]
      BY <2>1, <1>0 DEF TypeOK
    <2> HIDE DEF r
    <2>5. row' \in [Deliveries -> Row] /\ row'[d] = r /\ \A e \in Deliveries \ {d} : row'[e] = row[e]
      BY <2>3, <2>4, <1>0 DEF TypeOK
    <2>6. QED
      BY <2>1, <2>3, <2>5, <1>0, <1>a DEF TypeInv, TypeOK, AttemptsInBudget, HasRow
  <1>12. ASSUME NEW d \in Deliveries, RetryCheck(d) PROVE TypeInv'
    <2>1. TypeOK'
      BY <1>0, <1>12 DEF RetryCheck, TypeOK
    <2>2. RetriesToCount'
      BY <1>0, <1>12 DEF RetryCheck, RetriesToCount
    <2>3. QED
      BY <2>1, <2>2, <1>1, <1>12 DEF RetryCheck, TypeInv
  <1>13. ASSUME NEW d \in Deliveries, RetryApply(d) PROVE TypeInv'
    <2>1. retrying' \subseteq Deliveries
      BY <1>0, <1>13 DEF RetryApply, TypeOK
    <2>2. CASE HasRow(d)
      <3> DEFINE r == [status |-> "pending", attempts |-> 0, next |-> stamps', due |-> TRUE]
      <3>1. /\ stamps' = stamps + 1
            /\ row' = [row EXCEPT ![d] = r]
            /\ retried' = [retried EXCEPT ![d] = @ + 1]
            /\ UNCHANGED <<endpoint, attempt, dispatch, tested, sends, accepted, crashes>>
        BY <1>13, <2>2 DEF RetryApply
      <3>2. stamps' \in Nat /\ r \in Row /\ r.attempts = 0
        BY <3>1, <1>0 DEF TypeOK, Row
      <3> HIDE DEF r
      <3>3. row' \in [Deliveries -> Row] /\ row'[d] = r /\ \A e \in Deliveries \ {d} : row'[e] = row[e]
        BY <3>1, <3>2, <1>0 DEF TypeOK
      <3>4. retried' \in [Deliveries -> 0..MaxRetries] /\ RetriesToCount'
        <4>1. d \in retrying /\ retrying' = retrying \ {d}
          BY <1>13 DEF RetryApply
        <4>2. retried[d] + 1 \in 0..MaxRetries
          BY <4>1, <1>0 DEF RetriesToCount, TypeOK
        <4>3. retried' \in [Deliveries -> 0..MaxRetries]
              /\ \A e \in Deliveries \ {d} : retried'[e] = retried[e]
          BY <3>1, <4>2, <1>0 DEF TypeOK
        <4>4. QED
          BY <4>1, <4>3, <1>0 DEF RetriesToCount, TypeOK
      <3>5. TypeOK'
        BY <2>1, <3>1, <3>2, <3>3, <3>4, <1>0 DEF TypeOK
      <3>6. \A e \in Deliveries : AttemptsInBudget(e)'
        BY <3>1, <3>2, <3>3, <1>0, BudgetType DEF AttemptsInBudget, HasRow
      <3>7. QED
        BY <3>4, <3>5, <3>6 DEF TypeInv
    <2>3. CASE ~HasRow(d)
      <3>1. UNCHANGED <<endpoint, row, attempt, dispatch, tested, retried, stamps, sends, accepted,
                        crashes>>
        BY <1>13, <2>3 DEF RetryApply
      <3>2. TypeOK'
        BY <2>1, <3>1, <1>0 DEF TypeOK
      <3>3. RetriesToCount'
        BY <2>1, <3>1, <1>0, <1>13 DEF RetriesToCount, RetryApply
      <3>4. QED
        BY <3>1, <3>2, <3>3, <1>1 DEF TypeInv
    <2>4. QED
      BY <2>2, <2>3
  <1>14. ASSUME NEW d \in Deliveries, Cleanup(d) PROVE TypeInv'
    <2>1. /\ row' = [row EXCEPT ![d] = NoRow]
          /\ UNCHANGED <<endpoint, attempt, queue, managers, stamps, receiver, crashes>>
      BY <1>14 DEF Cleanup
    <2>2. TypeOK'
      BY <2>1, <1>0 DEF TypeOK, Row
    <2>3. \A e \in Deliveries : row'[e] = row[e] \/ row'[e] = NoRow
      BY <2>1, <1>0 DEF TypeOK
    <2>4. QED
      BY <2>1, <2>2, <2>3, <1>0, <1>a DEF TypeInv, AttemptsInBudget, HasRow
  <1>15. CASE UNCHANGED vars
    <2>1. TypeOK'
      BY <1>0, <1>15 DEF vars, TypeOK
    <2>2. QED
      BY <2>1, <1>a, <1>1, <1>15 DEF vars, TypeInv
  <1>16. QED
    BY <1>2, <1>3, <1>4, <1>5, <1>6, <1>7, <1>8, <1>9, <1>10, <1>11, <1>12, <1>13, <1>14, <1>15 DEF Next

\* The initial state is well typed.
LEMMA InitTypeInv == Init => TypeInv
  <1> SUFFICES ASSUME Init PROVE TypeInv
    OBVIOUS
  <1>1. row \in [Deliveries -> Row] /\ attempt \in [Senders -> [Deliveries -> Attempt]]
    BY DEF Init, Row, Attempt
  <1>2. TypeOK
    BY <1>1, WebhookAssumption DEF Init, TypeOK
  <1>3. RetriesToCount
    BY DEF Init, RetriesToCount
  <1>4. \A d \in Deliveries : AttemptsInBudget(d)
    <2>1. \A d \in Deliveries : ~HasRow(d)
      BY DEF Init, HasRow
    <2>2. \A d \in Deliveries, w \in Senders : attempt[w][d] = NoAttempt
      BY DEF Init
    <2>3. QED
      BY <2>1, <2>2 DEF AttemptsInBudget
  <1>5. QED
    BY <1>2, <1>3, <1>4 DEF TypeInv

-----------------------------------------------------------------------------
(* What one delivery goes through *)

One(a) == IF Flying(a) THEN 1 ELSE 0
Size(a, m) == IF a.pc = "send" THEN m - a.attempts
              ELSE IF a.pc = "record" THEN m - a.attempts - 1 ELSE 0

\* A step in which, as far as d is concerned, sender w's attempt becomes a and the row r.
Moves(w, d, a, r) ==
    /\ attempt'[w][d] = a
    /\ \A v \in Senders \ {w} : attempt'[v][d] = attempt[v][d]
    /\ row'[d] = r

\* With two attempts in flight, there are at least two.
LEMMA TwoInFlight ==
    ASSUME NEW at \in [Senders -> Attempt], NEW v \in Flight(at), NEW w \in Flight(at), v # w
    PROVE  Cardinality(Flight(at)) >= 2
  <1>1. IsFiniteSet(Flight(at))
    BY SendersFinite, FS_Subset DEF Flight
  <1>2. IsFiniteSet({v}) /\ Cardinality({v}) = 1
    BY FS_Singleton
  <1>3. Cardinality({v} \cup {w}) = 2
    BY <1>2, FS_AddElement
  <1>4. {v} \cup {w} \in SUBSET Flight(at)
    OBVIOUS
  <1>5. QED
    BY <1>1, <1>3, <1>4, FS_Subset

\* How a move of one sender changes the attempts in flight and the POSTs owed.
LEMMA MoveCounts ==
    ASSUME TypeInv, TypeInv', NEW w \in Senders, NEW d \in Deliveries, NEW a, NEW r,
           Moves(w, d, a, r)
    PROVE  /\ At(d) \in [Senders -> Attempt] /\ At(d)' \in [Senders -> Attempt]
           /\ Flights(d) \in Nat /\ Flights(d)' \in Nat
           /\ Posts(d) \in Nat /\ Posts(d)' \in Nat
           /\ Flights(d)' + One(attempt[w][d]) = Flights(d) + One(a)
           /\ Posts(d)' + Size(attempt[w][d], Budget(d)) = Posts(d) + Size(a, Budget(d))
  <1>1. At(d) \in [Senders -> Attempt] /\ At(d)' \in [Senders -> Attempt]
    BY DEF TypeInv, TypeOK, At
  <1>2. /\ At(d)[w] = attempt[w][d]
        /\ At(d)'[w] = a
        /\ \A v \in Senders \ {w} : At(d)'[v] = At(d)[v]
    BY DEF At, Moves
  <1>3. Budget(d) \in Nat
    BY BudgetType
  <1>4. \A v \in Senders :
          /\ At(d)[v] # NoAttempt => At(d)[v].attempts < Budget(d)
          /\ At(d)'[v] # NoAttempt => At(d)'[v].attempts < Budget(d)
    BY DEF At, TypeInv, AttemptsInBudget
  <1>5. /\ Flights(d) \in Nat /\ Flights(d)' \in Nat
        /\ Flights(d)' + One(attempt[w][d]) = Flights(d) + One(a)
    <2> DEFINE at == At(d)
               to == At(d)'
    <2>1. at \in [Senders -> Attempt] /\ to \in [Senders -> Attempt]
          /\ \A v \in Senders \ {w} : to[v] = at[v]
      BY <1>1, <1>2
    <2> HIDE DEF at, to
    <2>2. /\ Cardinality(Flight(at)) \in Nat
          /\ Cardinality(Flight(to)) \in Nat
          /\ Cardinality(Flight(to)) + (IF Flying(at[w]) THEN 1 ELSE 0)
               = Cardinality(Flight(at)) + (IF Flying(to[w]) THEN 1 ELSE 0)
      BY <2>1, FlightChange
    <2>3. at[w] = attempt[w][d] /\ to[w] = a
      BY <1>2 DEF at, to
    <2>4. Flights(d) = Cardinality(Flight(at)) /\ Flights(d)' = Cardinality(Flight(to))
      BY DEF Flights, at, to
    <2>5. QED
      BY <2>2, <2>3, <2>4 DEF One
  <1>6. /\ Posts(d) \in Nat /\ Posts(d)' \in Nat
        /\ Posts(d)' + Size(attempt[w][d], Budget(d)) = Posts(d) + Size(a, Budget(d))
    <2> DEFINE at == At(d)
               to == At(d)'
               m == Budget(d)
    <2>1. /\ at \in [Senders -> Attempt] /\ to \in [Senders -> Attempt] /\ m \in Nat
          /\ \A v \in Senders \ {w} : to[v] = at[v]
          /\ \A v \in Senders : /\ at[v] # NoAttempt => at[v].attempts < m
                                /\ to[v] # NoAttempt => to[v].attempts < m
      BY <1>1, <1>2, <1>3, <1>4
    <2>2. Posts(d) = Cardinality(Owed(at, m)) /\ Posts(d)' = Cardinality(Owed(to, m))
      BY DEF Posts, Budget
    <2>3. at[w] = attempt[w][d] /\ to[w] = a
      BY <1>2
    <2> HIDE DEF at, to, m
    <2>4. /\ Cardinality(Owed(at, m)) \in Nat
          /\ Cardinality(Owed(to, m)) \in Nat
          /\ Cardinality(Owed(to, m)) + Cardinality(Left(at[w], m))
               = Cardinality(Owed(at, m)) + Cardinality(Left(to[w], m))
      BY <2>1, OwedChange
    <2>5. /\ Cardinality(Left(at[w], m)) = Size(at[w], m)
          /\ Cardinality(Left(to[w], m)) = Size(to[w], m)
      BY <2>1, LeftSize DEF Size
    <2>6. QED
      BY <2>2, <2>3, <2>4, <2>5 DEF m
  <1>7. QED
    BY <1>1, <1>5, <1>6

\* What the counters of d may do while nothing else of d changes: stamps, crashes and the
\* creations of other rows only go on.
Onward(d) ==
    /\ stamps <= stamps' /\ crashes <= crashes'
    /\ Created(d) => Created(d)'

Same(d) ==
    /\ retried'[d] = retried[d]
    /\ sends'[d] = sends[d]
    /\ d \in accepted' <=> d \in accepted

\* The numbers of a delivery, its row and its attempts.
LEMMA Numbers ==
    ASSUME TypeInv, NEW d \in Deliveries
    PROVE  /\ stamps \in Nat /\ crashes \in Nat
           /\ retried[d] \in Nat /\ sends[d] \in Nat
           /\ Budget(d) \in Nat /\ Budget(d) > 0
           /\ HasRow(d) => /\ row[d].next \in Nat /\ row[d].attempts \in Nat
                           /\ row[d].due \in BOOLEAN
                           /\ row[d].status \in {"pending", "delivered", "dead"}
           /\ \A w \in Senders :
                 /\ attempt[w][d] \in Attempt
                 /\ attempt[w][d] # NoAttempt =>
                       attempt[w][d].next \in Nat /\ attempt[w][d].attempts \in Nat
                 /\ InFlight(w, d) <=> Flying(attempt[w][d])
                 /\ InFlight(w, d) => attempt[w][d] # NoAttempt
                 /\ InFlight(w, d) <=> w \in Flight(At(d))
           /\ Flights(d) \in Nat /\ Posts(d) \in Nat
  <1>1. /\ stamps \in Nat /\ crashes \in Nat
        /\ retried[d] \in Nat /\ sends[d] \in Nat
    BY WebhookAssumption DEF TypeInv, TypeOK
  <1>2. Budget(d) \in Nat /\ Budget(d) > 0
    BY BudgetType
  <1>3. HasRow(d) => /\ row[d].next \in Nat /\ row[d].attempts \in Nat
                     /\ row[d].due \in BOOLEAN
                     /\ row[d].status \in {"pending", "delivered", "dead"}
    <2>1. row[d] \in Row
      BY DEF TypeInv, TypeOK
    <2>2. QED
      BY <2>1, RowType DEF HasRow
  <1>4. ASSUME NEW w \in Senders
        PROVE  /\ attempt[w][d] \in Attempt
               /\ attempt[w][d] # NoAttempt =>
                     attempt[w][d].next \in Nat /\ attempt[w][d].attempts \in Nat
               /\ InFlight(w, d) <=> Flying(attempt[w][d])
               /\ InFlight(w, d) => attempt[w][d] # NoAttempt
               /\ InFlight(w, d) <=> w \in Flight(At(d))
    <2>1. attempt[w][d] \in Attempt
      BY DEF TypeInv, TypeOK
    <2>2. InFlight(w, d) <=> Flying(attempt[w][d])
      BY DEF InFlight, Flying
    <2>3. InFlight(w, d) <=> w \in Flight(At(d))
      BY <2>2 DEF Flight, At
    <2>4. QED
      BY <2>1, <2>2, <2>3, AttemptType
  <1>5. Flights(d) \in Nat
    <2>1. IsFiniteSet(Flight(At(d)))
      BY SendersFinite, FS_Subset DEF Flight
    <2>2. QED
      BY <2>1, FS_CardinalityType DEF Flights
  <1>6. Posts(d) \in Nat
    <2>1. IsFiniteSet(0..(Budget(d) - 1))
      BY <1>2, FS_Interval
    <2>2. IsFiniteSet(Senders \X (0..(Budget(d) - 1)))
      BY <2>1, SendersFinite, FS_Product
    <2>3. IsFiniteSet(Owed(At(d), Budget(d)))
      BY <2>2, FS_Subset DEF Owed
    <2>4. QED
      BY <2>3, FS_CardinalityType DEF Posts
  <1>7. QED
    BY <1>1, <1>2, <1>3, <1>4, <1>5, <1>6

\* What fits under a bound fits under a larger one.
LEMMA MoreRoom ==
    \A p \in Int, t \in Int, x \in Int, y \in Int : p <= t + x /\ x <= y => p <= t + y
  OBVIOUS

\* A step that leaves d alone.
LEMMA DeliveryFrame ==
    ASSUME TypeInv, TypeInv', NEW d \in Deliveries, DeliveryInv(d), Same(d), Onward(d),
           row'[d] = row[d], \A w \in Senders : attempt'[w][d] = attempt[w][d]
    PROVE  DeliveryInv(d)'
  <1>1. At(d)' = At(d)
    BY DEF At
  <1>2. /\ HasRow(d)' <=> HasRow(d)
        /\ \A w \in Senders : InFlight(w, d)' <=> InFlight(w, d)
    BY DEF HasRow, InFlight
  <1>3. Held(d)' <=> Held(d)
    BY <1>2 DEF Held
  <1>4. Flights(d)' = Flights(d) /\ Posts(d)' = Posts(d) /\ RowOwes(d)' = RowOwes(d)
    BY <1>1, <1>2, <1>3 DEF Flights, Posts, RowOwes, Budget
  <1>5. NothingBeforeCreation(d)'
    BY <1>2 DEF DeliveryInv, NothingBeforeCreation, Same, Onward
  <1>6. StampsHandedOut(d)'
    <2>1. stamps \in Nat /\ stamps' \in Nat
      BY DEF TypeInv, TypeOK
    <2>2. HasRow(d) => row[d].next \in Nat
      BY Numbers
    <2>3. \A w \in Senders : attempt[w][d] # NoAttempt => attempt[w][d].next \in Nat
      BY Numbers
    <2>4. StampsHandedOut(d) /\ stamps <= stamps'
      BY DEF DeliveryInv, Onward
    <2>5. HasRow(d)' => row'[d].next <= stamps'
      BY <1>2, <2>1, <2>2, <2>4 DEF StampsHandedOut
    <2>6. ASSUME NEW w \in Senders, attempt'[w][d] # NoAttempt PROVE attempt'[w][d].next <= stamps'
      <3>1. attempt[w][d].next \in Nat /\ attempt[w][d].next <= stamps
        BY <2>3, <2>4, <2>6 DEF StampsHandedOut
      <3>2. QED
        BY <2>1, <2>4, <3>1
    <2>7. QED
      BY <2>5, <2>6 DEF StampsHandedOut
  <1>7. DueIsNotHeld(d)' /\ ClaimsAreStale(d)' /\ HolderKnowsTheRow(d)'
    BY <1>2, <1>3 DEF DeliveryInv, DueIsNotHeld, ClaimsAreStale, HolderKnowsTheRow
  <1>8. FlightsAreExplained(d)'
    BY <1>2, <1>3, <1>4 DEF DeliveryInv, FlightsAreExplained, Same
  <1>9. SendsAreExplained(d)'
    <2> DEFINE posts == sends[d] + Posts(d) + RowOwes(d)
               total == Budget(d) * (1 + retried[d])
    <2>1. posts \in Int /\ total \in Int
      <3>1. /\ sends[d] \in Nat /\ retried[d] \in Nat /\ Budget(d) \in Nat /\ Posts(d) \in Nat
            /\ HasRow(d) => row[d].attempts \in Nat
        BY Numbers
      <3>2. RowOwes(d) \in Int
        BY <3>1 DEF RowOwes
      <3>3. QED
        BY <3>1, <3>2
    <2>2. posts <= total + crashes
      BY DEF DeliveryInv, SendsAreExplained
    <2>3. ASSUME posts <= total + crashes' PROVE SendsAreExplained(d)'
      BY <1>4, <2>3 DEF SendsAreExplained, Same, Budget
    <2>4. crashes \in Nat /\ crashes' \in Nat /\ crashes <= crashes'
      BY WebhookAssumption DEF TypeInv, TypeOK, Onward
    <2>5. posts <= total + crashes'
      <3>1. crashes \in Int /\ crashes' \in Int
        BY <2>4
      <3>2. QED
        BY <2>1, <2>2, <2>4, <3>1, MoreRoom
    <2>6. QED
      BY <2>3, <2>5
  <1>10. InFlightIsPending(d)'
    BY <1>1, <1>2 DEF DeliveryInv, InFlightIsPending, Same
  <1>11. AcceptedIsRecorded(d)'
    <2>1. crashes' = 0 => crashes = 0
      BY WebhookAssumption DEF TypeInv, TypeOK, Onward
    <2>2. QED
      BY <1>2, <2>1 DEF DeliveryInv, AcceptedIsRecorded, Same
  <1>12. QED
    BY <1>5, <1>6, <1>7, <1>8, <1>9, <1>10, <1>11 DEF DeliveryInv

\* What a move of sender w leaves of the other attempts at d.
LEMMA MoveOthers ==
    ASSUME TypeInv, TypeInv', NEW w \in Senders, NEW d \in Deliveries, NEW a, NEW r,
           Moves(w, d, a, r)
    PROVE  /\ InFlight(w, d)' <=> Flying(a)
           /\ \A v \in Senders \ {w} : /\ InFlight(v, d)' <=> InFlight(v, d)
                                       /\ attempt'[v][d] = attempt[v][d]
           /\ HasRow(d)' <=> r # NoRow
           /\ Held(d)' <=> \/ Flying(a) /\ a.next = r.next
                           \/ \E v \in Senders \ {w} : InFlight(v, d) /\ attempt[v][d].next = r.next
  BY DEF Moves, InFlight, Flying, HasRow, Held

\* A claim that goes through: the row and the attempt share a fresh stamp.
LEMMA ClaimMove ==
    ASSUME TypeInv, TypeInv', NEW w \in Senders, NEW d \in Deliveries, DeliveryInv(d), Same(d),
           attempt[w][d].pc = "claim", attempt[w][d] # NoAttempt, HasRow(d),
           ClaimMatches(row[d], attempt[w][d]), stamps' = stamps + 1, crashes' = crashes,
           Created(d) => Created(d)',
           Moves(w, d, [attempt[w][d] EXCEPT !.pc = "send", !.next = stamps'],
                 [row[d] EXCEPT !.next = stamps', !.due = FALSE])
    PROVE  DeliveryInv(d)'
  <1> DEFINE a == attempt[w][d]
             b == [attempt[w][d] EXCEPT !.pc = "send", !.next = stamps']
             r == [row[d] EXCEPT !.next = stamps', !.due = FALSE]
  <1>1. /\ stamps \in Nat /\ stamps' = stamps + 1 /\ crashes \in Nat
        /\ retried[d] \in Nat /\ sends[d] \in Nat /\ Budget(d) \in Nat
        /\ a \in Attempt /\ a.attempts \in Nat
        /\ row[d].attempts \in Nat
        /\ Flights(d) \in Nat /\ Posts(d) \in Nat
    BY Numbers
  <1>2. /\ row[d].status = "pending" /\ row[d].attempts = a.attempts /\ row[d].next = a.next
    BY DEF ClaimMatches
  <1>3. /\ b.pc = "send" /\ b.attempts = a.attempts /\ b.next = stamps + 1
        /\ r.status = "pending" /\ r.attempts = a.attempts /\ r.next = stamps + 1 /\ r.due = FALSE
        /\ r # NoRow /\ b # NoAttempt
    <2>1. row[d] \in [status : {"pending", "delivered", "dead"}, attempts : 0..MaxAttempts,
                      next : Nat, due : BOOLEAN]
      BY RowType DEF TypeInv, TypeOK, HasRow
    <2>2. a \in [pc : {"claim", "send", "record"}, attempts : 0..MaxAttempts, next : Nat,
                 on : BOOLEAN, answer : {"none", "2xx", "410", "error"}]
      BY <1>1, AttemptType
    <2>3. QED
      BY <1>2, <2>1, <2>2 DEF NoRow, NoAttempt
  <1>4. Moves(w, d, b, r)
    OBVIOUS
  <1> HIDE DEF b, r
  <1>5. attempt'[w][d] = b /\ row'[d] = r /\ \A v \in Senders \ {w} : attempt'[v][d] = attempt[v][d]
    BY <1>4 DEF Moves
  <1>6. /\ InFlight(w, d)' /\ HasRow(d)' /\ Held(d)'
        /\ \A v \in Senders \ {w} : InFlight(v, d)' <=> InFlight(v, d)
    BY <1>3, <1>4, MoveOthers DEF Flying
  <1>7. ~Held(d)
    BY <1>2 DEF DeliveryInv, ClaimsAreStale, Held
  <1>8. /\ Flights(d)' = Flights(d) + 1
        /\ Posts(d)' = Posts(d) + (Budget(d) - a.attempts)
    <2>1. One(a) = 0 /\ One(b) = 1
      BY <1>3 DEF One, Flying
    <2>2. Size(a, Budget(d)) = 0 /\ Size(b, Budget(d)) = Budget(d) - a.attempts
      BY <1>3 DEF Size
    <2>3. /\ Flights(d)' \in Nat /\ Posts(d)' \in Nat
          /\ Flights(d)' + One(a) = Flights(d) + One(b)
          /\ Posts(d)' + Size(a, Budget(d)) = Posts(d) + Size(b, Budget(d))
      BY <1>4, MoveCounts
    <2>4. QED
      BY <1>1, <2>1, <2>2, <2>3
  <1> HIDE DEF a
  <1>9. \A v \in Senders \ {w} : attempt[v][d] # NoAttempt => attempt[v][d].next \in Nat
                                                              /\ attempt[v][d].next <= stamps
    BY Numbers DEF DeliveryInv, StampsHandedOut
  <1>10. NothingBeforeCreation(d)'
    <2>1. Created(d)
      BY DEF DeliveryInv, NothingBeforeCreation
    <2>2. QED
      BY <2>1 DEF NothingBeforeCreation
  <1>11. StampsHandedOut(d)'
    BY <1>1, <1>3, <1>5, <1>9 DEF StampsHandedOut
  <1>12. DueIsNotHeld(d)'
    BY <1>3, <1>5 DEF DueIsNotHeld
  <1>13. ClaimsAreStale(d)'
    <2> SUFFICES ASSUME NEW v \in Senders, NEW x \in Senders,
                        attempt'[v][d].pc = "claim", InFlight(x, d)'
                 PROVE  attempt'[v][d].next # attempt'[x][d].next
      BY DEF ClaimsAreStale
    <2>1. v # w /\ attempt[v][d].pc = "claim" /\ attempt'[v][d] = attempt[v][d]
      BY <1>3, <1>5
    <2>2. CASE x = w
      <3>1. attempt[v][d].next \in Nat /\ attempt[v][d].next <= stamps
        BY <1>9, <2>1 DEF NoAttempt
      <3>2. QED
        BY <1>1, <1>3, <1>5, <2>1, <2>2, <3>1
    <2>3. CASE x # w
      BY <1>5, <1>6, <2>1, <2>3 DEF DeliveryInv, ClaimsAreStale
    <2>4. QED
      BY <2>2, <2>3
  <1>14. HolderKnowsTheRow(d)'
    <2> SUFFICES ASSUME NEW v \in Senders, InFlight(v, d)', attempt'[v][d].next = row'[d].next
                 PROVE  attempt'[v][d].attempts = row'[d].attempts
      BY DEF HolderKnowsTheRow
    <2>1. CASE v = w
      BY <1>3, <1>5, <2>1
    <2>2. CASE v # w
      <3>1. attempt[v][d].next \in Nat /\ attempt[v][d].next <= stamps
        BY <1>6, <1>9, <2>2, Numbers
      <3>2. QED
        BY <1>1, <1>3, <1>5, <2>2, <3>1
    <2>3. QED
      BY <2>1, <2>2
  <1>15. FlightsAreExplained(d)'
    BY <1>1, <1>6, <1>7, <1>8 DEF DeliveryInv, FlightsAreExplained, Same
  <1>16. SendsAreExplained(d)'
    <2>1. RowOwes(d) = Budget(d) - a.attempts
      BY <1>2, <1>7 DEF RowOwes, a
    <2>2. RowOwes(d)' = 0
      BY <1>6 DEF RowOwes
    <2>3. sends[d] + Posts(d) + RowOwes(d) <= Budget(d) * (1 + retried[d]) + crashes
      BY DEF DeliveryInv, SendsAreExplained
    <2>4. sends[d] + Posts(d)' + RowOwes(d)' <= Budget(d) * (1 + retried[d]) + crashes
      BY <1>1, <1>8, <2>1, <2>2, <2>3
    <2>5. QED
      BY <2>4 DEF SendsAreExplained, Same, Budget
  <1>17. InFlightIsPending(d)'
    BY <1>3, <1>5 DEF InFlightIsPending
  <1>18. AcceptedIsRecorded(d)'
    <2> SUFFICES ASSUME retried[d] = 0, crashes = 0, d \in accepted
                 PROVE  \E v \in Senders : attempt'[v][d].pc = "record"
                                           /\ attempt'[v][d].answer = "2xx"
      BY DEF AcceptedIsRecorded, Same
    <2>1. PICK v \in Senders : attempt[v][d].pc = "record" /\ attempt[v][d].answer = "2xx"
      BY <1>2 DEF DeliveryInv, AcceptedIsRecorded
    <2>2. v # w
      BY <2>1
    <2>3. QED
      BY <1>5, <2>1, <2>2
  <1>19. QED
    BY <1>10, <1>11, <1>12, <1>13, <1>14, <1>15, <1>16, <1>17, <1>18 DEF DeliveryInv

\* A step of a sender that has nothing in flight and puts nothing in flight: a poll, a
\* claim that comes too late.
LEMMA RestMove ==
    ASSUME TypeInv, TypeInv', NEW w \in Senders, NEW d \in Deliveries, DeliveryInv(d), Same(d),
           stamps' = stamps, crashes' = crashes, Created(d) => Created(d)',
           NEW a, Moves(w, d, a, row[d]), ~Flying(attempt[w][d]),
           a = NoAttempt \/ (/\ a.pc = "claim" /\ HasRow(d) /\ row[d].status = "pending"
                             /\ row[d].due /\ a.next = row[d].next)
    PROVE  DeliveryInv(d)'
  <1>1. /\ attempt'[w][d] = a /\ row'[d] = row[d] /\ ~Flying(a)
        /\ \A v \in Senders \ {w} : attempt'[v][d] = attempt[v][d]
    BY DEF Moves, NoAttempt, Flying
  <1>2. \A v \in Senders : /\ InFlight(v, d)' <=> InFlight(v, d)
                           /\ InFlight(v, d) => attempt'[v][d] = attempt[v][d]
    BY <1>1 DEF InFlight, Flying
  <1>3. (HasRow(d)' <=> HasRow(d)) /\ (Held(d)' <=> Held(d))
    BY <1>1, <1>2 DEF HasRow, Held
  <1>4. Flights(d)' = Flights(d) /\ Posts(d)' = Posts(d) /\ RowOwes(d)' = RowOwes(d)
    <2>1. One(a) = 0 /\ One(attempt[w][d]) = 0
      BY <1>1 DEF One
    <2>2. Size(a, Budget(d)) = 0 /\ Size(attempt[w][d], Budget(d)) = 0
      BY <1>1 DEF Size, Flying
    <2>3. /\ Flights(d) \in Nat /\ Flights(d)' \in Nat /\ Posts(d) \in Nat /\ Posts(d)' \in Nat
          /\ Flights(d)' + One(attempt[w][d]) = Flights(d) + One(a)
          /\ Posts(d)' + Size(attempt[w][d], Budget(d)) = Posts(d) + Size(a, Budget(d))
      BY MoveCounts
    <2>4. QED
      BY <1>1, <1>3, <2>1, <2>2, <2>3 DEF RowOwes, Budget
  <1>5. NothingBeforeCreation(d)'
    BY <1>1, <1>3 DEF DeliveryInv, NothingBeforeCreation, Same
  <1>6. StampsHandedOut(d)'
    BY <1>1, <1>3 DEF DeliveryInv, StampsHandedOut
  <1>7. DueIsNotHeld(d)' /\ HolderKnowsTheRow(d)'
    BY <1>1, <1>2, <1>3 DEF DeliveryInv, DueIsNotHeld, HolderKnowsTheRow
  <1>8. ClaimsAreStale(d)'
    <2> SUFFICES ASSUME NEW v \in Senders, NEW x \in Senders,
                        attempt'[v][d].pc = "claim", InFlight(x, d)
                 PROVE  attempt'[v][d].next # attempt[x][d].next
      BY <1>2 DEF ClaimsAreStale
    <2>1. CASE v = w
      BY <2>1, <1>1 DEF DeliveryInv, DueIsNotHeld, Held, NoAttempt
    <2>2. CASE v # w
      BY <2>2, <1>1 DEF DeliveryInv, ClaimsAreStale
    <2>3. QED
      BY <2>1, <2>2
  <1>9. FlightsAreExplained(d)' /\ SendsAreExplained(d)'
    BY <1>3, <1>4 DEF DeliveryInv, FlightsAreExplained, SendsAreExplained, Same, Budget
  <1>10. InFlightIsPending(d)'
    <2>1. Flight(At(d))' # {} => Flight(At(d)) # {}
      BY <1>2, Numbers DEF Flight, At, InFlight, Flying
    <2>2. QED
      BY <1>1, <1>3, <2>1 DEF DeliveryInv, InFlightIsPending, Same
  <1>11. AcceptedIsRecorded(d)'
    BY <1>1, <1>2, <1>3 DEF DeliveryInv, AcceptedIsRecorded, Same, InFlight
  <1>12. QED
    BY <1>5, <1>6, <1>7, <1>8, <1>9, <1>10, <1>11 DEF DeliveryInv

\* An attempt in flight is not the only one, or the row is not what it waits for, only
\* after a manual retry.
LEMMA AloneInFlight ==
    ASSUME TypeInv, NEW d \in Deliveries, DeliveryInv(d), HasRow(d), retried[d] = 0,
           NEW w \in Senders, InFlight(w, d)
    PROVE  /\ row[d].status = "pending"
           /\ Held(d)
           /\ Flights(d) = 1
           /\ \A v \in Senders \ {w} : ~InFlight(v, d)
  <1>1. At(d) \in [Senders -> Attempt] /\ w \in Flight(At(d))
    BY Numbers DEF At
  <1>2. Flights(d) \in Nat /\ Flights(d) <= (IF ~Held(d) THEN 0 ELSE 1)
    BY Numbers DEF DeliveryInv, FlightsAreExplained
  <1>3. Flights(d) # 0
    <2>1. IsFiniteSet(Flight(At(d)))
      BY SendersFinite, FS_Subset DEF Flight
    <2>2. QED
      BY <1>1, <2>1, FS_EmptySet DEF Flights
  <1>4. Held(d) /\ Flights(d) = 1
    BY <1>2, <1>3
  <1>5. row[d].status = "pending"
    BY <1>1 DEF DeliveryInv, InFlightIsPending
  <1>6. ASSUME NEW v \in Senders \ {w}, InFlight(v, d) PROVE FALSE
    <2>1. v \in Flight(At(d))
      BY <1>6, Numbers
    <2> DEFINE at == At(d)
    <2>2. at \in [Senders -> Attempt] /\ v \in Flight(at) /\ w \in Flight(at) /\ v # w
      BY <1>1, <2>1
    <2> HIDE DEF at
    <2>3. Cardinality(Flight(at)) >= 2
      BY <2>2, TwoInFlight
    <2>4. QED
      BY <1>4, <2>3 DEF Flights, at
  <1>7. QED
    BY <1>4, <1>5, <1>6

\* An attempt ends: its row is closed, requeued under a fresh stamp, or gone.
LEMMA EndMove ==
    ASSUME TypeInv, TypeInv', NEW w \in Senders, NEW d \in Deliveries, DeliveryInv(d), Same(d),
           crashes' = crashes, Created(d) => Created(d)',
           Flying(attempt[w][d]), NEW r, Moves(w, d, NoAttempt, r),
           ~HasRow(d) => r = NoRow /\ stamps' \in {stamps, stamps + 1},
           HasRow(d) =>
              \/ /\ stamps' = stamps
                 /\ r.next = row[d].next /\ r # NoRow
                 /\ \/ r.status = "delivered"
                    \/ r.status = "dead" /\ ~(attempt[w][d].pc = "record" /\ attempt[w][d].answer = "2xx")
              \/ /\ stamps' = stamps + 1
                 /\ attempt[w][d].pc = "record" /\ attempt[w][d].answer # "2xx"
                 /\ r = Requeued(attempt[w][d].attempts + 1, stamps')
    PROVE  DeliveryInv(d)'
  <1> DEFINE a == attempt[w][d]
  <1>1. /\ stamps \in Nat /\ stamps' \in Nat /\ stamps <= stamps' /\ crashes \in Nat
        /\ retried[d] \in Nat /\ sends[d] \in Nat /\ Budget(d) \in Nat
        /\ a \in Attempt /\ a # NoAttempt /\ a.attempts \in Nat /\ InFlight(w, d)
        /\ Flights(d) \in Nat /\ Posts(d) \in Nat
        /\ a.attempts < Budget(d)
    <2>1. stamps \in Nat /\ stamps' \in {stamps, stamps + 1}
      BY Numbers
    <2>2. a # NoAttempt
      BY Numbers
    <2>3. a.attempts < Budget(d)
      BY <2>2 DEF TypeInv, AttemptsInBudget
    <2>4. QED
      BY <2>1, <2>2, <2>3, Numbers
  <1>2. /\ attempt'[w][d] = NoAttempt /\ row'[d] = r /\ ~Flying(NoAttempt)
        /\ \A v \in Senders \ {w} : attempt'[v][d] = attempt[v][d]
    BY DEF Moves, Flying, NoAttempt
  <1>3. \A v \in Senders : InFlight(v, d)' <=> v # w /\ InFlight(v, d)
    BY <1>2 DEF InFlight, Flying
  <1>4. HasRow(d)' <=> HasRow(d)
    BY <1>2 DEF HasRow, Requeued, NoRow
  <1>5. /\ Flights(d)' = Flights(d) - 1
        /\ Posts(d)' = Posts(d) - Size(a, Budget(d))
        /\ Size(a, Budget(d)) = IF a.pc = "send" THEN Budget(d) - a.attempts
                                ELSE Budget(d) - a.attempts - 1
    <2>1. One(a) = 1 /\ One(NoAttempt) = 0 /\ Size(NoAttempt, Budget(d)) = 0
      BY <1>2 DEF One, Size, NoAttempt
    <2>2. Size(a, Budget(d)) = IF a.pc = "send" THEN Budget(d) - a.attempts
                               ELSE Budget(d) - a.attempts - 1
      BY DEF Size, Flying
    <2>3. /\ Flights(d)' \in Nat /\ Posts(d)' \in Nat
          /\ Flights(d)' + One(a) = Flights(d) + One(NoAttempt)
          /\ Posts(d)' + Size(a, Budget(d)) = Posts(d) + Size(NoAttempt, Budget(d))
      BY MoveCounts
    <2>4. QED
      BY <1>1, <2>1, <2>2, <2>3
  <1> DEFINE closed == /\ stamps' = stamps /\ r.next = row[d].next
                       /\ \/ r.status = "delivered"
                          \/ r.status = "dead" /\ ~(a.pc = "record" /\ a.answer = "2xx")
             requeued == /\ stamps' = stamps + 1 /\ a.pc = "record" /\ a.answer # "2xx"
                         /\ r.status = "pending" /\ r.attempts = a.attempts + 1
                         /\ r.next = stamps + 1 /\ r.due = FALSE
  <1>6. HasRow(d) => closed \/ requeued
    BY DEF Requeued
  <1> HIDE DEF a
  <1>7. \A v \in Senders : /\ attempt[v][d] # NoAttempt => attempt[v][d].next \in Nat
                                                          /\ attempt[v][d].next <= stamps
                           /\ InFlight(v, d) => attempt[v][d] # NoAttempt
    BY Numbers DEF DeliveryInv, StampsHandedOut
  <1>8. HasRow(d) /\ requeued => ~Held(d)'
    BY <1>1, <1>2, <1>3, <1>7 DEF Held
  <1>9. NothingBeforeCreation(d)'
    BY <1>1 DEF DeliveryInv, NothingBeforeCreation, a
  <1>10. StampsHandedOut(d)'
    <2>1. HasRow(d)' => row'[d].next <= stamps'
      <3>1. HasRow(d) => row[d].next <= stamps /\ row[d].next \in Nat
        BY Numbers DEF DeliveryInv, StampsHandedOut
      <3>2. QED
        BY <1>1, <1>2, <1>4, <1>6, <3>1
    <2>2. \A v \in Senders : attempt'[v][d] # NoAttempt => attempt'[v][d].next <= stamps'
      BY <1>1, <1>2, <1>7
    <2>3. QED
      BY <2>1, <2>2 DEF StampsHandedOut
  <1>11. DueIsNotHeld(d)'
    BY <1>2, <1>4, <1>6 DEF DueIsNotHeld
  <1>12. ClaimsAreStale(d)'
    BY <1>2, <1>3 DEF DeliveryInv, ClaimsAreStale, NoAttempt
  <1>13. HolderKnowsTheRow(d)'
    BY <1>2, <1>4, <1>6, <1>8 DEF HolderKnowsTheRow, Held
  <1>14. FlightsAreExplained(d)'
    <2>1. Flights(d) <= retried[d] + 1
      BY <1>1 DEF DeliveryInv, FlightsAreExplained
    <2> DEFINE spare == IF HasRow(d)' /\ ~Held(d)' THEN 0 ELSE 1
    <2>2. spare \in {0, 1}
      OBVIOUS
    <2>3. FlightsAreExplained(d)' <=> Flights(d)' <= retried[d] + spare
      BY DEF FlightsAreExplained, Same
    <2> HIDE DEF spare
    <2>4. QED
      BY <1>1, <1>5, <2>1, <2>2, <2>3
  <1>15. SendsAreExplained(d)'
    <2>1. sends[d] + Posts(d) + RowOwes(d) <= Budget(d) * (1 + retried[d]) + crashes
      BY DEF DeliveryInv, SendsAreExplained
    <2>2. RowOwes(d) \in Nat
      <3>1. HasRow(d) /\ row[d].status = "pending" => row[d].attempts \in Nat /\ row[d].attempts < Budget(d)
        BY Numbers DEF TypeInv, AttemptsInBudget
      <3>2. QED
        BY <1>1, <3>1 DEF RowOwes
    <2>3. RowOwes(d)' <= Size(a, Budget(d)) /\ RowOwes(d)' \in Nat
      <3>1. CASE HasRow(d) /\ requeued
        <4>1. RowOwes(d)' = Budget(d) - (a.attempts + 1)
          BY <1>2, <1>4, <1>8, <3>1 DEF RowOwes, Budget
        <4>2. QED
          BY <1>1, <1>5, <3>1, <4>1
      <3>2. CASE ~(HasRow(d) /\ requeued)
        <4>1. RowOwes(d)' = 0
          BY <1>2, <1>4, <1>6, <3>2 DEF RowOwes
        <4>2. QED
          BY <1>1, <1>5, <4>1
      <3>3. QED
        BY <3>1, <3>2
    <2>4. Budget(d) * (1 + retried[d]) \in Nat
      BY <1>1
    <2> DEFINE total == Budget(d) * (1 + retried[d])
    <2> HIDE DEF total
    <2>5. sends[d] + Posts(d)' + RowOwes(d)' <= total + crashes
      <3>1. total \in Nat /\ sends[d] + Posts(d) + RowOwes(d) <= total + crashes
        BY <2>1, <2>4 DEF total
      <3>2. Size(a, Budget(d)) \in Int /\ Posts(d)' = Posts(d) - Size(a, Budget(d))
        BY <1>1, <1>5
      <3>3. QED
        BY <3>1, <3>2, <1>1, <2>2, <2>3
    <2>6. QED
      BY <2>5 DEF SendsAreExplained, Same, Budget, total
  <1>16. InFlightIsPending(d)'
    <2> SUFFICES ASSUME retried[d] = 0, HasRow(d), NEW v \in Senders, InFlight(v, d)' PROVE FALSE
      BY <1>4, Numbers DEF InFlightIsPending, Same, Flight, At, InFlight, Flying
    <2>1. v # w /\ InFlight(v, d)
      BY <1>3
    <2>2. QED
      BY <1>1, <2>1, AloneInFlight
  <1>17. AcceptedIsRecorded(d)'
    <2> SUFFICES ASSUME retried[d] = 0, crashes = 0, HasRow(d), d \in accepted
                 PROVE  row'[d].status = "delivered"
      BY <1>4 DEF AcceptedIsRecorded, Same
    <2>1. row[d].status = "pending" /\ \A v \in Senders \ {w} : ~InFlight(v, d)
      BY <1>1, AloneInFlight
    <2>2. a.pc = "record" /\ a.answer = "2xx"
      BY <2>1 DEF DeliveryInv, AcceptedIsRecorded, InFlight, a
    <2>3. QED
      BY <1>2, <1>6, <2>2
  <1>18. QED
    BY <1>9, <1>10, <1>11, <1>12, <1>13, <1>14, <1>15, <1>16, <1>17 DEF DeliveryInv

\* The POST is made: one more is counted as sent and one fewer as owed.
LEMMA PostMove ==
    ASSUME TypeInv, TypeInv', NEW w \in Senders, NEW d \in Deliveries, DeliveryInv(d),
           retried'[d] = retried[d], sends'[d] = sends[d] + 1, stamps' = stamps, crashes' = crashes,
           Created(d) => Created(d)', attempt[w][d].pc = "send", NEW answer,
           answer \in {"2xx", "410", "error"},
           d \in accepted' <=> d \in accepted \/ answer = "2xx",
           Moves(w, d, [attempt[w][d] EXCEPT !.pc = "record", !.answer = answer], row[d])
    PROVE  DeliveryInv(d)'
  <1> DEFINE a == attempt[w][d]
             b == [attempt[w][d] EXCEPT !.pc = "record", !.answer = answer]
  <1>1. /\ stamps \in Nat /\ crashes \in Nat
        /\ retried[d] \in Nat /\ sends[d] \in Nat /\ Budget(d) \in Nat
        /\ a \in Attempt /\ a # NoAttempt /\ a.attempts \in Nat /\ InFlight(w, d)
        /\ Flights(d) \in Nat /\ Posts(d) \in Nat
    <2>1. a # NoAttempt /\ InFlight(w, d)
      BY DEF NoAttempt, InFlight
    <2>2. QED
      BY <2>1, Numbers
  <1>2. /\ b.pc = "record" /\ b.attempts = a.attempts /\ b.next = a.next /\ b.answer = answer
        /\ b # NoAttempt /\ Flying(b)
    <2>1. a \in [pc : {"claim", "send", "record"}, attempts : 0..MaxAttempts, next : Nat,
                 on : BOOLEAN, answer : {"none", "2xx", "410", "error"}]
      BY <1>1, AttemptType
    <2>2. QED
      BY <2>1 DEF NoAttempt, Flying
  <1>3. Moves(w, d, b, row[d])
    OBVIOUS
  <1> HIDE DEF b
  <1>4. /\ attempt'[w][d] = b /\ row'[d] = row[d]
        /\ \A v \in Senders \ {w} : attempt'[v][d] = attempt[v][d]
    BY <1>3 DEF Moves
  <1>5. \A v \in Senders : InFlight(v, d)' <=> InFlight(v, d)
    BY <1>1, <1>2, <1>4 DEF InFlight
  <1>6. \A v \in Senders : /\ attempt'[v][d].next = attempt[v][d].next
                           /\ attempt'[v][d].attempts = attempt[v][d].attempts
                           /\ attempt'[v][d] # NoAttempt <=> attempt[v][d] # NoAttempt
                           /\ attempt'[v][d].pc = "claim" <=> attempt[v][d].pc = "claim"
    BY <1>1, <1>2, <1>4
  <1>7. (HasRow(d)' <=> HasRow(d)) /\ (Held(d)' <=> Held(d)) /\ RowOwes(d)' = RowOwes(d)
    <2>1. HasRow(d)' <=> HasRow(d)
      BY <1>4 DEF HasRow
    <2>2. Held(d)' <=> Held(d)
      BY <1>4, <1>5, <1>6 DEF Held
    <2>3. QED
      BY <1>4, <2>1, <2>2 DEF RowOwes, Budget
  <1>8. Flights(d)' = Flights(d) /\ Posts(d)' = Posts(d) - 1 /\ Posts(d)' \in Nat
    <2>1. One(a) = 1 /\ One(b) = 1
      BY <1>2 DEF One, Flying
    <2>2. Size(a, Budget(d)) = Budget(d) - a.attempts /\ Size(b, Budget(d)) = Budget(d) - a.attempts - 1
      BY <1>2 DEF Size
    <2>3. /\ Flights(d)' \in Nat /\ Posts(d)' \in Nat
          /\ Flights(d)' + One(a) = Flights(d) + One(b)
          /\ Posts(d)' + Size(a, Budget(d)) = Posts(d) + Size(b, Budget(d))
      BY <1>3, MoveCounts
    <2>4. QED
      BY <1>1, <2>1, <2>2, <2>3
  <1>9. NothingBeforeCreation(d)'
    BY <1>1 DEF DeliveryInv, NothingBeforeCreation
  <1>10. StampsHandedOut(d)'
    BY <1>4, <1>6, <1>7 DEF DeliveryInv, StampsHandedOut
  <1>11. DueIsNotHeld(d)' /\ ClaimsAreStale(d)' /\ HolderKnowsTheRow(d)'
    BY <1>4, <1>5, <1>6, <1>7 DEF DeliveryInv, DueIsNotHeld, ClaimsAreStale, HolderKnowsTheRow
  <1>12. FlightsAreExplained(d)'
    BY <1>7, <1>8 DEF DeliveryInv, FlightsAreExplained
  <1>13. SendsAreExplained(d)'
    <2>1. sends[d] + Posts(d) + RowOwes(d) <= Budget(d) * (1 + retried[d]) + crashes
      BY DEF DeliveryInv, SendsAreExplained
    <2>2. RowOwes(d) \in Int
      BY Numbers DEF RowOwes
    <2>3. sends'[d] + Posts(d)' + RowOwes(d) = sends[d] + Posts(d) + RowOwes(d)
      BY <1>1, <1>8, <2>2
    <2>4. QED
      BY <1>7, <2>1, <2>3 DEF SendsAreExplained, Budget
  <1>14. InFlightIsPending(d)'
    <2>1. Flight(At(d))' # {} => Flight(At(d)) # {}
      BY <1>5, Numbers DEF Flight, At, InFlight, Flying
    <2>2. QED
      BY <1>4, <1>7, <2>1 DEF DeliveryInv, InFlightIsPending
  <1>15. AcceptedIsRecorded(d)'
    <2> SUFFICES ASSUME retried[d] = 0, crashes = 0, HasRow(d), d \in accepted'
                 PROVE  \E v \in Senders : attempt'[v][d].pc = "record" /\ attempt'[v][d].answer = "2xx"
      BY <1>7 DEF AcceptedIsRecorded
    <2>1. CASE answer = "2xx"
      BY <1>2, <1>4, <2>1
    <2>2. CASE d \in accepted
      <3>1. row[d].status = "pending" /\ \A v \in Senders \ {w} : ~InFlight(v, d)
        BY <1>1, AloneInFlight
      <3>2. PICK v \in Senders : attempt[v][d].pc = "record"
        BY <2>2, <3>1 DEF DeliveryInv, AcceptedIsRecorded
      <3>3. QED
        BY <3>1, <3>2 DEF InFlight
    <2>3. QED
      BY <2>1, <2>2
  <1>16. QED
    BY <1>9, <1>10, <1>11, <1>12, <1>13, <1>14, <1>15 DEF DeliveryInv

\* The sender dies: the row it held waits for its lease, and may be sent once more than
\* was owed.
LEMMA CrashMove ==
    ASSUME TypeInv, TypeInv', NEW w \in Senders, NEW d \in Deliveries, DeliveryInv(d), Same(d),
           stamps' = stamps, crashes' = crashes + 1, Created(d) => Created(d)',
           Moves(w, d, NoAttempt, row[d])
    PROVE  DeliveryInv(d)'
  <1> DEFINE a == attempt[w][d]
  <1>1. /\ stamps \in Nat /\ crashes \in Nat
        /\ retried[d] \in Nat /\ sends[d] \in Nat /\ Budget(d) \in Nat
        /\ a \in Attempt /\ Flights(d) \in Nat /\ Posts(d) \in Nat
    BY Numbers
  <1>2. /\ attempt'[w][d] = NoAttempt /\ row'[d] = row[d] /\ ~Flying(NoAttempt)
        /\ \A v \in Senders \ {w} : attempt'[v][d] = attempt[v][d]
    BY DEF Moves, Flying, NoAttempt
  <1>3. \A v \in Senders : InFlight(v, d)' <=> v # w /\ InFlight(v, d)
    BY <1>2 DEF InFlight, Flying
  <1>4. (HasRow(d)' <=> HasRow(d)) /\ (Held(d)' => Held(d))
        /\ (Held(d) /\ ~Held(d)' => InFlight(w, d) /\ a.next = row[d].next)
    BY <1>2, <1>3 DEF HasRow, Held
  <1>5. /\ Flights(d)' \in Nat /\ Posts(d)' \in Nat
        /\ Flights(d)' = Flights(d) - One(a)
        /\ Posts(d)' = Posts(d) - Size(a, Budget(d))
        /\ One(a) = IF InFlight(w, d) THEN 1 ELSE 0
        /\ Size(a, Budget(d)) \in Nat
        /\ InFlight(w, d) => Size(a, Budget(d)) >= Budget(d) - a.attempts - 1 /\ a.attempts \in Nat
    <2>1. One(a) = (IF InFlight(w, d) THEN 1 ELSE 0) /\ One(NoAttempt) = 0
          /\ Size(NoAttempt, Budget(d)) = 0
      BY <1>2 DEF One, Size, NoAttempt, InFlight, Flying
    <2>2. InFlight(w, d) => a.attempts \in Nat /\ a.attempts < Budget(d)
      BY Numbers DEF TypeInv, AttemptsInBudget
    <2>3. Size(a, Budget(d)) = IF a.pc = "send" THEN Budget(d) - a.attempts
                               ELSE IF a.pc = "record" THEN Budget(d) - a.attempts - 1 ELSE 0
      BY DEF Size
    <2>4. InFlight(w, d) <=> a.pc \in {"send", "record"}
      BY DEF InFlight
    <2> HIDE DEF a
    <2>5. /\ Size(a, Budget(d)) \in Nat
          /\ InFlight(w, d) => Size(a, Budget(d)) >= Budget(d) - a.attempts - 1 /\ a.attempts \in Nat
      BY <1>1, <2>2, <2>3, <2>4
    <2>6. /\ Flights(d)' \in Nat /\ Posts(d)' \in Nat
          /\ Flights(d)' + One(a) = Flights(d) + One(NoAttempt)
          /\ Posts(d)' + Size(a, Budget(d)) = Posts(d) + Size(NoAttempt, Budget(d))
      BY MoveCounts DEF a
    <2>7. QED
      BY <1>1, <2>1, <2>5, <2>6
  <1>6. NothingBeforeCreation(d)'
    BY <1>2, <1>4 DEF DeliveryInv, NothingBeforeCreation, Same
  <1>7. StampsHandedOut(d)'
    BY <1>2, <1>4 DEF DeliveryInv, StampsHandedOut
  <1>8. DueIsNotHeld(d)' /\ HolderKnowsTheRow(d)'
    BY <1>2, <1>3, <1>4 DEF DeliveryInv, DueIsNotHeld, HolderKnowsTheRow
  <1>9. ClaimsAreStale(d)'
    BY <1>2, <1>3 DEF DeliveryInv, ClaimsAreStale, NoAttempt
  <1>10. FlightsAreExplained(d)'
    <2>1. Flights(d) <= retried[d] + (IF HasRow(d) /\ ~Held(d) THEN 0 ELSE 1)
      BY DEF DeliveryInv, FlightsAreExplained
    <2> DEFINE spare == IF HasRow(d)' /\ ~Held(d)' THEN 0 ELSE 1
    <2>2. spare \in {0, 1} /\ (spare = 0 <=> HasRow(d) /\ ~Held(d)')
      BY <1>4
    <2>3. FlightsAreExplained(d)' <=> Flights(d)' <= retried[d] + spare
      BY DEF FlightsAreExplained, Same
    <2> HIDE DEF spare, a
    <2>4. CASE InFlight(w, d)
      BY <1>1, <1>5, <2>1, <2>2, <2>3, <2>4
    <2>5. CASE ~InFlight(w, d)
      BY <1>1, <1>4, <1>5, <2>1, <2>2, <2>3, <2>5
    <2>6. QED
      BY <2>4, <2>5
  <1>11. SendsAreExplained(d)'
    <2>1. sends[d] + Posts(d) + RowOwes(d) <= Budget(d) * (1 + retried[d]) + crashes
      BY DEF DeliveryInv, SendsAreExplained
    <2>2. HasRow(d) /\ row[d].status = "pending" => row[d].attempts \in Nat /\ row[d].attempts < Budget(d)
      BY Numbers DEF TypeInv, AttemptsInBudget
    <2>3. RowOwes(d) \in Nat
      BY <1>1, <2>2 DEF RowOwes
    <2>4. RowOwes(d)' \in Nat /\ RowOwes(d)' <= RowOwes(d) + Size(a, Budget(d)) + 1
      <3>1. CASE HasRow(d) /\ row[d].status = "pending" /\ Held(d) /\ ~Held(d)'
        <4>1. InFlight(w, d) /\ a.attempts = row[d].attempts
          BY <1>4, <3>1 DEF DeliveryInv, HolderKnowsTheRow
        <4>2. RowOwes(d)' = Budget(d) - row[d].attempts /\ RowOwes(d) = 0
          BY <1>2, <1>4, <3>1 DEF RowOwes, Budget
        <4> HIDE DEF a
        <4>3. QED
          BY <1>1, <1>5, <2>2, <3>1, <4>1, <4>2
      <3>2. CASE ~(HasRow(d) /\ row[d].status = "pending" /\ Held(d) /\ ~Held(d)')
        <4>1. RowOwes(d)' = RowOwes(d)
          BY <1>2, <1>4, <3>2 DEF RowOwes, Budget
        <4> HIDE DEF a
        <4>2. QED
          BY <1>1, <1>5, <2>3, <4>1
      <3>3. QED
        BY <3>1, <3>2
    <2> DEFINE total == Budget(d) * (1 + retried[d])
    <2>5. total \in Nat
      BY <1>1
    <2>6. SendsAreExplained(d)' <=> sends[d] + Posts(d)' + RowOwes(d)' <= total + crashes'
      BY DEF SendsAreExplained, Same, Budget
    <2> HIDE DEF total, a
    <2>7. sends[d] + Posts(d) + RowOwes(d) <= total + crashes
      BY <2>1 DEF total
    <2>8. sends[d] + Posts(d)' + RowOwes(d)' <= total + (crashes + 1)
      BY <1>1, <1>5, <2>3, <2>4, <2>5, <2>7
    <2>9. QED
      BY <2>6, <2>8
  <1>12. InFlightIsPending(d)'
    <2>1. Flight(At(d))' # {} => Flight(At(d)) # {}
      BY <1>3, Numbers DEF Flight, At, InFlight, Flying
    <2>2. QED
      BY <1>2, <1>4, <2>1 DEF DeliveryInv, InFlightIsPending, Same
  <1>13. AcceptedIsRecorded(d)'
    BY <1>1 DEF AcceptedIsRecorded
  <1>14. QED
    BY <1>6, <1>7, <1>8, <1>9, <1>10, <1>11, <1>12, <1>13 DEF DeliveryInv

\* Before its creation nothing is counted of a delivery.
LEMMA NothingCounted ==
    ASSUME TypeInv, NEW d \in Deliveries, DeliveryInv(d), ~Created(d)
    PROVE  /\ ~HasRow(d) /\ \A w \in Senders : attempt[w][d] = NoAttempt
           /\ sends[d] = 0 /\ retried[d] = 0 /\ d \notin accepted
           /\ Flights(d) = 0 /\ Posts(d) = 0 /\ Flight(At(d)) = {}
  <1>1. /\ ~HasRow(d) /\ \A w \in Senders : attempt[w][d] = NoAttempt
        /\ sends[d] = 0 /\ retried[d] = 0 /\ d \notin accepted
    BY DEF DeliveryInv, NothingBeforeCreation
  <1>2. \A w \in Senders : ~Flying(At(d)[w])
    BY <1>1 DEF At, Flying, NoAttempt
  <1>3. Flight(At(d)) = {} /\ Owed(At(d), Budget(d)) = {}
    BY <1>2 DEF Flight, Owed, Left
  <1>4. QED
    BY <1>1, <1>3, FS_EmptySet DEF Flights, Posts

\* sendTest: the row and the attempt that holds it.
LEMMA TestMove ==
    ASSUME TypeInv, TypeInv', NEW d \in Deliveries, DeliveryInv(d), Same(d),
           ~Created(d), Created(d)', stamps' = stamps, crashes' = crashes,
           NEW w \in Senders, NEW a, NEW r, Moves(w, d, a, r),
           a.pc = "send", a.attempts = 0, a.next = 0, a # NoAttempt,
           r # NoRow, r.status = "pending", r.attempts = 0, r.next = 0, r.due = FALSE
    PROVE  DeliveryInv(d)'
  <1>1. /\ ~HasRow(d) /\ \A v \in Senders : attempt[v][d] = NoAttempt
        /\ sends[d] = 0 /\ retried[d] = 0 /\ d \notin accepted
        /\ Flights(d) = 0 /\ Posts(d) = 0
    BY NothingCounted
  <1>2. /\ attempt'[w][d] = a /\ row'[d] = r /\ Flying(a) /\ ~Flying(NoAttempt)
        /\ \A v \in Senders \ {w} : attempt'[v][d] = NoAttempt
    BY <1>1 DEF Moves, Flying, NoAttempt
  <1>3. /\ HasRow(d)' /\ Held(d)'
        /\ \A v \in Senders : InFlight(v, d)' <=> v = w
    BY <1>2 DEF HasRow, Held, InFlight, Flying
  <1>4. stamps \in Nat /\ crashes \in Nat /\ Budget(d) \in Nat
    BY Numbers
  <1>5. Flights(d)' = 1 /\ Posts(d)' = Budget(d)
    <2>1. /\ One(a) = 1 /\ One(NoAttempt) = 0
          /\ Size(a, Budget(d)) = Budget(d) /\ Size(NoAttempt, Budget(d)) = 0
      BY <1>2, <1>4 DEF One, Size, NoAttempt
    <2>2. /\ Flights(d)' \in Nat /\ Posts(d)' \in Nat
          /\ Flights(d)' + One(attempt[w][d]) = Flights(d) + One(a)
          /\ Posts(d)' + Size(attempt[w][d], Budget(d)) = Posts(d) + Size(a, Budget(d))
      BY MoveCounts
    <2>3. QED
      BY <1>1, <1>4, <2>1, <2>2
  <1>6. NothingBeforeCreation(d)'
    BY DEF NothingBeforeCreation
  <1>7. StampsHandedOut(d)'
    BY <1>2, <1>4 DEF StampsHandedOut
  <1>8. DueIsNotHeld(d)' /\ HolderKnowsTheRow(d)'
    BY <1>2, <1>3 DEF DueIsNotHeld, HolderKnowsTheRow
  <1>9. ClaimsAreStale(d)'
    BY <1>2 DEF ClaimsAreStale, NoAttempt
  <1>10. FlightsAreExplained(d)'
    BY <1>1, <1>3, <1>5 DEF FlightsAreExplained, Same
  <1>11. SendsAreExplained(d)'
    <2>1. RowOwes(d)' = 0
      BY <1>3 DEF RowOwes
    <2>2. 0 + Budget(d) + 0 <= Budget(d) * (1 + 0) + crashes
      BY <1>4
    <2>3. QED
      BY <1>1, <1>5, <2>1, <2>2 DEF SendsAreExplained, Same, Budget
  <1>12. InFlightIsPending(d)' /\ AcceptedIsRecorded(d)'
    BY <1>1, <1>2 DEF InFlightIsPending, AcceptedIsRecorded, Same
  <1>13. QED
    BY <1>6, <1>7, <1>8, <1>9, <1>10, <1>11, <1>12 DEF DeliveryInv

\* The attempts at d are left alone: what is in flight and owed stays so.
LEMMA RowMoveCounts ==
    ASSUME TypeInv, NEW d \in Deliveries, \A w \in Senders : attempt'[w][d] = attempt[w][d]
    PROVE  /\ At(d)' = At(d)
           /\ Flights(d)' = Flights(d) /\ Posts(d)' = Posts(d)
           /\ \A w \in Senders : InFlight(w, d)' <=> InFlight(w, d)
  BY DEF At, Flights, Posts, InFlight, Budget

\* createMany: the row of an event is born due, with the whole budget.
LEMMA CreateMove ==
    ASSUME TypeInv, TypeInv', NEW d \in Deliveries, DeliveryInv(d), Same(d),
           ~Created(d), Created(d)', stamps' = stamps, crashes' = crashes,
           \A w \in Senders : attempt'[w][d] = attempt[w][d],
           row'[d] = [status |-> "pending", attempts |-> 0, next |-> 0, due |-> TRUE]
    PROVE  DeliveryInv(d)'
  <1>1. /\ \A v \in Senders : attempt'[v][d] = NoAttempt /\ ~InFlight(v, d)'
        /\ sends[d] = 0 /\ retried[d] = 0 /\ d \notin accepted
        /\ Flights(d)' = 0 /\ Posts(d)' = 0
    <2>1. \A v \in Senders : attempt[v][d] = NoAttempt /\ ~InFlight(v, d)
      BY NothingCounted DEF InFlight, NoAttempt
    <2>2. QED
      BY <2>1, NothingCounted, RowMoveCounts
  <1>2. stamps \in Nat /\ crashes \in Nat /\ Budget(d) \in Nat
    BY Numbers
  <1>3. HasRow(d)' /\ ~Held(d)' /\ row'[d].attempts = 0 /\ row'[d].next = 0
        /\ row'[d].status = "pending"
    BY <1>1 DEF HasRow, Held, NoRow
  <1>4. NothingBeforeCreation(d)'
    BY DEF NothingBeforeCreation
  <1>5. StampsHandedOut(d)'
    BY <1>1, <1>2, <1>3 DEF StampsHandedOut
  <1>6. DueIsNotHeld(d)' /\ HolderKnowsTheRow(d)' /\ ClaimsAreStale(d)'
    BY <1>1, <1>3 DEF DueIsNotHeld, HolderKnowsTheRow, ClaimsAreStale
  <1>7. FlightsAreExplained(d)'
    BY <1>1, <1>3 DEF FlightsAreExplained, Same
  <1>8. SendsAreExplained(d)'
    <2>1. RowOwes(d)' = Budget(d)
      BY <1>2, <1>3 DEF RowOwes, Budget
    <2>2. 0 + 0 + Budget(d) <= Budget(d) * (1 + 0) + crashes
      BY <1>2
    <2>3. QED
      BY <1>1, <2>1, <2>2 DEF SendsAreExplained, Same, Budget
  <1>9. InFlightIsPending(d)' /\ AcceptedIsRecorded(d)'
    BY <1>1, <1>3 DEF InFlightIsPending, AcceptedIsRecorded, Same
  <1>10. QED
    BY <1>4, <1>5, <1>6, <1>7, <1>8, <1>9 DEF DeliveryInv

\* The row is removed: what is in flight is on its own.
LEMMA RemoveMove ==
    ASSUME TypeInv, TypeInv', NEW d \in Deliveries, DeliveryInv(d), Same(d),
           Created(d) => Created(d)', stamps' = stamps, crashes' = crashes,
           \A w \in Senders : attempt'[w][d] = attempt[w][d], row'[d] = NoRow
    PROVE  DeliveryInv(d)'
  <1>1. /\ \A w \in Senders : InFlight(w, d)' <=> InFlight(w, d)
        /\ Flights(d)' = Flights(d) /\ Posts(d)' = Posts(d) /\ ~HasRow(d)'
    BY RowMoveCounts DEF HasRow
  <1>2. /\ stamps \in Nat /\ crashes \in Nat /\ Budget(d) \in Nat
        /\ retried[d] \in Nat /\ sends[d] \in Nat
        /\ Flights(d) \in Nat /\ Posts(d) \in Nat
    BY Numbers
  <1>3. NothingBeforeCreation(d)' /\ StampsHandedOut(d)'
    BY <1>1 DEF DeliveryInv, NothingBeforeCreation, StampsHandedOut, Same
  <1>4. DueIsNotHeld(d)' /\ HolderKnowsTheRow(d)' /\ ClaimsAreStale(d)'
    BY <1>1 DEF DeliveryInv, DueIsNotHeld, HolderKnowsTheRow, ClaimsAreStale
  <1>5. FlightsAreExplained(d)'
    <2>1. Flights(d) <= retried[d] + 1
      BY <1>2 DEF DeliveryInv, FlightsAreExplained
    <2>2. QED
      BY <1>1, <2>1 DEF FlightsAreExplained, Same
  <1>6. SendsAreExplained(d)'
    <2>1. RowOwes(d)' = 0
      BY <1>1 DEF RowOwes
    <2>2. RowOwes(d) \in Nat
      <3>1. HasRow(d) /\ row[d].status = "pending" => row[d].attempts \in Nat /\ row[d].attempts < Budget(d)
        BY Numbers DEF TypeInv, AttemptsInBudget
      <3>2. QED
        BY <1>2, <3>1 DEF RowOwes
    <2>3. sends[d] + Posts(d) + RowOwes(d) <= Budget(d) * (1 + retried[d]) + crashes
      BY DEF DeliveryInv, SendsAreExplained
    <2> DEFINE total == Budget(d) * (1 + retried[d]) + crashes
    <2>4. total \in Nat /\ sends[d] + Posts(d) + RowOwes(d) <= total
      BY <1>2, <2>3
    <2>5. SendsAreExplained(d)' <=> sends[d] + Posts(d) + 0 <= total
      BY <1>1, <2>1 DEF SendsAreExplained, Same, Budget
    <2> HIDE DEF total
    <2>6. sends[d] + Posts(d) + 0 <= total
      BY <1>2, <2>2, <2>4
    <2>7. QED
      BY <2>5, <2>6
  <1>7. InFlightIsPending(d)' /\ AcceptedIsRecorded(d)'
    BY <1>1 DEF InFlightIsPending, AcceptedIsRecorded
  <1>8. QED
    BY <1>3, <1>4, <1>5, <1>6, <1>7 DEF DeliveryInv

\* The nextAttemptAt passes while no attempt in flight holds the row.
LEMMA DueMove ==
    ASSUME TypeInv, TypeInv', NEW d \in Deliveries, DeliveryInv(d), Same(d),
           Created(d) => Created(d)', stamps' = stamps, crashes' = crashes,
           \A w \in Senders : attempt'[w][d] = attempt[w][d],
           HasRow(d), ~Held(d), NEW r, row'[d] = r, r # NoRow,
           r.status = row[d].status, r.attempts = row[d].attempts, r.next = row[d].next
    PROVE  DeliveryInv(d)'
  <1>1. /\ \A w \in Senders : InFlight(w, d)' <=> InFlight(w, d)
        /\ Flights(d)' = Flights(d) /\ Posts(d)' = Posts(d) /\ At(d)' = At(d)
    BY RowMoveCounts
  <1>2. HasRow(d)' /\ ~Held(d)'
    BY <1>1 DEF HasRow, Held
  <1>3. RowOwes(d)' = RowOwes(d)
    BY <1>2 DEF RowOwes, Budget
  <1>4. NothingBeforeCreation(d)' /\ StampsHandedOut(d)'
    BY <1>2 DEF DeliveryInv, NothingBeforeCreation, StampsHandedOut
  <1>5. DueIsNotHeld(d)' /\ HolderKnowsTheRow(d)' /\ ClaimsAreStale(d)'
    BY <1>1, <1>2 DEF DeliveryInv, DueIsNotHeld, HolderKnowsTheRow, ClaimsAreStale, Held
  <1>6. FlightsAreExplained(d)' /\ SendsAreExplained(d)'
    BY <1>1, <1>2, <1>3 DEF DeliveryInv, FlightsAreExplained, SendsAreExplained, Same, Budget
  <1>7. InFlightIsPending(d)' /\ AcceptedIsRecorded(d)'
    BY <1>1, <1>2 DEF DeliveryInv, InFlightIsPending, AcceptedIsRecorded, Same
  <1>8. QED
    BY <1>4, <1>5, <1>6, <1>7 DEF DeliveryInv

\* A manual retry: a new budget, under a stamp nobody holds.
LEMMA RetryMove ==
    ASSUME TypeInv, TypeInv', NEW d \in Deliveries, DeliveryInv(d),
           retried'[d] = retried[d] + 1, sends'[d] = sends[d],
           Created(d) => Created(d)', stamps' = stamps + 1, crashes' = crashes,
           \A w \in Senders : attempt'[w][d] = attempt[w][d], HasRow(d),
           row'[d] = [status |-> "pending", attempts |-> 0, next |-> stamps', due |-> TRUE]
    PROVE  DeliveryInv(d)'
  <1>1. /\ \A w \in Senders : InFlight(w, d)' <=> InFlight(w, d)
        /\ Flights(d)' = Flights(d) /\ Posts(d)' = Posts(d) /\ At(d)' = At(d)
    BY RowMoveCounts
  <1>2. /\ stamps \in Nat /\ crashes \in Nat /\ Budget(d) \in Nat
        /\ retried[d] \in Nat /\ sends[d] \in Nat
        /\ Flights(d) \in Nat /\ Posts(d) \in Nat
    BY Numbers
  <1>3. \A w \in Senders : attempt[w][d] # NoAttempt => /\ attempt[w][d].next \in Nat
                                                        /\ attempt[w][d].next <= stamps
    BY Numbers DEF DeliveryInv, StampsHandedOut
  <1>4. /\ HasRow(d)' /\ row'[d].status = "pending" /\ row'[d].attempts = 0
        /\ row'[d].next = stamps + 1
    BY DEF HasRow, NoRow
  <1>5. ~Held(d)'
    <2> SUFFICES ASSUME NEW w \in Senders, InFlight(w, d)', attempt'[w][d].next = row'[d].next
                 PROVE  FALSE
      BY DEF Held
    <2>1. attempt[w][d] # NoAttempt
      BY <1>1, Numbers
    <2>2. QED
      BY <1>2, <1>3, <1>4, <2>1
  <1>6. NothingBeforeCreation(d)'
    BY DEF DeliveryInv, NothingBeforeCreation
  <1>7. StampsHandedOut(d)'
    BY <1>2, <1>3, <1>4 DEF StampsHandedOut
  <1>8. DueIsNotHeld(d)' /\ HolderKnowsTheRow(d)' /\ ClaimsAreStale(d)'
    BY <1>1, <1>5 DEF DeliveryInv, DueIsNotHeld, HolderKnowsTheRow, ClaimsAreStale, Held
  <1>9. FlightsAreExplained(d)'
    <2>1. Flights(d) <= retried[d] + 1
      BY <1>2 DEF DeliveryInv, FlightsAreExplained
    <2>2. QED
      BY <1>1, <1>2, <1>4, <1>5, <2>1 DEF FlightsAreExplained
  <1>10. SendsAreExplained(d)'
    <2>1. RowOwes(d)' = Budget(d)
      BY <1>2, <1>4, <1>5 DEF RowOwes, Budget
    <2>2. RowOwes(d) \in Nat
      <3>1. HasRow(d) /\ row[d].status = "pending" => row[d].attempts \in Nat /\ row[d].attempts < Budget(d)
        BY Numbers DEF TypeInv, AttemptsInBudget
      <3>2. QED
        BY <1>2, <3>1 DEF RowOwes
    <2> DEFINE total == Budget(d) * (1 + retried[d])
    <2>3. total \in Nat /\ sends[d] + Posts(d) + RowOwes(d) <= total + crashes
      BY <1>2 DEF DeliveryInv, SendsAreExplained
    <2>4. Budget(d) * (1 + (retried[d] + 1)) = total + Budget(d)
      BY <1>2
    <2>5. SendsAreExplained(d)' <=> sends[d] + Posts(d) + Budget(d) <= (total + Budget(d)) + crashes
      BY <1>1, <2>1, <2>4 DEF SendsAreExplained, Budget
    <2> HIDE DEF total
    <2>6. sends[d] + Posts(d) + Budget(d) <= (total + Budget(d)) + crashes
      BY <1>2, <2>2, <2>3
    <2>7. QED
      BY <2>5, <2>6
  <1>11. InFlightIsPending(d)' /\ AcceptedIsRecorded(d)'
    BY <1>2, <1>4 DEF InFlightIsPending, AcceptedIsRecorded
  <1>12. QED
    BY <1>6, <1>7, <1>8, <1>9, <1>10, <1>11 DEF DeliveryInv

-----------------------------------------------------------------------------
(* The invariant *)

\* A step of sender w at d: what it writes there, and nothing of other deliveries.
LEMMA StepMoves ==
    ASSUME NEW w \in Senders, NEW d \in Deliveries, NEW a, NEW r, StepOf(w, d, a, r)
    PROVE  /\ Moves(w, d, a, r)
           /\ \A e \in Deliveries \ {d} : /\ row'[e] = row[e]
                                          /\ \A v \in Senders : attempt'[v][e] = attempt[v][e]
  BY DEF StepOf, Moves

\* A step that leaves alone every delivery but d.
LEMMA OnlyOne ==
    ASSUME TypeInv, TypeInv', \A e \in Deliveries : DeliveryInv(e),
           NEW d \in Deliveries, DeliveryInv(d)',
           \A e \in Deliveries \ {d} :
              /\ Same(e) /\ Onward(e) /\ row'[e] = row[e]
              /\ \A w \in Senders : attempt'[w][e] = attempt[w][e]
    PROVE  \A e \in Deliveries : DeliveryInv(e)'
  <1> SUFFICES ASSUME NEW e \in Deliveries, e # d PROVE DeliveryInv(e)'
    OBVIOUS
  <1>1. QED
    BY DeliveryFrame

\* Whatever is created stays created.
LEMMA CreatedStays ==
    ASSUME TypeInv, [Next]_vars, NEW d \in Deliveries, Created(d)
    PROVE  Created(d)'
  <1>1. CASE UNCHANGED dispatch /\ tested \subseteq tested'
    BY <1>1 DEF Created
  <1>2. CASE \E v \in Events : DispatchRead(v)
    <2>1. PICK v \in Events : dispatch[v] = NotDispatched /\ UNCHANGED tested
                              /\ \A x \in Events \ {v} : dispatch'[x] = dispatch[x]
      BY <1>2 DEF DispatchRead, TypeInv, TypeOK
    <2>2. QED
      BY <2>1 DEF Created, NotDispatched, Deliveries
  <1>3. CASE \E v \in Events : DispatchCreate(v)
    <2>1. PICK v \in Events : /\ dispatch' = [dispatch EXCEPT ![v].pc = "done"]
                              /\ dispatch[v].pc = "read" /\ UNCHANGED tested
      BY <1>3 DEF DispatchCreate
    <2>2. \A x \in Events \ {v} : dispatch'[x] = dispatch[x]
      BY <2>1 DEF TypeInv, TypeOK
    <2>3. QED
      BY <2>1, <2>2 DEF Created, Deliveries
  <1>4. QED
    <2>1. CASE \E e \in Endpoints : SendTest(e) \/ SwitchEndpoint(e) \/ RemoveEndpoint(e)
      BY <1>1, <2>1 DEF SendTest, SwitchEndpoint, RemoveEndpoint, queue
    <2>2. CASE \E w \in Replicas : Poll(w) \/ \E x \in Deliveries : Claim(w, x)
      BY <1>1, <2>2 DEF Poll, Claim, queue
    <2>3. CASE \E w \in Senders : Crash(w)
      BY <1>1, <2>3 DEF Crash, queue
    <2>6. CASE \E w \in Senders, x \in Deliveries : AttemptStep(w, x)
      <3>1. PICK w \in Senders, x \in Deliveries : AttemptStep(w, x)
        BY <2>6
      <3>2. UNCHANGED <<dispatch, tested>>
        BY <3>1, AttemptEffect
      <3>3. QED
        BY <1>1, <3>2
    <2>4. CASE \E x \in Deliveries : TimePasses(x) \/ RetryCheck(x) \/ RetryApply(x) \/ Cleanup(x)
      BY <1>1, <2>4 DEF TimePasses, RetryCheck, RetryApply, Cleanup, queue
    <2>5. CASE UNCHANGED vars
      BY <1>1, <2>5 DEF vars, queue
    <2>7. QED
      BY <1>2, <1>3, <2>1, <2>2, <2>3, <2>4, <2>5, <2>6 DEF Next

\* While attempts end within their lease, every step keeps what is known of every delivery.
LEMMA NextInv == ~SlowReceivers /\ WebhookInv /\ [Next]_vars => WebhookInv'
  <1> SUFFICES ASSUME ~SlowReceivers, WebhookInv, [Next]_vars PROVE WebhookInv'
    OBVIOUS
  <1> USE DEF managers, receiver, queue
  <1>1. /\ TypeInv /\ TypeInv' /\ TypeOK
        /\ \A d \in Deliveries : DeliveryInv(d)
        /\ \A d \in Deliveries : Created(d) => Created(d)'
    BY NextTypeInv, CreatedStays DEF WebhookInv, TypeInv
  <1>2. /\ stamps \in Nat /\ crashes \in Nat
        /\ row \in [Deliveries -> Row] /\ sends \in [Deliveries -> Nat]
        /\ attempt \in [Senders -> [Deliveries -> Attempt]]
        /\ retried \in [Deliveries -> 0..MaxRetries]
    BY <1>1, WebhookAssumption DEF TypeOK
  <1> SUFFICES \A d \in Deliveries : DeliveryInv(d)'
    BY <1>1 DEF WebhookInv
  <1>3. ASSUME UNCHANGED <<row, attempt, retried, stamps, sends, accepted, crashes>>
        PROVE  \A d \in Deliveries : DeliveryInv(d)'
    <2> SUFFICES ASSUME NEW d \in Deliveries PROVE DeliveryInv(d)'
      OBVIOUS
    <2>1. Same(d) /\ Onward(d)
      BY <1>1, <1>2, <1>3 DEF Same, Onward
    <2>2. QED
      BY <1>1, <1>3, <2>1, DeliveryFrame
  <1>4. ASSUME NEW d \in Deliveries,
               \A e \in Deliveries \ {d} : /\ row'[e] = row[e]
                                           /\ \A w \in Senders : attempt'[w][e] = attempt[w][e]
                                           /\ Same(e),
               stamps <= stamps', crashes <= crashes', DeliveryInv(d)'
        PROVE  \A e \in Deliveries : DeliveryInv(e)'
    <2>1. \A e \in Deliveries : Onward(e)
      BY <1>1, <1>4 DEF Onward
    <2>2. QED
      BY <1>1, <1>4, <2>1, OnlyOne
  <1>5. ASSUME NEW v \in Events, DispatchRead(v) PROVE \A d \in Deliveries : DeliveryInv(d)'
    BY <1>3, <1>5 DEF DispatchRead
  <1>6. ASSUME NEW v \in Events, DispatchCreate(v) PROVE \A d \in Deliveries : DeliveryInv(d)'
    <2> SUFFICES ASSUME NEW d \in Deliveries PROVE DeliveryInv(d)'
      OBVIOUS
    <2>1. /\ UNCHANGED <<attempt, retried, stamps, sends, accepted, crashes>>
          /\ dispatch[v].pc = "read" /\ dispatch' = [dispatch EXCEPT ![v].pc = "done"]
      BY <1>6 DEF DispatchCreate
    <2>2. Same(d) /\ Onward(d)
      BY <1>1, <1>2, <2>1 DEF Same, Onward
    <2>3. CASE row'[d] = row[d]
      BY <1>1, <2>1, <2>2, <2>3, DeliveryFrame
    <2>4. CASE row'[d] # row[d]
      <3>1. /\ d[2] = v
            /\ row'[d] = [status |-> "pending", attempts |-> 0, next |-> 0, due |-> TRUE]
        BY <1>2, <1>6, <2>4 DEF DispatchCreate
      <3>2. d[2] # TestEvent
        BY <3>1, WebhookAssumption
      <3>3. ~Created(d)
        BY <2>1, <3>1, <3>2 DEF Created
      <3>4. dispatch'[v].pc = "done"
        <4>1. dispatch[v] \in [pc : {"read", "done"}, to : SUBSET Endpoints]
          BY <1>1, <2>1 DEF TypeOK, NotDispatched
        <4>2. QED
          BY <1>1, <2>1, <4>1 DEF TypeOK
      <3>5. Created(d)'
        BY <3>1, <3>2, <3>4 DEF Created
      <3>6. QED
        BY <1>1, <2>1, <2>2, <3>1, <3>3, <3>5, CreateMove
    <2>5. QED
      BY <2>3, <2>4
  <1>7. ASSUME NEW e \in Endpoints, SendTest(e) PROVE \A d \in Deliveries : DeliveryInv(d)'
    <2> DEFINE d == <<e, TestEvent>>
               r == [status |-> "pending", attempts |-> 0, next |-> 0, due |-> FALSE]
               a(on) == [pc |-> "send", attempts |-> 0, next |-> 0, on |-> on, answer |-> "none"]
    <2>1. /\ d \in Deliveries /\ e \notin tested /\ tested' = tested \cup {e}
          /\ UNCHANGED <<endpoint, dispatch, retrying, retried, stamps, sends, accepted, crashes>>
      BY <1>1, <1>7, SendTestEffect
    <2>2. PICK on \in BOOLEAN : StepOf(Api, d, a(on), r)
      BY <1>1, <1>7, SendTestEffect
    <2>3. ~Created(d) /\ Created(d)'
      BY <2>1 DEF Created
    <2>4. /\ a(on).pc = "send" /\ a(on).attempts = 0 /\ a(on).next = 0 /\ a(on) # NoAttempt
          /\ r # NoRow /\ r.status = "pending" /\ r.attempts = 0 /\ r.next = 0 /\ r.due = FALSE
          /\ Api \in Senders
      BY DEF NoAttempt, NoRow, Senders
    <2> HIDE DEF d, a, r
    <2>5. /\ Moves(Api, d, a(on), r)
          /\ \A x \in Deliveries \ {d} : /\ row'[x] = row[x]
                                         /\ \A v \in Senders : attempt'[v][x] = attempt[v][x]
      BY <2>1, <2>2, <2>4, StepMoves
    <2>6. \A x \in Deliveries : Same(x)
      BY <2>1 DEF Same
    <2>7. DeliveryInv(d)'
      BY <1>1, <2>1, <2>3, <2>4, <2>5, <2>6, TestMove
    <2>8. QED
      BY <1>2, <1>4, <2>1, <2>5, <2>6, <2>7
  <1>8. ASSUME NEW e \in Endpoints, SwitchEndpoint(e) PROVE \A d \in Deliveries : DeliveryInv(d)'
    BY <1>3, <1>8 DEF SwitchEndpoint
  <1>9. ASSUME NEW e \in Endpoints, RemoveEndpoint(e) PROVE \A d \in Deliveries : DeliveryInv(d)'
    <2> SUFFICES ASSUME NEW d \in Deliveries PROVE DeliveryInv(d)'
      OBVIOUS
    <2>1. /\ UNCHANGED <<attempt, dispatch, tested, retried, stamps, sends, accepted, crashes>>
          /\ row'[d] \in {NoRow, row[d]}
      BY <1>9 DEF RemoveEndpoint
    <2>2. Same(d) /\ Onward(d)
      BY <1>1, <1>2, <2>1 DEF Same, Onward
    <2>3. CASE row'[d] = row[d]
      BY <1>1, <2>1, <2>2, <2>3, DeliveryFrame
    <2>4. CASE row'[d] = NoRow
      BY <1>1, <2>1, <2>2, <2>4, RemoveMove
    <2>5. QED
      BY <2>1, <2>3, <2>4
  <1>10. ASSUME NEW w \in Replicas, Poll(w) PROVE \A d \in Deliveries : DeliveryInv(d)'
    <2> SUFFICES ASSUME NEW d \in Deliveries PROVE DeliveryInv(d)'
      OBVIOUS
    <2> DEFINE a == attempt'[w][d]
    <2>1. /\ w \in Senders /\ attempt[w][d] = NoAttempt
          /\ \A v \in Senders \ {w} : attempt'[v][d] = attempt[v][d]
          /\ a = NoAttempt \/ (/\ a.pc = "claim" /\ HasRow(d) /\ row[d].status = "pending"
                               /\ row[d].due /\ a.next = row[d].next)
          /\ UNCHANGED <<row, dispatch, tested, retried, stamps, sends, accepted, crashes>>
      BY <1>1, <1>10, PollEffect
    <2>2. Moves(w, d, a, row[d]) /\ Same(d) /\ ~Flying(attempt[w][d])
      BY <2>1 DEF Moves, Same, Flying, NoAttempt
    <2> HIDE DEF a
    <2>3. QED
      BY <1>1, <2>1, <2>2, RestMove
  <1>11. ASSUME NEW w \in Replicas, NEW d \in Deliveries, Claim(w, d)
         PROVE  \A e \in Deliveries : DeliveryInv(e)'
    <2>1. /\ w \in Senders /\ attempt[w][d].pc = "claim" /\ attempt[w][d] # NoAttempt
          /\ UNCHANGED <<endpoint, dispatch, tested, retrying, retried, sends, accepted, crashes>>
      BY <1>1, <1>11, ClaimEffect
    <2>2. \A e \in Deliveries : Same(e)
      BY <2>1 DEF Same
    <2>3. CASE /\ HasRow(d) /\ ClaimMatches(row[d], attempt[w][d])
               /\ stamps' = stamps + 1
               /\ StepOf(w, d, [attempt[w][d] EXCEPT !.pc = "send", !.next = stamps'],
                         [row[d] EXCEPT !.next = stamps', !.due = FALSE])
      <3>1. DeliveryInv(d)'
        BY <1>1, <2>1, <2>2, <2>3, StepMoves, ClaimMove
      <3>2. stamps <= stamps' /\ crashes <= crashes'
        BY <1>2, <2>1, <2>3
      <3>3. QED
        BY <1>4, <2>1, <2>2, <2>3, <3>1, <3>2, StepMoves
    <2>4. CASE stamps' = stamps /\ StepOf(w, d, NoAttempt, row[d])
      <3>1. DeliveryInv(d)'
        BY <1>1, <2>1, <2>2, <2>4, StepMoves, RestMove DEF Flying
      <3>2. stamps <= stamps' /\ crashes <= crashes'
        BY <1>2, <2>1, <2>4
      <3>3. QED
        BY <1>4, <2>1, <2>2, <2>4, <3>1, <3>2, StepMoves
    <2>5. QED
      BY <1>1, <1>11, <2>3, <2>4, ClaimEffect
  <1>12. ASSUME NEW w \in Senders, Crash(w) PROVE \A d \in Deliveries : DeliveryInv(d)'
    <2> SUFFICES ASSUME NEW d \in Deliveries PROVE DeliveryInv(d)'
      OBVIOUS
    <2>1. /\ crashes' = crashes + 1
          /\ attempt' = [attempt EXCEPT ![w] = [x \in Deliveries |-> NoAttempt]]
          /\ UNCHANGED <<row, dispatch, tested, retried, stamps, sends, accepted>>
      BY <1>12 DEF Crash
    <2>2. Moves(w, d, NoAttempt, row[d]) /\ Same(d)
      BY <1>2, <2>1 DEF Moves, Same
    <2>3. QED
      BY <1>1, <2>1, <2>2, CrashMove
  <1>13. ASSUME NEW w \in Senders, NEW d \in Deliveries, AttemptStep(w, d)
         PROVE  \A e \in Deliveries : DeliveryInv(e)'
    <2> DEFINE a == attempt[w][d]
               n == a.attempts + 1
               ended(r) == IF HasRow(d) THEN r ELSE NoRow
    <2>1. /\ Flying(a) /\ n \in 1..MaxAttempts
          /\ UNCHANGED <<dispatch, tested, retrying, retried, crashes>>
      BY <1>1, <1>13, AttemptEffect
    <2>2. HasRow(d) => row[d] \in [status : {"pending", "delivered", "dead"}, attempts : 0..MaxAttempts,
                                   next : Nat, due : BOOLEAN]
      BY <1>2, RowType DEF HasRow
    <2>3. \A outcome \in {"dead", "delivered"} :
            HasRow(d) => /\ Closed(d, outcome, n).status = outcome
                         /\ Closed(d, outcome, n).next = row[d].next
                         /\ Closed(d, outcome, n) # NoRow
      BY <2>2 DEF Closed, NoRow
    <2>4. ASSUME NEW r, StepOf(w, d, NoAttempt, ended(r)), UNCHANGED <<sends, accepted>>,
                 stamps' \in {stamps, stamps + 1},
                 HasRow(d) =>
                    \/ /\ stamps' = stamps
                       /\ r.next = row[d].next /\ r # NoRow
                       /\ \/ r.status = "delivered"
                          \/ r.status = "dead" /\ ~(a.pc = "record" /\ a.answer = "2xx")
                    \/ /\ stamps' = stamps + 1
                       /\ a.pc = "record" /\ a.answer # "2xx" /\ r = Requeued(n, stamps')
          PROVE  \A e \in Deliveries : DeliveryInv(e)'
      <3>1. \A e \in Deliveries : Same(e)
        BY <2>1, <2>4 DEF Same
      <3>2. Moves(w, d, NoAttempt, ended(r))
        BY <2>4, StepMoves
      <3>3. ~HasRow(d) => ended(r) = NoRow
        OBVIOUS
      <3>4. HasRow(d) => ended(r) = r
        OBVIOUS
      <3> HIDE DEF ended
      <3>5. DeliveryInv(d)'
        BY <1>1, <2>1, <2>4, <3>1, <3>2, <3>3, <3>4, EndMove
      <3>6. stamps <= stamps' /\ crashes <= crashes'
        BY <1>2, <2>1, <2>4
      <3>7. \A e \in Deliveries \ {d} : /\ row'[e] = row[e]
                                        /\ \A v \in Senders : attempt'[v][e] = attempt[v][e]
        BY <2>4, StepMoves
      <3>8. QED
        BY <1>4, <3>1, <3>5, <3>6, <3>7
    <2>5. CASE /\ \/ a.pc = "send"
                  \/ a.pc = "record" /\ a.answer = "410"
                  \/ a.pc = "record" /\ a.answer = "error" /\ Exhausted(d, n)
               /\ StepOf(w, d, NoAttempt, ended(Closed(d, "dead", n)))
               /\ UNCHANGED <<stamps, sends, accepted>>
      BY <2>3, <2>4, <2>5
    <2>6. CASE /\ a.pc = "record" /\ a.answer = "2xx"
               /\ StepOf(w, d, NoAttempt, ended(Closed(d, "delivered", n)))
               /\ UNCHANGED <<stamps, sends, accepted>>
      BY <2>3, <2>4, <2>6
    <2>7. CASE /\ a.pc = "record" /\ a.answer = "error" /\ ~Exhausted(d, n)
               /\ stamps' = stamps + 1
               /\ StepOf(w, d, NoAttempt, ended(Requeued(n, stamps')))
               /\ UNCHANGED <<sends, accepted>>
      BY <2>4, <2>7
    <2>8. CASE /\ a.pc = "send"
               /\ sends' = [sends EXCEPT ![d] = @ + 1]
               /\ \E answer \in {"2xx", "410", "error"} :
                     /\ accepted' = IF answer = "2xx" THEN accepted \cup {d} ELSE accepted
                     /\ StepOf(w, d, [a EXCEPT !.pc = "record", !.answer = answer], row[d])
               /\ UNCHANGED stamps
      <3>1. PICK answer \in {"2xx", "410", "error"} :
              /\ accepted' = IF answer = "2xx" THEN accepted \cup {d} ELSE accepted
              /\ StepOf(w, d, [a EXCEPT !.pc = "record", !.answer = answer], row[d])
        BY <2>8
      <3>2. sends'[d] = sends[d] + 1 /\ \A e \in Deliveries \ {d} : Same(e)
        BY <1>2, <2>1, <2>8, <3>1 DEF Same
      <3>3. d \in accepted' <=> d \in accepted \/ answer = "2xx"
        BY <3>1
      <3>4. DeliveryInv(d)'
        BY <1>1, <2>1, <2>8, <3>1, <3>2, <3>3, StepMoves, PostMove
      <3>5. stamps <= stamps' /\ crashes <= crashes'
        BY <1>2, <2>1, <2>8
      <3>6. \A e \in Deliveries \ {d} : /\ row'[e] = row[e]
                                        /\ \A v \in Senders : attempt'[v][e] = attempt[v][e]
        BY <3>1, StepMoves
      <3>7. QED
        BY <1>4, <3>2, <3>4, <3>5, <3>6
    <2>9. QED
      BY <1>1, <1>13, <2>5, <2>6, <2>7, <2>8, AttemptEffect
  <1>14. ASSUME NEW d \in Deliveries, TimePasses(d) PROVE \A e \in Deliveries : DeliveryInv(e)'
    <2>1. /\ HasRow(d) /\ row' = [row EXCEPT ![d].due = TRUE]
          /\ UNCHANGED <<attempt, dispatch, tested, retried, stamps, sends, accepted, crashes>>
          /\ ~Held(d)
      BY <1>14 DEF TimePasses, Held
    <2> DEFINE r == [row[d] EXCEPT !.due = TRUE]
    <2>2. row[d] \in [status : {"pending", "delivered", "dead"}, attempts : 0..MaxAttempts,
                      next : Nat, due : BOOLEAN]
      BY <1>2, <2>1, RowType DEF HasRow
    <2>3. r # NoRow /\ r.status = row[d].status /\ r.attempts = row[d].attempts
          /\ r.next = row[d].next
      BY <2>2 DEF NoRow
    <2>4. row' = [row EXCEPT ![d] = r]
      BY <1>2, <2>1
    <2> HIDE DEF r
    <2>5. row'[d] = r /\ \A e \in Deliveries \ {d} : row'[e] = row[e]
      BY <1>2, <2>4
    <2>6. \A e \in Deliveries : Same(e)
      BY <2>1 DEF Same
    <2>7. DeliveryInv(d)'
      BY <1>1, <2>1, <2>3, <2>5, <2>6, DueMove
    <2>8. QED
      BY <1>2, <1>4, <2>1, <2>5, <2>6, <2>7
  <1>15. ASSUME NEW d \in Deliveries, RetryCheck(d) PROVE \A e \in Deliveries : DeliveryInv(e)'
    BY <1>3, <1>15 DEF RetryCheck
  <1>16. ASSUME NEW d \in Deliveries, RetryApply(d) PROVE \A e \in Deliveries : DeliveryInv(e)'
    <2>1. CASE ~HasRow(d)
      BY <1>3, <1>16, <2>1 DEF RetryApply
    <2>2. CASE HasRow(d)
      <3> DEFINE r == [status |-> "pending", attempts |-> 0, next |-> stamps', due |-> TRUE]
      <3>1. /\ stamps' = stamps + 1 /\ row' = [row EXCEPT ![d] = r]
            /\ retried' = [retried EXCEPT ![d] = @ + 1]
            /\ UNCHANGED <<attempt, dispatch, tested, sends, accepted, crashes>>
        BY <1>16, <2>2 DEF RetryApply
      <3> HIDE DEF r
      <3>2. /\ row'[d] = r /\ retried'[d] = retried[d] + 1
            /\ \A e \in Deliveries \ {d} : row'[e] = row[e] /\ Same(e)
        BY <1>2, <3>1 DEF Same
      <3>3. DeliveryInv(d)'
        BY <1>1, <2>2, <3>1, <3>2, RetryMove DEF r
      <3>4. stamps <= stamps' /\ crashes <= crashes'
        BY <1>2, <3>1
      <3>5. QED
        BY <1>4, <3>1, <3>2, <3>3, <3>4
    <2>3. QED
      BY <2>1, <2>2
  <1>17. ASSUME NEW d \in Deliveries, Cleanup(d) PROVE \A e \in Deliveries : DeliveryInv(e)'
    <2>1. /\ row' = [row EXCEPT ![d] = NoRow]
          /\ UNCHANGED <<attempt, dispatch, tested, retried, stamps, sends, accepted, crashes>>
      BY <1>17 DEF Cleanup
    <2>2. row'[d] = NoRow /\ \A e \in Deliveries \ {d} : row'[e] = row[e]
      BY <1>2, <2>1
    <2>3. \A e \in Deliveries : Same(e)
      BY <2>1 DEF Same
    <2>4. DeliveryInv(d)'
      BY <1>1, <2>1, <2>2, <2>3, RemoveMove
    <2>5. QED
      BY <1>2, <1>4, <2>1, <2>2, <2>3, <2>4
  <1>18. CASE UNCHANGED vars
    BY <1>3, <1>18 DEF vars
  <1>19. QED
    BY <1>5, <1>6, <1>7, <1>8, <1>9, <1>10, <1>11, <1>12, <1>13, <1>14, <1>15, <1>16, <1>17, <1>18
       DEF Next

\* Nothing is queued at the start.
LEMMA InitInv == Init => WebhookInv
  <1> SUFFICES ASSUME Init PROVE WebhookInv
    OBVIOUS
  <1>1. TypeInv
    BY InitTypeInv
  <1>2. ASSUME NEW d \in Deliveries PROVE DeliveryInv(d)
    <2>1. /\ ~HasRow(d) /\ \A w \in Senders : attempt[w][d] = NoAttempt
          /\ sends[d] = 0 /\ retried[d] = 0 /\ d \notin accepted /\ crashes = 0 /\ stamps = 0
      BY DEF Init, HasRow
    <2>2. \A w \in Senders : ~Flying(At(d)[w])
      BY <2>1 DEF At, Flying, NoAttempt
    <2>3. Flight(At(d)) = {} /\ Owed(At(d), Budget(d)) = {}
      BY <2>2 DEF Flight, Owed, Left
    <2>4. Flights(d) = 0 /\ Posts(d) = 0 /\ RowOwes(d) = 0
      BY <2>1, <2>3, FS_EmptySet DEF Flights, Posts, RowOwes
    <2>5. Budget(d) \in Nat
      BY BudgetType
    <2>6. NothingBeforeCreation(d) /\ StampsHandedOut(d) /\ DueIsNotHeld(d) /\ HolderKnowsTheRow(d)
      BY <2>1 DEF NothingBeforeCreation, StampsHandedOut, DueIsNotHeld, HolderKnowsTheRow
    <2>7. ClaimsAreStale(d)
      BY <2>1 DEF ClaimsAreStale, NoAttempt
    <2>8. FlightsAreExplained(d)
      BY <2>1, <2>4 DEF FlightsAreExplained
    <2>9. SendsAreExplained(d)
      <3>1. 0 + 0 + 0 <= Budget(d) * (1 + 0) + 0
        BY <2>5
      <3>2. QED
        BY <2>1, <2>4, <3>1 DEF SendsAreExplained
    <2>10. InFlightIsPending(d) /\ AcceptedIsRecorded(d)
      BY <2>1 DEF InFlightIsPending, AcceptedIsRecorded
    <2>11. QED
      BY <2>6, <2>7, <2>8, <2>9, <2>10 DEF DeliveryInv
  <1>3. QED
    BY <1>1, <1>2 DEF WebhookInv

-----------------------------------------------------------------------------
(* The theorems *)

\* Every reachable state is well typed, and no row or attempt has more attempts than the
\* limit, however slow the receivers are.
THEOREM TypeCorrect == Spec => []TypeOK
  <1>1. TypeInv => TypeOK
    BY DEF TypeInv
  <1>2. QED
    BY <1>1, InitTypeInv, NextTypeInv, PTL DEF Spec

\* The inductive invariant holds as long as attempts end within their lease.
THEOREM InvariantHolds ==
    ASSUME ~SlowReceivers
    PROVE  Spec => []WebhookInv
  <1>1. Init => WebhookInv
    BY InitInv
  <1>2. WebhookInv /\ [Next]_vars => WebhookInv'
    BY NextInv
  <1>3. QED
    BY <1>1, <1>2, PTL DEF Spec

\* Two replicas polling the same table never have a delivery in flight twice, but for one
\* attempt each manual retry leaves behind (webhook-delivery.worker.ts).
THEOREM NeverInFlightTwice ==
    ASSUME ~SlowReceivers
    PROVE  Spec => []OneAttemptInFlight
  <1>1. WebhookInv => OneAttemptInFlight
    <2> SUFFICES ASSUME WebhookInv, NEW d \in Deliveries
                 PROVE  Cardinality({w \in Senders : InFlight(w, d)}) <= 1 + retried[d]
      BY DEF OneAttemptInFlight
    <2>1. TypeInv /\ FlightsAreExplained(d)
      BY DEF WebhookInv, DeliveryInv
    <2>2. {w \in Senders : InFlight(w, d)} = Flight(At(d))
      BY DEF InFlight, Flight, Flying, At
    <2>3. Flights(d) \in Nat /\ retried[d] \in Nat
      BY <2>1, Numbers
    <2>4. QED
      BY <2>1, <2>2, <2>3 DEF FlightsAreExplained, Flights
  <1>2. QED
    BY <1>1, InvariantHolds, PTL

\* A receiver never sees a delivery more often than its attempts, its manual retries and the
\* crashes explain, and what it accepted is not reported dead (attemptDelivery).
THEOREM RecordsAgree ==
    ASSUME ~SlowReceivers
    PROVE  Spec => []RecordAgrees
  <1>1. WebhookInv => SendsWithinBudget
    <2> SUFFICES ASSUME WebhookInv, NEW d \in Deliveries
                 PROVE  sends[d] <= Budget(d) * (1 + retried[d]) + crashes
      BY DEF SendsWithinBudget
    <2>1. TypeInv /\ SendsAreExplained(d)
      BY DEF WebhookInv, DeliveryInv
    <2>2. /\ sends[d] \in Nat /\ retried[d] \in Nat /\ Budget(d) \in Nat /\ Posts(d) \in Nat
          /\ crashes \in Nat
      BY <2>1, Numbers
    <2>3. RowOwes(d) \in Nat
      <3>1. HasRow(d) /\ row[d].status = "pending" => row[d].attempts \in Nat /\ row[d].attempts < Budget(d)
        BY <2>1, Numbers DEF TypeInv, AttemptsInBudget
      <3>2. QED
        BY <2>2, <3>1 DEF RowOwes
    <2> DEFINE total == Budget(d) * (1 + retried[d]) + crashes
    <2>4. total \in Nat /\ sends[d] + Posts(d) + RowOwes(d) <= total
      BY <2>1, <2>2 DEF SendsAreExplained
    <2> HIDE DEF total
    <2>5. sends[d] <= total
      BY <2>2, <2>3, <2>4
    <2>6. QED
      BY <2>5 DEF total
  <1>2. WebhookInv => DeadWasNotAccepted
    <2> SUFFICES ASSUME WebhookInv, NEW d \in Deliveries, row[d].status = "dead", d \in accepted,
                        ~(retried[d] > 0), ~(crashes > 0)
                 PROVE  FALSE
      BY DEF DeadWasNotAccepted
    <2>1. TypeInv /\ DeliveryInv(d)
      BY DEF WebhookInv
    <2>2. HasRow(d) /\ retried[d] = 0 /\ crashes = 0
      BY <2>1, Numbers DEF HasRow, NoRow
    <2>3. PICK w \in Senders : attempt[w][d].pc = "record"
      BY <2>1, <2>2 DEF DeliveryInv, AcceptedIsRecorded
    <2>4. row[d].status = "pending"
      BY <2>1, <2>2, <2>3, AloneInFlight DEF InFlight
    <2>5. QED
      BY <2>4
  <1>3. WebhookInv => RecordAgrees
    BY <1>1, <1>2 DEF RecordAgrees
  <1>4. QED
    BY <1>3, InvariantHolds, PTL

\* What a slow receiver breaks holds of fast ones: as long as answers come within the lease,
\* no two replicas have a delivery nobody retried posted at once.
THEOREM FastReceiversSeeOneAtOnce ==
    ASSUME ~SlowReceivers
    PROVE  Spec => []NeverSentTwiceAtOnce
  <1>1. WebhookInv => NeverSentTwiceAtOnce
    <2> SUFFICES ASSUME WebhookInv, NEW d \in Deliveries, retried[d] = 0
                 PROVE  Cardinality({w \in Replicas : Posted(w, d)}) <= 1
      BY DEF NeverSentTwiceAtOnce
    <2>1. TypeInv /\ FlightsAreExplained(d)
      BY DEF WebhookInv, DeliveryInv
    <2>2. {w \in Replicas : Posted(w, d)} \subseteq Flight(At(d))
      BY DEF Posted, Flight, Flying, At, Senders
    <2>3. IsFiniteSet(Flight(At(d)))
      BY SendersFinite, FS_Subset DEF Flight
    <2>4. /\ IsFiniteSet({w \in Replicas : Posted(w, d)})
          /\ Cardinality({w \in Replicas : Posted(w, d)}) <= Flights(d)
      BY <2>2, <2>3, FS_Subset DEF Flights
    <2>5. Flights(d) \in Nat /\ Flights(d) <= 1
      BY <2>1, Numbers DEF FlightsAreExplained
    <2>6. Cardinality({w \in Replicas : Posted(w, d)}) \in Nat
      BY <2>4, FS_CardinalityType
    <2>7. QED
      BY <2>4, <2>5, <2>6
  <1>2. QED
    BY <1>1, InvariantHolds, PTL

-----------------------------------------------------------------------------
(* The status e-mails: the inductive invariant *)

OutboxRow == [status : {"pending", "processing", "sent", "failed"},
              attempts : 0..MaxSends, to : Statuses, was : Statuses]
UpdateState == {NoUpdate} \cup [pc : {"write"}, seen : Statuses, to : Statuses]
Batched == [pc : {"take", "send", "sent", "failed"}, row : Rows,
            attempts : 0..MaxSends, rest : SUBSET Item]
WorkerState == {IdleWorker} \cup Batched

\* An update under way has room for its row.
Busy == {a \in Agents : update[a] # NoUpdate}
RoomForUpdates == IsFiniteSet(Busy) /\ Len(outbox) + Cardinality(Busy) <= MaxEmails

\* The attempts of a row are sends of it that threw, and a pending row has some left.
AttemptsThrew(e) ==
    /\ outbox[e].attempts <= refused[e]
    /\ outbox[e].status = "pending" => outbox[e].attempts < MaxSends
    /\ outbox[e].status = "failed" => refused[e] >= MaxSends

\* What a poll read was so when it was read, and can only have become less than the truth.
ItemHolds(i) == i.row \in QueuedRows /\ i.attempts < MaxSends /\ i.attempts <= refused[i.row]

\* The same of the row a worker is at, whose last send it has seen throw.
WorkerHolds(w) ==
    worker[w] # IdleWorker =>
        /\ ItemHolds([row |-> worker[w].row, attempts |-> worker[w].attempts])
        /\ worker[w].pc = "failed" => worker[w].attempts + 1 <= refused[worker[w].row]
        /\ \A i \in worker[w].rest : ItemHolds(i)

\* A worker that may still send row e, or has yet to write that its send threw.
Holding(x, e) == x.pc \in {"send", "failed"} /\ x.row = e
Holders(e) == {w \in Pollers : Holding(worker[w], e)}
OneIf(b) == IF b THEN 1 ELSE 0
Waits(e) == e \in QueuedRows /\ outbox[e].status = "pending"

\* Copies sent and copies that may yet be: those held, and one more of a row that waits.
CopiesExplained(e) ==
    /\ IsFiniteSet(Holders(e))
    /\ mailed[e] + Cardinality(Holders(e)) + OneIf(Waits(e)) <= 1 + retaken[e] + faults
    /\ e \notin QueuedRows => mailed[e] = 0

OutboxInv ==
    /\ EmailTypeOK
    /\ RoomForUpdates
    /\ \A e \in QueuedRows : AttemptsThrew(e)
    /\ \A w \in Pollers : WorkerHolds(w)
    /\ \A e \in Rows : CopiesExplained(e)

-----------------------------------------------------------------------------
(* What the steps write *)

\* One row is overwritten.
LEMMA RowChange ==
    ASSUME EmailTypeOK, NEW e \in QueuedRows, NEW r \in OutboxRow, outbox' = [outbox EXCEPT ![e] = r]
    PROVE  /\ outbox' \in Seq(OutboxRow) /\ Len(outbox') = Len(outbox) /\ QueuedRows' = QueuedRows
           /\ outbox'[e] = r
           /\ \A f \in QueuedRows \ {e} : outbox'[f] = outbox[f]
  <1>1. outbox \in Seq(OutboxRow)
    BY DEF EmailTypeOK, OutboxRow
  <1>2. /\ [outbox EXCEPT ![e] = r] \in Seq(OutboxRow)
        /\ Len([outbox EXCEPT ![e] = r]) = Len(outbox)
        /\ \A j \in 1..Len(outbox) :
              [outbox EXCEPT ![e] = r][j] = IF j = e THEN r ELSE outbox[j]
    BY <1>1, ExceptSeq DEF QueuedRows
  <1>3. QED
    BY <1>2 DEF QueuedRows

\* One worker moves.
LEMMA WorkerChange ==
    ASSUME EmailTypeOK, NEW w \in Pollers, NEW x \in WorkerState, worker' = [worker EXCEPT ![w] = x]
    PROVE  /\ worker' \in [Pollers -> WorkerState] /\ worker'[w] = x
           /\ \A v \in Pollers \ {w} : worker'[v] = worker[v]
  <1>1. worker \in [Pollers -> WorkerState]
    BY DEF EmailTypeOK, WorkerState, Batched
  <1>2. QED
    BY <1>1

\* A worker that is at a row stays at it, in its next stage.
LEMMA StageChange ==
    ASSUME EmailTypeOK, NEW w \in Pollers, worker[w].pc # "idle",
           NEW pc \in {"send", "sent", "failed"}, worker' = [worker EXCEPT ![w].pc = pc]
    PROVE  \E x \in Batched :
              /\ worker' = [worker EXCEPT ![w] = x]
              /\ x.pc = pc /\ x.row = worker[w].row /\ x.attempts = worker[w].attempts
              /\ x.rest = worker[w].rest
  <1>1. worker \in [Pollers -> WorkerState]
    BY DEF EmailTypeOK, WorkerState, Batched
  <1>2. worker[w] \in Batched
    BY <1>1 DEF WorkerState, IdleWorker
  <1> DEFINE x == [worker[w] EXCEPT !.pc = pc]
  <1>3. /\ x \in Batched /\ x.pc = pc /\ x.row = worker[w].row
        /\ x.attempts = worker[w].attempts /\ x.rest = worker[w].rest
    BY <1>2 DEF Batched
  <1>4. worker' = [worker EXCEPT ![w] = x]
    BY <1>1
  <1> HIDE DEF x
  <1>5. QED
    BY <1>3, <1>4

\* The turn of the next item of a batch, or the end of the poll.
LEMMA TurnChange ==
    ASSUME NEW w \in Pollers, NEW batch \in SUBSET Item, Turn(w, batch)
    PROVE  \E x \in WorkerState :
              /\ worker' = [worker EXCEPT ![w] = x]
              /\ \/ x = IdleWorker
                 \/ /\ x \in Batched /\ x.pc = "take" /\ x.rest \subseteq batch
                    /\ [row |-> x.row, attempts |-> x.attempts] \in batch
  <1>1. CASE worker' = [worker EXCEPT ![w] = IdleWorker]
    BY <1>1 DEF WorkerState
  <1>2. ASSUME NEW next \in batch,
               worker' = [worker EXCEPT ![w] =
                              [pc |-> "take", row |-> next.row, attempts |-> next.attempts,
                               rest |-> batch \ {next}]]
        PROVE  \E x \in Batched :
                  /\ worker' = [worker EXCEPT ![w] = x]
                  /\ x.pc = "take" /\ x.rest \subseteq batch
                  /\ [row |-> x.row, attempts |-> x.attempts] \in batch
    <2> DEFINE x == [pc |-> "take", row |-> next.row, attempts |-> next.attempts,
                     rest |-> batch \ {next}]
    <2>1. next \in Item /\ next = [row |-> next.row, attempts |-> next.attempts]
      BY DEF Item
    <2>2. x \in Batched /\ x.pc = "take" /\ x.rest \subseteq batch
          /\ x.row = next.row /\ x.attempts = next.attempts
      BY <2>1 DEF Batched, Item
    <2>3. worker' = [worker EXCEPT ![w] = x]
      BY <1>2
    <2> HIDE DEF x
    <2>4. QED
      BY <2>1, <2>2, <2>3
  <1>3. QED
    BY <1>1, <1>2 DEF Turn, WorkerState

\* How the holders of a row follow one worker's move.
LEMMA HoldersMove ==
    ASSUME EmailTypeOK, NEW w \in Pollers, NEW x \in WorkerState, worker' = [worker EXCEPT ![w] = x],
           NEW e \in Rows, IsFiniteSet(Holders(e))
    PROVE  /\ IsFiniteSet(Holders(e)')
           /\ Cardinality(Holders(e)) \in Nat
           /\ Cardinality(Holders(e)') =
                 Cardinality(Holders(e)) + OneIf(Holding(x, e)) - OneIf(Holding(worker[w], e))
  <1>1. worker'[w] = x /\ \A v \in Pollers \ {w} : worker'[v] = worker[v]
    BY WorkerChange
  <1>2. Cardinality(Holders(e)) \in Nat
    BY FS_CardinalityType
  <1>3. w \in Holders(e) <=> Holding(worker[w], e)
    BY DEF Holders
  <1>4. CASE Holding(x, e)
    <2>1. Holders(e)' = Holders(e) \cup {w}
      BY <1>1, <1>4 DEF Holders, Holding
    <2>2. QED
      BY <1>2, <1>3, <1>4, <2>1, FS_AddElement DEF OneIf
  <1>5. CASE ~Holding(x, e)
    <2>1. Holders(e)' = Holders(e) \ {w}
      BY <1>1, <1>5 DEF Holders, Holding
    <2>2. QED
      BY <1>2, <1>3, <1>5, <2>1, FS_RemoveElement DEF OneIf
  <1>6. QED
    BY <1>4, <1>5

-----------------------------------------------------------------------------
(* What stays *)

\* Rows stay queued, and throws are only added.
Grows ==
    /\ QueuedRows \subseteq QueuedRows' /\ QueuedRows \subseteq Rows
    /\ refused \in [Rows -> Nat] /\ refused' \in [Rows -> Nat]
    /\ \A e \in Rows : refused[e] <= refused'[e]

\* Queued rows are rows.
LEMMA QueuedAreRows == EmailTypeOK => QueuedRows \subseteq Rows /\ Len(outbox) \in Nat
  <1> SUFFICES ASSUME EmailTypeOK PROVE QueuedRows \subseteq Rows /\ Len(outbox) \in Nat
    OBVIOUS
  <1>1. Len(outbox) \in Nat /\ Len(outbox) <= MaxEmails /\ MaxEmails \in Nat
    BY EmailAssumption DEF EmailTypeOK
  <1>2. QED
    BY <1>1 DEF QueuedRows, Rows

\* What is below a counter stays below it when it grows.
LEMMA Below == \A a, b, c \in Int : a <= b /\ b <= c => a <= c
  OBVIOUS

\* What was read of a row still holds when throws were added.
LEMMA ItemStays ==
    ASSUME Grows, NEW i, i.attempts \in Int, ItemHolds(i)
    PROVE  ItemHolds(i)'
  <1>1. i.row \in QueuedRows /\ i.row \in QueuedRows' /\ i.row \in Rows
    BY DEF ItemHolds, Grows
  <1>2. refused[i.row] \in Int /\ refused'[i.row] \in Int /\ refused[i.row] <= refused'[i.row]
    BY <1>1 DEF Grows
  <1>3. i.attempts <= refused[i.row] /\ i.attempts < MaxSends
    BY DEF ItemHolds
  <1>4. i.attempts <= refused'[i.row]
    BY <1>2, <1>3, Below
  <1>5. QED
    BY <1>1, <1>3, <1>4 DEF ItemHolds

\* A worker that did not move still holds when throws were added.
LEMMA WorkerStays ==
    ASSUME EmailTypeOK, Grows, NEW v \in Pollers, worker'[v] = worker[v], WorkerHolds(v)
    PROVE  WorkerHolds(v)'
  <1> SUFFICES ASSUME worker[v] # IdleWorker
               PROVE  WorkerHolds(v)'
    BY DEF WorkerHolds
  <1>1. worker[v] \in Batched
    BY DEF EmailTypeOK, Batched
  <1> DEFINE i == [row |-> worker[v].row, attempts |-> worker[v].attempts]
  <1>2. i.attempts \in Int /\ ItemHolds(i)
    BY <1>1, EmailAssumption DEF Batched, WorkerHolds
  <1>3. ItemHolds(i)'
    <2>1. i' = i
      OBVIOUS
    <2>2. i.row = worker[v].row /\ i.attempts = worker[v].attempts
      OBVIOUS
    <2> HIDE DEF i
    <2>3. QED
      BY <1>2, <2>1, ItemStays DEF ItemHolds
  <1>4. worker[v].pc = "failed" => worker[v].attempts + 1 <= refused'[worker[v].row]
    <2> SUFFICES ASSUME worker[v].pc = "failed"
                 PROVE  worker[v].attempts + 1 <= refused'[worker[v].row]
      OBVIOUS
    <2>1. worker[v].row \in Rows /\ worker[v].attempts + 1 \in Int
      BY <1>1, EmailAssumption DEF Batched
    <2>2. worker[v].attempts + 1 <= refused[worker[v].row]
      BY DEF WorkerHolds
    <2>3. /\ refused[worker[v].row] \in Int /\ refused'[worker[v].row] \in Int
          /\ refused[worker[v].row] <= refused'[worker[v].row]
      BY <2>1 DEF Grows
    <2>4. QED
      BY <2>1, <2>2, <2>3, Below
  <1>5. \A j \in worker[v].rest : ItemHolds(j)'
    <2> TAKE j \in worker[v].rest
    <2>1. j.attempts \in Int /\ ItemHolds(j)
      BY <1>1, EmailAssumption DEF Batched, Item, WorkerHolds
    <2>2. QED
      BY <2>1, ItemStays
  <1>6. QED
    BY <1>3, <1>4, <1>5 DEF WorkerHolds

\* A row nobody wrote has attempts that threw still, when throws were added.
LEMMA RowStays ==
    ASSUME EmailTypeOK, Grows, NEW e \in QueuedRows, outbox'[e] = outbox[e], AttemptsThrew(e)
    PROVE  AttemptsThrew(e)'
  <1>1. outbox[e] \in OutboxRow
    <2>1. outbox \in Seq(OutboxRow)
      BY DEF EmailTypeOK, OutboxRow
    <2>2. QED
      BY <2>1, ElementOfSeq DEF QueuedRows
  <1>2. e \in Rows
    BY QueuedAreRows
  <1>3. /\ outbox[e].attempts \in Int /\ refused[e] \in Int /\ refused'[e] \in Int
        /\ MaxSends \in Int /\ refused[e] <= refused'[e]
    BY <1>1, <1>2, EmailAssumption DEF OutboxRow, Grows
  <1>4. outbox[e].attempts <= refused'[e]
    BY <1>3, Below DEF AttemptsThrew
  <1>5. outbox[e].status = "failed" => refused'[e] >= MaxSends
    <2> SUFFICES ASSUME outbox[e].status = "failed" PROVE MaxSends <= refused'[e]
      BY <1>3
    <2>1. MaxSends <= refused[e]
      BY <1>3 DEF AttemptsThrew
    <2>2. QED
      BY <1>3, <2>1, Below
  <1>6. QED
    BY <1>4, <1>5 DEF AttemptsThrew

\* Arithmetic: explained copies stay explained when what is added to them is explained.
LEMMA Balance ==
    \A a, h, o, r, f, a1, h1, o1, r1, f1 \in Int :
        a + h + o <= 1 + r + f /\ a1 + h1 + o1 - r1 - f1 <= a + h + o - r - f
            => a1 + h1 + o1 <= 1 + r1 + f1
  OBVIOUS

\* One worker's move keeps the copies of a row explained when copies, holders and waiting
\* grow no more than what explains them.
LEMMA CopiesStay ==
    ASSUME EmailTypeOK, EmailTypeOK', NEW w \in Pollers, NEW x \in WorkerState,
           worker' = [worker EXCEPT ![w] = x],
           NEW e \in Rows, CopiesExplained(e),
           QueuedRows' = QueuedRows, e \notin QueuedRows => mailed'[e] = mailed[e],
           mailed'[e] + OneIf(Holding(x, e)) + OneIf(Waits(e)') - retaken'[e] - faults'
              <= mailed[e] + OneIf(Holding(worker[w], e)) + OneIf(Waits(e)) - retaken[e] - faults
    PROVE  CopiesExplained(e)'
  <1>1. /\ mailed[e] \in Int /\ mailed'[e] \in Int
        /\ retaken[e] \in Int /\ retaken'[e] \in Int /\ faults \in Int /\ faults' \in Int
    BY EmailAssumption DEF EmailTypeOK
  <1>2. /\ IsFiniteSet(Holders(e)) /\ IsFiniteSet(Holders(e)')
        /\ Cardinality(Holders(e)) \in Nat
        /\ Cardinality(Holders(e)') =
              Cardinality(Holders(e)) + OneIf(Holding(x, e)) - OneIf(Holding(worker[w], e))
    BY HoldersMove DEF CopiesExplained
  <1> DEFINE h == Cardinality(Holders(e))
             hx == OneIf(Holding(x, e))
             hw == OneIf(Holding(worker[w], e))
             o == OneIf(Waits(e))
             ox == OneIf(Waits(e)')
  <1>3. hx \in Int /\ hw \in Int /\ o \in Int /\ ox \in Int
    BY DEF OneIf
  <1>4. mailed[e] + h + o <= 1 + retaken[e] + faults
    BY DEF CopiesExplained
  <1>5. mailed'[e] + hx + ox - retaken'[e] - faults' <= mailed[e] + hw + o - retaken[e] - faults
    OBVIOUS
  <1>6. h \in Int /\ h + hx - hw \in Int
    BY <1>2, <1>3
  <1> HIDE DEF h, hx, hw, o, ox
  <1>7. \A a, b, r, t, f, g, p, q, m, n, k \in Int :
            a + m + p - r - f <= b + n + q - t - g
                => a + (k + m - n) + p - r - f <= b + k + q - t - g
    OBVIOUS
  <1>8. mailed'[e] + (h + hx - hw) + ox - retaken'[e] - faults'
           <= mailed[e] + h + o - retaken[e] - faults
    BY <1>1, <1>3, <1>5, <1>6, <1>7
  <1>9. mailed'[e] + (h + hx - hw) + ox <= 1 + retaken'[e] + faults'
    BY <1>1, <1>3, <1>4, <1>6, <1>8, Balance
  <1>10. IsFiniteSet(Holders(e)') /\ Cardinality(Holders(e)') = h + hx - hw
    BY <1>2 DEF h, hx, hw
  <1>11. e \notin QueuedRows' => mailed'[e] = 0
    BY DEF CopiesExplained
  <1>12. QED
    BY <1>9, <1>10, <1>11 DEF CopiesExplained, ox

-----------------------------------------------------------------------------
(* The worker's steps *)

\* What a worker's step has to show: the rest of the invariant follows.
WorkerStep(w, x) ==
    /\ x \in WorkerState /\ worker' = [worker EXCEPT ![w] = x]
    /\ UNCHANGED <<status, update>>
    /\ outbox' \in Seq(OutboxRow) /\ Len(outbox') = Len(outbox)
    /\ mailed' \in [Rows -> Nat] /\ refused' \in [Rows -> Nat] /\ retaken' \in [Rows -> Nat]
    /\ faults' \in 0..MaxFaults
    /\ \A e \in Rows : refused[e] <= refused'[e]

\* A worker's step keeps the invariant when its row, its worker and the copies are accounted for.
LEMMA WorkerStepKeeps ==
    ASSUME OutboxInv, NEW w \in Pollers, NEW x, WorkerStep(w, x),
           \A e \in QueuedRows : AttemptsThrew(e)',
           WorkerHolds(w)',
           \A e \in Rows :
              /\ e \notin QueuedRows => mailed'[e] = mailed[e]
              /\ mailed'[e] + OneIf(Holding(x, e)) + OneIf(Waits(e)') - retaken'[e] - faults'
                    <= mailed[e] + OneIf(Holding(worker[w], e)) + OneIf(Waits(e))
                          - retaken[e] - faults
    PROVE  OutboxInv'
  <1>1. /\ EmailTypeOK /\ RoomForUpdates /\ \A v \in Pollers : WorkerHolds(v)
        /\ \A e \in Rows : CopiesExplained(e)
    BY DEF OutboxInv
  <1>2. /\ x \in WorkerState /\ worker' = [worker EXCEPT ![w] = x]
        /\ worker' \in [Pollers -> WorkerState]
        /\ \A v \in Pollers \ {w} : worker'[v] = worker[v]
    BY <1>1, WorkerChange DEF WorkerStep
  <1>3. QueuedRows' = QueuedRows /\ Grows
    BY <1>1, QueuedAreRows DEF WorkerStep, QueuedRows, Grows, EmailTypeOK
  <1>4. EmailTypeOK'
    BY <1>1, <1>2 DEF WorkerStep, EmailTypeOK, OutboxRow, WorkerState, Batched
  <1>5. RoomForUpdates'
    BY <1>1 DEF RoomForUpdates, Busy, WorkerStep
  <1>6. \A v \in Pollers : WorkerHolds(v)'
    <2> TAKE v \in Pollers
    <2>1. CASE v = w
      BY <2>1
    <2>2. CASE v # w
      BY <1>1, <1>2, <1>3, <2>2, WorkerStays
    <2>3. QED
      BY <2>1, <2>2
  <1>7. \A e \in Rows : CopiesExplained(e)'
    BY <1>1, <1>2, <1>3, <1>4, CopiesStay
  <1>8. \A e \in QueuedRows' : AttemptsThrew(e)'
    BY <1>3
  <1>9. QED
    BY <1>4, <1>5, <1>6, <1>7, <1>8 DEF OutboxInv

\* Types of the counters, for the steps below.
LEMMA Counters ==
    ASSUME EmailTypeOK
    PROVE  /\ outbox \in Seq(OutboxRow) /\ worker \in [Pollers -> WorkerState]
           /\ mailed \in [Rows -> Nat] /\ refused \in [Rows -> Nat] /\ retaken \in [Rows -> Nat]
           /\ faults \in 0..MaxFaults /\ MaxFaults \in Nat /\ MaxSends \in Nat
           /\ \A e \in QueuedRows : outbox[e] \in OutboxRow
  <1>1. outbox \in Seq(OutboxRow)
    BY DEF EmailTypeOK, OutboxRow
  <1>2. QED
    BY <1>1, ElementOfSeq, EmailAssumption DEF EmailTypeOK, WorkerState, Batched, QueuedRows

\* A step of a worker that is at a row: the row is queued, and what it read of it holds.
LEMMA AtRow ==
    ASSUME OutboxInv, NEW w \in Pollers, worker[w].pc # "idle"
    PROVE  /\ worker[w] \in Batched
           /\ worker[w].row \in QueuedRows /\ worker[w].row \in Rows
           /\ worker[w].attempts \in Nat /\ worker[w].attempts < MaxSends
           /\ worker[w].attempts <= refused[worker[w].row]
           /\ worker[w].pc = "failed" => worker[w].attempts + 1 <= refused[worker[w].row]
           /\ worker[w].rest \in SUBSET Item
           /\ \A i \in worker[w].rest : ItemHolds(i)
  <1>1. EmailTypeOK /\ WorkerHolds(w)
    BY DEF OutboxInv
  <1>2. worker[w] # IdleWorker /\ worker[w] \in WorkerState
    BY <1>1, Counters DEF IdleWorker
  <1>3. worker[w] \in Batched
    BY <1>2 DEF WorkerState
  <1>4. /\ ItemHolds([row |-> worker[w].row, attempts |-> worker[w].attempts])
        /\ worker[w].pc = "failed" => worker[w].attempts + 1 <= refused[worker[w].row]
        /\ \A i \in worker[w].rest : ItemHolds(i)
    BY <1>1, <1>2 DEF WorkerHolds
  <1>5. /\ worker[w].row \in QueuedRows /\ worker[w].attempts < MaxSends
        /\ worker[w].attempts <= refused[worker[w].row]
    BY <1>4 DEF ItemHolds
  <1>6. /\ worker[w].row \in Rows /\ worker[w].attempts \in Nat /\ worker[w].rest \in SUBSET Item
    BY <1>3, EmailAssumption DEF Batched
  <1>7. QED
    BY <1>3, <1>4, <1>5, <1>6

\* After the turn the worker is idle or at an item of the batch.
LEMMA TurnHolds ==
    ASSUME EmailTypeOK, Grows, NEW w \in Pollers, NEW batch \in SUBSET Item, Turn(w, batch),
           \A i \in batch : ItemHolds(i)
    PROVE  \E x \in WorkerState :
              /\ worker' = [worker EXCEPT ![w] = x]
              /\ \A e \in Rows : ~Holding(x, e)
              /\ WorkerHolds(w)'
  <1>1. PICK x \in WorkerState :
           /\ worker' = [worker EXCEPT ![w] = x]
           /\ \/ x = IdleWorker
              \/ /\ x \in Batched /\ x.pc = "take" /\ x.rest \subseteq batch
                 /\ [row |-> x.row, attempts |-> x.attempts] \in batch
    BY TurnChange
  <1>2. worker'[w] = x
    BY <1>1, WorkerChange
  <1>3. \A i \in batch : ItemHolds(i)'
    BY ItemStays, EmailAssumption DEF Item
  <1>4. \A e \in Rows : ~Holding(x, e)
    BY <1>1 DEF Holding, IdleWorker
  <1>5. WorkerHolds(w)'
    <2>1. CASE x = IdleWorker
      BY <1>2, <2>1 DEF WorkerHolds
    <2>2. CASE /\ x \in Batched /\ x.pc = "take" /\ x.rest \subseteq batch
               /\ [row |-> x.row, attempts |-> x.attempts] \in batch
      <3> DEFINE i == [row |-> x.row, attempts |-> x.attempts]
      <3>1. i \in batch
        BY <2>2
      <3>2. ItemHolds(i)'
        BY <1>3, <3>1
      <3>3. \A j \in x.rest : ItemHolds(j)'
        BY <1>3, <2>2
      <3>4. QED
        BY <1>2, <2>2, <3>2, <3>3 DEF WorkerHolds
    <2>3. QED
      BY <1>1, <2>1, <2>2
  <1>6. QED
    BY <1>1, <1>4, <1>5

\* A poll keeps the invariant: what it reads of the pending rows holds.
LEMMA PollKeeps == ASSUME OutboxInv, NEW w \in Pollers, PollOutbox(w) PROVE OutboxInv'
  <1> DEFINE pending == {e \in 1..Len(outbox) : Polled(e)}
             Batch(taken) == {[row |-> e, attempts |-> outbox[e].attempts] : e \in taken}
  <1>1. EmailTypeOK /\ (\A e \in QueuedRows : AttemptsThrew(e)) /\ QueuedRows \subseteq Rows
    BY QueuedAreRows DEF OutboxInv
  <1>2. PICK taken \in SUBSET pending : Turn(w, Batch(taken))
    BY DEF PollOutbox
  <1>3. UNCHANGED <<status, update, outbox, mailed, refused, retaken, faults>>
    BY DEF PollOutbox, history
  <1>4. worker[w] = IdleWorker
    BY DEF PollOutbox
  <1>5. \A e \in taken : /\ [row |-> e, attempts |-> outbox[e].attempts] \in Item
                         /\ ItemHolds([row |-> e, attempts |-> outbox[e].attempts])
    <2> TAKE e \in taken
    <2>1. e \in QueuedRows /\ e \in Rows /\ outbox[e].status = "pending"
      BY <1>1 DEF QueuedRows, Polled
    <2>2. outbox[e].attempts \in 0..MaxSends
      BY <1>1, <2>1, Counters DEF OutboxRow
    <2>3. AttemptsThrew(e)
      BY <1>1, <2>1
    <2>4. QED
      BY <2>1, <2>2, <2>3 DEF Item, ItemHolds, AttemptsThrew
  <1>6. Batch(taken) \in SUBSET Item /\ \A i \in Batch(taken) : ItemHolds(i)
    BY <1>5
  <1>7. Grows
    BY <1>1, <1>3, Counters DEF Grows, QueuedRows
  <1> HIDE DEF Batch
  <1>8. PICK x \in WorkerState :
           /\ worker' = [worker EXCEPT ![w] = x]
           /\ \A e \in Rows : ~Holding(x, e)
           /\ WorkerHolds(w)'
    BY <1>1, <1>2, <1>6, <1>7, TurnHolds
  <1>9. WorkerStep(w, x)
    BY <1>1, <1>3, <1>8, Counters DEF WorkerStep
  <1>10. \A e \in QueuedRows : AttemptsThrew(e)'
    BY <1>1, <1>3, <1>7, RowStays
  <1>11. \A e \in Rows : Waits(e)' = Waits(e) /\ ~Holding(worker[w], e)
    BY <1>3, <1>4 DEF Waits, QueuedRows, Holding, IdleWorker
  <1>12. \A e \in Rows :
           mailed'[e] + OneIf(Holding(x, e)) + OneIf(Waits(e)') - retaken'[e] - faults'
              <= mailed[e] + OneIf(Holding(worker[w], e)) + OneIf(Waits(e)) - retaken[e] - faults
    BY <1>1, <1>3, <1>8, <1>11, Counters DEF OneIf
  <1>13. QED
    BY <1>3, <1>8, <1>9, <1>10, <1>12, WorkerStepKeeps

\* Taking a row keeps it: a copy that may yet be sent is one that waited, or a retaken one.
LEMMA TakeKeeps == ASSUME OutboxInv, NEW w \in Pollers, Take(w) PROVE OutboxInv'
  <1> DEFINE r == worker[w].row
  <1>1. EmailTypeOK /\ (\A e \in QueuedRows : AttemptsThrew(e)) /\ QueuedRows \subseteq Rows
    BY QueuedAreRows DEF OutboxInv
  <1>2. worker[w].pc = "take" /\ UNCHANGED <<status, update, mailed, refused, faults>>
    BY DEF Take
  <1>3. r \in QueuedRows /\ r \in Rows
    BY <1>2, AtRow
  <1>4. PICK x \in Batched :
           /\ worker' = [worker EXCEPT ![w] = x]
           /\ x.pc = "send" /\ x.row = r /\ x.attempts = worker[w].attempts
           /\ x.rest = worker[w].rest
    BY <1>1, <1>2, StageChange DEF Take
  <1> DEFINE m == Marked(outbox[r])
  <1>5. /\ m \in OutboxRow /\ m.status = "processing" /\ m.attempts = outbox[r].attempts
        /\ outbox' = [outbox EXCEPT ![r] = m]
    BY <1>1, <1>3, Counters DEF Take, Marked, OutboxRow
  <1> HIDE DEF m
  <1>6. /\ outbox' \in Seq(OutboxRow) /\ Len(outbox') = Len(outbox) /\ QueuedRows' = QueuedRows
        /\ outbox'[r] = m
        /\ \A f \in QueuedRows \ {r} : outbox'[f] = outbox[f]
    BY <1>1, <1>3, <1>5, RowChange
  <1>7. /\ retaken' \in [Rows -> Nat]
        /\ \A e \in Rows : retaken'[e] = IF e = r /\ outbox[r].status # "pending"
                                         THEN retaken[e] + 1 ELSE retaken[e]
    BY <1>1, <1>3, Counters DEF Take
  <1>8. Grows
    BY <1>1, <1>2, <1>6, Counters DEF Grows
  <1>9. WorkerStep(w, x)
    BY <1>1, <1>2, <1>4, <1>6, <1>7, Counters DEF WorkerStep, WorkerState
  <1>10. \A e \in QueuedRows : AttemptsThrew(e)'
    <2> TAKE e \in QueuedRows
    <2>1. CASE e = r
      BY <1>1, <1>2, <1>5, <1>6, <2>1 DEF AttemptsThrew
    <2>2. CASE e # r
      BY <1>1, <1>6, <1>8, <2>2, RowStays
    <2>3. QED
      BY <2>1, <2>2
  <1>11. WorkerHolds(w)'
    <2>1. worker'[w] = x
      BY <1>1, <1>4, WorkerChange DEF WorkerState
    <2>2. /\ worker[w].attempts < MaxSends /\ worker[w].attempts <= refused[r]
          /\ \A i \in worker[w].rest : ItemHolds(i)
      BY <1>2, AtRow
    <2>3. \A i : ItemHolds(i) => ItemHolds(i)'
      BY <1>2, <1>6 DEF ItemHolds
    <2>4. ItemHolds([row |-> x.row, attempts |-> x.attempts])'
      BY <1>2, <1>3, <1>4, <1>6, <2>2 DEF ItemHolds
    <2>5. QED
      BY <1>4, <2>1, <2>2, <2>3, <2>4 DEF WorkerHolds
  <1>12. \A e \in Rows :
           mailed'[e] + OneIf(Holding(x, e)) + OneIf(Waits(e)') - retaken'[e] - faults'
              <= mailed[e] + OneIf(Holding(worker[w], e)) + OneIf(Waits(e)) - retaken[e] - faults
    <2> TAKE e \in Rows
    <2>1. mailed[e] \in Int /\ retaken[e] \in Int /\ faults \in Int
      BY <1>1, Counters
    <2>2. ~Holding(worker[w], e)
      BY <1>2 DEF Holding
    <2>3. CASE e = r
      <3>1. Holding(x, e) /\ ~Waits(e)'
        BY <1>4, <1>5, <1>6, <2>3 DEF Holding, Waits
      <3>2. Waits(e) <=> outbox[r].status = "pending"
        BY <1>3, <2>3 DEF Waits
      <3>3. QED
        BY <1>2, <1>7, <2>1, <2>2, <2>3, <3>1, <3>2 DEF OneIf
    <2>4. CASE e # r
      <3>1. ~Holding(x, e)
        BY <1>4, <2>4 DEF Holding
      <3>2. Waits(e)' <=> Waits(e)
        BY <1>6, <2>4 DEF Waits
      <3>3. QED
        BY <1>2, <1>7, <2>1, <2>2, <2>4, <3>1, <3>2 DEF OneIf
    <2>5. QED
      BY <2>3, <2>4
  <1>13. QED
    BY <1>2, <1>9, <1>10, <1>11, <1>12, WorkerStepKeeps

\* A step that writes no row has only its worker and its counters to account for.
LEMMA RowsUntouched ==
    ASSUME OutboxInv, NEW w \in Pollers, NEW x, WorkerStep(w, x), outbox' = outbox,
           WorkerHolds(w)',
           \A e \in Rows :
              /\ e \notin QueuedRows => mailed'[e] = mailed[e]
              /\ mailed'[e] + OneIf(Holding(x, e)) - retaken'[e] - faults'
                    <= mailed[e] + OneIf(Holding(worker[w], e)) - retaken[e] - faults
    PROVE  OutboxInv'
  <1>1. EmailTypeOK /\ \A e \in QueuedRows : AttemptsThrew(e)
    BY DEF OutboxInv
  <1>2. QueuedRows' = QueuedRows /\ Grows
    BY <1>1, QueuedAreRows, Counters DEF WorkerStep, QueuedRows, Grows
  <1>3. \A e \in QueuedRows : AttemptsThrew(e)'
    BY <1>1, <1>2, RowStays
  <1>4. \A e \in Rows :
           mailed'[e] + OneIf(Holding(x, e)) + OneIf(Waits(e)') - retaken'[e] - faults'
              <= mailed[e] + OneIf(Holding(worker[w], e)) + OneIf(Waits(e)) - retaken[e] - faults
    <2> TAKE e \in Rows
    <2> DEFINE hx == OneIf(Holding(x, e))
               hw == OneIf(Holding(worker[w], e))
               o == OneIf(Waits(e))
    <2>1. Waits(e)' <=> Waits(e)
      BY <1>2 DEF Waits
    <2>2. OneIf(Waits(e)') = o
      BY <2>1 DEF OneIf
    <2>3. hx \in Int /\ hw \in Int /\ o \in Int
      BY DEF OneIf
    <2>4. /\ mailed[e] \in Int /\ mailed'[e] \in Int /\ retaken[e] \in Int
          /\ retaken'[e] \in Int /\ faults \in Int /\ faults' \in Int
      BY <1>1, Counters DEF WorkerStep
    <2>5. mailed'[e] + hx - retaken'[e] - faults' <= mailed[e] + hw - retaken[e] - faults
      OBVIOUS
    <2> HIDE DEF hx, hw, o
    <2>6. \A a, b, h, i, p, r, t, f, g \in Int :
             a + h - r - f <= b + i - t - g => a + h + p - r - f <= b + i + p - t - g
      OBVIOUS
    <2>7. mailed'[e] + hx + o - retaken'[e] - faults'
             <= mailed[e] + hw + o - retaken[e] - faults
      BY <2>3, <2>4, <2>5, <2>6
    <2>8. QED
      BY <2>2, <2>7 DEF hx, hw, o
  <1>5. QED
    BY <1>3, <1>4, WorkerStepKeeps

\* A worker at its row goes to the next stage, with a throw counted when it failed.
LEMMA StageHolds ==
    ASSUME OutboxInv, NEW w \in Pollers, worker[w].pc # "idle",
           NEW x \in Batched, worker' = [worker EXCEPT ![w] = x], outbox' = outbox,
           x.row = worker[w].row, x.attempts = worker[w].attempts, x.rest = worker[w].rest,
           refused' = refused \/ refused' = [refused EXCEPT ![worker[w].row] = @ + 1],
           x.pc = "failed" => refused' = [refused EXCEPT ![worker[w].row] = @ + 1]
    PROVE  /\ WorkerHolds(w)' /\ refused' \in [Rows -> Nat]
           /\ \A e \in Rows : refused[e] <= refused'[e]
  <1>1. EmailTypeOK
    BY DEF OutboxInv
  <1>2. worker'[w] = x
    BY <1>1, WorkerChange DEF WorkerState
  <1>3. /\ x.row \in QueuedRows /\ x.row \in Rows /\ x.attempts \in Nat /\ x.attempts < MaxSends
        /\ x.attempts <= refused[x.row] /\ x.rest \in SUBSET Item
        /\ \A i \in x.rest : ItemHolds(i)
    BY AtRow
  <1>4. refused \in [Rows -> Nat]
    BY <1>1, Counters
  <1>5. /\ refused' \in [Rows -> Nat]
        /\ \A e \in Rows : refused'[e] = refused[e] \/ refused'[e] = refused[e] + 1
        /\ x.pc = "failed" => refused'[x.row] = refused[x.row] + 1
    BY <1>3, <1>4
  <1>6. Grows
    BY <1>1, <1>4, <1>5, QueuedAreRows DEF Grows, QueuedRows
  <1>7. \A i \in x.rest : ItemHolds(i)'
    BY <1>3, <1>6, ItemStays, EmailAssumption DEF Item
  <1>8. x.attempts <= refused'[x.row]
    <2>1. refused[x.row] \in Int /\ refused'[x.row] \in Int /\ refused[x.row] <= refused'[x.row]
      BY <1>3, <1>4, <1>5
    <2>2. QED
      BY <1>3, <2>1, Below
  <1>9. x.pc = "failed" => x.attempts + 1 <= refused'[x.row]
    BY <1>3, <1>4, <1>5
  <1>10. ItemHolds([row |-> x.row, attempts |-> x.attempts])'
    BY <1>2, <1>3, <1>6, <1>8 DEF ItemHolds, Grows
  <1>11. WorkerHolds(w)'
    BY <1>2, <1>7, <1>9, <1>10 DEF WorkerHolds
  <1>12. QED
    BY <1>5, <1>6, <1>11 DEF Grows

\* A send keeps the invariant: the copy accepted was one its holder might send.
LEMMA SendSucceedsKeeps == ASSUME OutboxInv, NEW w \in Pollers, SendSucceeds(w) PROVE OutboxInv'
  <1> DEFINE r == worker[w].row
  <1>1. EmailTypeOK
    BY DEF OutboxInv
  <1>2. worker[w].pc = "send" /\ UNCHANGED <<status, update, outbox, refused, retaken, faults>>
    BY DEF SendSucceeds
  <1>3. r \in QueuedRows /\ r \in Rows
    BY <1>2, AtRow
  <1>4. PICK x \in Batched :
           /\ worker' = [worker EXCEPT ![w] = x]
           /\ x.pc = "sent" /\ x.row = r /\ x.attempts = worker[w].attempts
           /\ x.rest = worker[w].rest
    BY <1>1, <1>2, StageChange DEF SendSucceeds
  <1>5. /\ mailed' \in [Rows -> Nat]
        /\ \A e \in Rows : mailed'[e] = IF e = r THEN mailed[e] + 1 ELSE mailed[e]
    BY <1>1, <1>3, Counters DEF SendSucceeds
  <1>6. WorkerHolds(w)' /\ refused' \in [Rows -> Nat] /\ \A e \in Rows : refused[e] <= refused'[e]
    BY <1>2, <1>4, StageHolds
  <1>7. WorkerStep(w, x)
    BY <1>1, <1>2, <1>4, <1>5, <1>6, Counters DEF WorkerStep, WorkerState
  <1>8. \A e \in Rows : /\ ~Holding(x, e)
                        /\ Holding(worker[w], e) <=> e = r
    BY <1>2, <1>4 DEF Holding
  <1>9. \A e \in Rows :
           /\ e \notin QueuedRows => mailed'[e] = mailed[e]
           /\ mailed'[e] + OneIf(Holding(x, e)) - retaken'[e] - faults'
                 <= mailed[e] + OneIf(Holding(worker[w], e)) - retaken[e] - faults
    <2> TAKE e \in Rows
    <2>1. /\ mailed[e] \in Int /\ retaken[e] \in Int /\ faults \in Int
          /\ retaken'[e] = retaken[e] /\ faults' = faults
      BY <1>1, <1>2, Counters
    <2>2. CASE e = r
      BY <1>3, <1>5, <1>8, <2>1, <2>2 DEF OneIf
    <2>3. CASE e # r
      BY <1>5, <1>8, <2>1, <2>3 DEF OneIf
    <2>4. QED
      BY <2>2, <2>3
  <1>10. QED
    BY <1>2, <1>6, <1>7, <1>9, RowsUntouched

\* A send that throws keeps it: it is counted, and a copy accepted all the same is a fault.
LEMMA SendThrowsKeeps == ASSUME OutboxInv, NEW w \in Pollers, SendThrows(w) PROVE OutboxInv'
  <1> DEFINE r == worker[w].row
  <1>1. EmailTypeOK
    BY DEF OutboxInv
  <1>2. worker[w].pc = "send" /\ UNCHANGED <<status, update, outbox, retaken>>
    BY DEF SendThrows
  <1>3. r \in QueuedRows /\ r \in Rows
    BY <1>2, AtRow
  <1>4. PICK x \in Batched :
           /\ worker' = [worker EXCEPT ![w] = x]
           /\ x.pc = "failed" /\ x.row = r /\ x.attempts = worker[w].attempts
           /\ x.rest = worker[w].rest
    BY <1>1, <1>2, StageChange DEF SendThrows
  <1>5. /\ mailed' \in [Rows -> Nat] /\ faults' \in 0..MaxFaults
        /\ \/ UNCHANGED <<mailed, faults>>
           \/ /\ faults' = faults + 1
              /\ \A e \in Rows : mailed'[e] = IF e = r THEN mailed[e] + 1 ELSE mailed[e]
    <2>1. /\ mailed \in [Rows -> Nat] /\ faults \in 0..MaxFaults /\ MaxFaults \in Nat
      BY <1>1, Counters
    <2>2. CASE UNCHANGED <<mailed, faults>>
      BY <2>1, <2>2
    <2>3. CASE /\ faults < MaxFaults /\ faults' = faults + 1
               /\ mailed' = [mailed EXCEPT ![r] = @ + 1]
      BY <1>3, <2>1, <2>3
    <2>4. QED
      BY <2>2, <2>3 DEF SendThrows
  <1>6. WorkerHolds(w)' /\ refused' \in [Rows -> Nat] /\ \A e \in Rows : refused[e] <= refused'[e]
    <2>1. refused' = [refused EXCEPT ![worker[w].row] = @ + 1]
      BY DEF SendThrows
    <2>2. QED
      BY <1>2, <1>4, <2>1, StageHolds
  <1>7. WorkerStep(w, x)
    BY <1>1, <1>2, <1>4, <1>5, <1>6, Counters DEF WorkerStep, WorkerState
  <1>8. \A e \in Rows : Holding(x, e) <=> Holding(worker[w], e)
    BY <1>2, <1>4 DEF Holding
  <1>9. \A e \in Rows :
           /\ e \notin QueuedRows => mailed'[e] = mailed[e]
           /\ mailed'[e] + OneIf(Holding(x, e)) - retaken'[e] - faults'
                 <= mailed[e] + OneIf(Holding(worker[w], e)) - retaken[e] - faults
    <2> TAKE e \in Rows
    <2> DEFINE h == OneIf(Holding(x, e))
    <2>1. /\ mailed[e] \in Int /\ retaken[e] \in Int /\ faults \in Int
          /\ retaken'[e] = retaken[e]
      BY <1>1, <1>2, Counters
    <2>2. OneIf(Holding(worker[w], e)) = h /\ h \in Int
      BY <1>8 DEF OneIf
    <2> HIDE DEF h
    <2>3. e \notin QueuedRows => mailed'[e] = mailed[e]
      BY <1>3, <1>5
    <2>4. \/ mailed'[e] = mailed[e] /\ faults' = faults
          \/ mailed'[e] \in {mailed[e], mailed[e] + 1} /\ faults' = faults + 1
      BY <1>5
    <2>5. mailed'[e] + h - retaken'[e] - faults' <= mailed[e] + h - retaken[e] - faults
      BY <2>1, <2>2, <2>4
    <2>6. QED
      BY <2>2, <2>3, <2>5 DEF h
  <1>10. QED
    BY <1>2, <1>6, <1>7, <1>9, RowsUntouched

\* A query that fails keeps it: a copy sent but not recorded is a fault.
LEMMA QueryFailsKeeps == ASSUME OutboxInv, NEW w \in Pollers, QueryFails(w) PROVE OutboxInv'
  <1> DEFINE r == worker[w].row
  <1>1. EmailTypeOK
    BY DEF OutboxInv
  <1>2. UNCHANGED <<status, update, outbox, mailed, retaken>> /\ faults' = faults + 1
        /\ faults' \in 0..MaxFaults /\ worker[w].pc # "idle"
    BY <1>1, Counters DEF QueryFails
  <1>3. CASE /\ worker[w].pc = "sent" /\ worker' = [worker EXCEPT ![w].pc = "failed"]
             /\ refused' = [refused EXCEPT ![worker[w].row] = @ + 1]
    <2>1. PICK x \in Batched :
             /\ worker' = [worker EXCEPT ![w] = x]
             /\ x.pc = "failed" /\ x.row = r /\ x.attempts = worker[w].attempts
             /\ x.rest = worker[w].rest
      BY <1>1, <1>2, <1>3, StageChange
    <2>2. WorkerHolds(w)' /\ refused' \in [Rows -> Nat] /\ \A e \in Rows : refused[e] <= refused'[e]
      BY <1>2, <1>3, <2>1, StageHolds
    <2>3. WorkerStep(w, x)
      BY <1>1, <1>2, <2>1, <2>2, Counters DEF WorkerStep, WorkerState
    <2>4. \A e \in Rows :
             mailed'[e] + OneIf(Holding(x, e)) - retaken'[e] - faults'
                <= mailed[e] + OneIf(Holding(worker[w], e)) - retaken[e] - faults
      BY <1>1, <1>2, <1>3, Counters DEF OneIf, Holding
    <2>5. QED
      BY <1>2, <2>2, <2>3, <2>4, RowsUntouched
  <1>4. CASE worker' = [worker EXCEPT ![w] = IdleWorker] /\ UNCHANGED refused
    <2>1. WorkerHolds(w)'
      BY <1>1, <1>4, WorkerChange DEF WorkerHolds, WorkerState
    <2>2. WorkerStep(w, IdleWorker)
      BY <1>1, <1>2, <1>4, Counters DEF WorkerStep, WorkerState
    <2>3. \A e \in Rows :
             mailed'[e] + OneIf(Holding(IdleWorker, e)) - retaken'[e] - faults'
                <= mailed[e] + OneIf(Holding(worker[w], e)) - retaken[e] - faults
      BY <1>1, <1>2, Counters, SMTT(30) DEF OneIf, Holding, IdleWorker
    <2>4. QED
      BY <1>2, <2>1, <2>2, <2>3, RowsUntouched
  <1>5. QED
    BY <1>3, <1>4 DEF QueryFails

\* So does a process that dies.
LEMMA CrashKeeps == ASSUME OutboxInv, NEW w \in Pollers, WorkerDies(w) PROVE OutboxInv'
  <1>1. EmailTypeOK
    BY DEF OutboxInv
  <1>2. /\ UNCHANGED <<status, update, outbox, mailed, refused, retaken>>
        /\ faults' = faults + 1 /\ faults' \in 0..MaxFaults
        /\ worker' = [worker EXCEPT ![w] = IdleWorker]
    BY <1>1, Counters DEF WorkerDies, history
  <1>3. WorkerHolds(w)'
    BY <1>1, <1>2, WorkerChange DEF WorkerHolds, WorkerState
  <1>4. WorkerStep(w, IdleWorker)
    BY <1>1, <1>2, Counters DEF WorkerStep, WorkerState
  <1>5. \A e \in Rows :
           mailed'[e] + OneIf(Holding(IdleWorker, e)) - retaken'[e] - faults'
              <= mailed[e] + OneIf(Holding(worker[w], e)) - retaken[e] - faults
    BY <1>1, <1>2, Counters, SMTT(30) DEF OneIf, Holding, IdleWorker
  <1>6. QED
    BY <1>2, <1>3, <1>4, <1>5, RowsUntouched

\* A row written at the end of its turn, when what is written can be explained: the next
\* of the batch has its turn.
LEMMA RowIsDone ==
    ASSUME OutboxInv, NEW w \in Pollers, worker[w].pc \in {"sent", "failed"},
           NEW r, r = worker[w].row,
           NEW m \in OutboxRow, outbox' = [outbox EXCEPT ![r] = m],
           Turn(w, worker[w].rest), UNCHANGED <<status, update, history, faults>>,
           AttemptsThrew(r)',
           m.status = "pending" => worker[w].pc = "failed"
    PROVE  OutboxInv'
  <1>1. EmailTypeOK /\ (\A e \in QueuedRows : AttemptsThrew(e))
    BY DEF OutboxInv
  <1>2. UNCHANGED <<status, update, mailed, refused, retaken, faults>>
    BY DEF history
  <1>3. /\ r \in QueuedRows /\ r \in Rows /\ worker[w].rest \in SUBSET Item
        /\ \A i \in worker[w].rest : ItemHolds(i)
    BY AtRow
  <1>4. /\ outbox' \in Seq(OutboxRow) /\ Len(outbox') = Len(outbox) /\ QueuedRows' = QueuedRows
        /\ outbox'[r] = m
        /\ \A f \in QueuedRows \ {r} : outbox'[f] = outbox[f]
    BY <1>1, <1>3, RowChange
  <1>5. Grows
    BY <1>1, <1>2, <1>4, QueuedAreRows, Counters DEF Grows
  <1>6. PICK x \in WorkerState :
           /\ worker' = [worker EXCEPT ![w] = x]
           /\ \A e \in Rows : ~Holding(x, e)
           /\ WorkerHolds(w)'
    BY <1>1, <1>3, <1>5, TurnHolds
  <1>7. WorkerStep(w, x)
    BY <1>1, <1>2, <1>4, <1>6, Counters DEF WorkerStep
  <1>8. \A e \in QueuedRows : AttemptsThrew(e)'
    <2> TAKE e \in QueuedRows
    <2>1. CASE e = r
      BY <2>1
    <2>2. CASE e # r
      BY <1>1, <1>4, <1>5, <2>2, RowStays
    <2>3. QED
      BY <2>1, <2>2
  <1>9. \A e \in Rows :
           mailed'[e] + OneIf(Holding(x, e)) + OneIf(Waits(e)') - retaken'[e] - faults'
              <= mailed[e] + OneIf(Holding(worker[w], e)) + OneIf(Waits(e)) - retaken[e] - faults
    <2> TAKE e \in Rows
    <2>1. mailed[e] \in Int /\ retaken[e] \in Int /\ faults \in Int
      BY <1>1, Counters
    <2>2. OneIf(Holding(x, e)) = 0
      BY <1>6 DEF OneIf
    <2>3. OneIf(Waits(e)') <= OneIf(Holding(worker[w], e)) + OneIf(Waits(e))
      <3>1. CASE e = r
        <4>1. Waits(e)' => Holding(worker[w], e)
          BY <1>4, <3>1 DEF Waits, Holding
        <4>2. QED
          BY <4>1 DEF OneIf
      <3>2. CASE e # r
        <4>1. Waits(e)' <=> Waits(e)
          BY <1>4, <3>2 DEF Waits
        <4>2. QED
          BY <4>1 DEF OneIf
      <3>3. QED
        BY <3>1, <3>2
    <2>4. OneIf(Waits(e)') \in Int /\ OneIf(Waits(e)) \in Int /\ OneIf(Holding(worker[w], e)) \in Int
      BY DEF OneIf
    <2>5. \A a, r0, f, p, q, h \in Int : p <= h + q => a + 0 + p - r0 - f <= a + h + q - r0 - f
      OBVIOUS
    <2>6. QED
      BY <1>2, <2>1, <2>2, <2>3, <2>4, <2>5
  <1>10. QED
    BY <1>2, <1>6, <1>7, <1>8, <1>9, WorkerStepKeeps

\* Recording a send keeps the invariant.
LEMMA MarkSentKeeps == ASSUME OutboxInv, NEW w \in Pollers, MarkSent(w) PROVE OutboxInv'
  <1> PICK r : r = worker[w].row
    OBVIOUS
  <1> DEFINE m == [outbox[r] EXCEPT !.status = "sent"]
  <1>1. EmailTypeOK /\ (\A e \in QueuedRows : AttemptsThrew(e)) /\ worker[w].pc = "sent"
    BY DEF OutboxInv, MarkSent
  <1>2. r \in QueuedRows /\ r \in Rows
    BY <1>1, AtRow
  <1>3. /\ m \in OutboxRow /\ m.status = "sent" /\ m.attempts = outbox[r].attempts
        /\ outbox' = [outbox EXCEPT ![r] = m]
    BY <1>1, <1>2, Counters DEF MarkSent, OutboxRow
  <1> HIDE DEF m
  <1>4. outbox'[r] = m
    BY <1>1, <1>2, <1>3, RowChange
  <1>5. AttemptsThrew(r)'
    BY <1>1, <1>2, <1>3, <1>4 DEF AttemptsThrew, MarkSent, history
  <1>6. QED
    BY <1>1, <1>3, <1>5, RowIsDone DEF MarkSent

\* Recording a send that threw keeps it: the attempts written are not more than those that
\* threw, and the copy its holder might have sent is the one that waits now.
LEMMA MarkFailedKeeps == ASSUME OutboxInv, NEW w \in Pollers, MarkFailed(w) PROVE OutboxInv'
  <1> PICK r : r = worker[w].row
    OBVIOUS
  <1> DEFINE m == AfterFailure(outbox[r], worker[w].attempts)
  <1>1. EmailTypeOK /\ worker[w].pc = "failed" /\ refused' = refused
    BY DEF OutboxInv, MarkFailed, history
  <1>2. /\ r \in QueuedRows /\ r \in Rows /\ worker[w].attempts \in Nat
        /\ worker[w].attempts < MaxSends /\ worker[w].attempts + 1 <= refused[r]
        /\ refused[r] \in Nat /\ MaxSends \in Nat
    BY <1>1, AtRow, Counters
  <1>3. /\ m \in OutboxRow /\ m.attempts = worker[w].attempts + 1
        /\ m.status = IF worker[w].attempts + 1 >= MaxSends THEN "failed" ELSE "pending"
    <2> DEFINE n == worker[w].attempts + 1
               st == IF n >= MaxSends THEN "failed" ELSE "pending"
    <2>1. outbox[r] \in OutboxRow /\ n \in 0..MaxSends
          /\ st \in {"pending", "processing", "sent", "failed"}
      BY <1>1, <1>2, Counters
    <2>2. m = [outbox[r] EXCEPT !.attempts = n, !.status = st]
      BY DEF AfterFailure
    <2>3. m \in OutboxRow /\ m.attempts = n /\ m.status = st
      <3> HIDE DEF n, st, m
      <3>1. QED
        BY <2>1, <2>2 DEF OutboxRow
    <2>4. QED
      BY <2>3
  <1>4. outbox' = [outbox EXCEPT ![r] = m]
    BY DEF MarkFailed
  <1> HIDE DEF m
  <1>5. outbox'[r] = m
    <2>1. EmailTypeOK /\ r \in QueuedRows /\ m \in OutboxRow
      BY <1>1, <1>2, <1>3
    <2>2. QED
      BY <1>4, <2>1, RowChange
  <1>6. AttemptsThrew(r)'
    <2>1. refused'[r] = refused[r]
      BY <1>1
    <2>2. m.attempts <= refused[r]
      BY <1>2, <1>3
    <2>3. m.status = "pending" => m.attempts < MaxSends
      BY <1>2, <1>3
    <2>4. m.status = "failed" => refused[r] >= MaxSends
      BY <1>2, <1>3
    <2>5. QED
      BY <1>5, <2>1, <2>2, <2>3, <2>4 DEF AttemptsThrew
  <1>7. QED
    BY <1>1, <1>3, <1>4, <1>6, RowIsDone DEF MarkFailed

-----------------------------------------------------------------------------
(* The agents' steps *)

\* What the updates have to show: the rest of the invariant follows, where the rows already
\* queued are as they were and a row that is new waits for the first time.
UpdateStep ==
    /\ UNCHANGED <<worker, mailed, refused, retaken, faults>>
    /\ status' \in Statuses /\ update' \in [Agents -> UpdateState]
    /\ outbox' \in Seq(OutboxRow) /\ RoomForUpdates'
    /\ QueuedRows \subseteq QueuedRows'
    /\ \A e \in QueuedRows : outbox'[e] = outbox[e]
    /\ \A e \in QueuedRows' \ QueuedRows : outbox'[e].attempts = 0 /\ outbox'[e].status = "pending"

\* A step of an update keeps the invariant when it does what UpdateStep says.
LEMMA UpdateStepKeeps == ASSUME OutboxInv, UpdateStep PROVE OutboxInv'
  <1>1. /\ EmailTypeOK /\ RoomForUpdates /\ (\A v \in Pollers : WorkerHolds(v))
        /\ (\A e \in Rows : CopiesExplained(e)) /\ \A e \in QueuedRows : AttemptsThrew(e)
    BY DEF OutboxInv
  <1>2. UNCHANGED <<worker, mailed, refused, retaken, faults>>
    BY DEF UpdateStep
  <1>3. Grows
    BY <1>1, <1>2, QueuedAreRows, Counters DEF Grows, UpdateStep
  <1>4. Len(outbox') \in Nat /\ Len(outbox') <= MaxEmails
    <2>1. Len(outbox') \in Nat /\ Cardinality(Busy') \in Nat
      BY FS_CardinalityType, LenProperties DEF UpdateStep, RoomForUpdates
    <2>2. Len(outbox') + Cardinality(Busy') <= MaxEmails
      BY DEF UpdateStep, RoomForUpdates
    <2>3. QED
      BY <2>1, <2>2, EmailAssumption
  <1>5. EmailTypeOK'
    BY <1>1, <1>4 DEF UpdateStep, EmailTypeOK, OutboxRow, UpdateState
  <1>6. \A v \in Pollers : WorkerHolds(v)'
    BY <1>1, <1>2, <1>3, WorkerStays
  <1>7. \A e \in QueuedRows' : AttemptsThrew(e)'
    <2> TAKE e \in QueuedRows'
    <2>1. CASE e \in QueuedRows
      BY <1>1, <1>3, <2>1, RowStays DEF UpdateStep
    <2>2. CASE e \notin QueuedRows
      <3>1. e \in Rows
        BY <1>4, EmailAssumption DEF QueuedRows, Rows
      <3>2. outbox'[e].attempts = 0 /\ outbox'[e].status = "pending"
        BY <2>2 DEF UpdateStep
      <3>3. refused'[e] \in Nat /\ MaxSends \in Nat \ {0}
        BY <1>1, <1>2, <3>1, Counters, EmailAssumption
      <3>4. QED
        BY <3>2, <3>3 DEF AttemptsThrew
    <2>3. QED
      BY <2>1, <2>2
  <1>8. \A e \in Rows : CopiesExplained(e)'
    <2> TAKE e \in Rows
    <2>1. CopiesExplained(e)
      BY <1>1
    <2>2. Holders(e)' = Holders(e)
      BY <1>2 DEF Holders
    <2>3. e \notin QueuedRows' => mailed'[e] = 0
      BY <1>2, <1>3, <2>1 DEF CopiesExplained, Grows
    <2>4. CASE e \in QueuedRows
      <3>1. Waits(e)' <=> Waits(e)
        BY <1>3, <2>4 DEF Waits, UpdateStep, Grows
      <3>2. OneIf(Waits(e)') = OneIf(Waits(e))
        BY <3>1 DEF OneIf
      <3>3. QED
        BY <1>2, <2>1, <2>2, <2>3, <3>2 DEF CopiesExplained
    <2>5. CASE e \notin QueuedRows
      <3>1. Holders(e) = {}
        <4> SUFFICES ASSUME NEW w \in Pollers, Holding(worker[w], e)
                     PROVE  FALSE
          BY DEF Holders
        <4>1. worker[w].pc # "idle" /\ worker[w].row = e
          BY DEF Holding
        <4>2. QED
          BY <2>5, <4>1, AtRow
      <3>2. IsFiniteSet(Holders(e)') /\ Cardinality(Holders(e)') = 0
        BY <2>2, <3>1, FS_EmptySet
      <3>3. mailed'[e] = 0 /\ retaken'[e] \in Nat /\ faults' \in Nat
        BY <1>1, <1>2, <2>1, <2>5, Counters DEF CopiesExplained
      <3>4. OneIf(Waits(e)') \in {0, 1}
        BY DEF OneIf
      <3>5. mailed'[e] + Cardinality(Holders(e)') + OneIf(Waits(e)') <= 1 + retaken'[e] + faults'
        BY <3>2, <3>3, <3>4
      <3>6. QED
        BY <2>3, <3>2, <3>5 DEF CopiesExplained
    <2>6. QED
      BY <2>4, <2>5
  <1>9. RoomForUpdates'
    BY DEF UpdateStep
  <1>10. QED
    BY <1>5, <1>6, <1>7, <1>8, <1>9 DEF OutboxInv

\* Reading the ticket keeps the invariant: it asks for a row's room first.
LEMMA ReadTicketKeeps == ASSUME OutboxInv, NEW a \in Agents, ReadTicket(a) PROVE OutboxInv'
  <1>1. EmailTypeOK /\ RoomForUpdates
    BY DEF OutboxInv
  <1>2. /\ update[a] = NoUpdate /\ Len(outbox) + Cardinality(Busy) < MaxEmails
        /\ UNCHANGED <<status, outbox, worker, mailed, refused, retaken, faults>>
    BY DEF ReadTicket, Busy, history
  <1>3. PICK to \in Statuses :
           update' = [update EXCEPT ![a] = [pc |-> "write", seen |-> status, to |-> to]]
    BY DEF ReadTicket
  <1> DEFINE u == [pc |-> "write", seen |-> status, to |-> to]
  <1>4. u \in UpdateState /\ u # NoUpdate
    BY <1>1 DEF EmailTypeOK, UpdateState, NoUpdate
  <1>5. update' = [update EXCEPT ![a] = u] /\ update \in [Agents -> UpdateState]
    BY <1>1, <1>3 DEF EmailTypeOK, UpdateState
  <1> HIDE DEF u
  <1>6. update' \in [Agents -> UpdateState] /\ Busy' = Busy \cup {a} /\ a \notin Busy
    BY <1>2, <1>4, <1>5 DEF Busy
  <1>7. IsFiniteSet(Busy') /\ Cardinality(Busy') = Cardinality(Busy) + 1
    BY <1>1, <1>6, FS_AddElement DEF RoomForUpdates
  <1>8. Cardinality(Busy) \in Nat /\ Len(outbox) \in Nat /\ MaxEmails \in Nat
    BY <1>1, FS_CardinalityType, QueuedAreRows, EmailAssumption DEF RoomForUpdates
  <1>9. RoomForUpdates'
    BY <1>2, <1>7, <1>8 DEF RoomForUpdates
  <1>10. QueuedRows' = QueuedRows
    BY <1>2 DEF QueuedRows
  <1>11. UpdateStep
    BY <1>1, <1>2, <1>6, <1>9, <1>10, Counters DEF UpdateStep, EmailTypeOK
  <1>12. QED
    BY <1>11, UpdateStepKeeps

\* The update's transaction keeps it: the row it queues takes the room that was asked for.
LEMMA WriteTicketKeeps == ASSUME OutboxInv, NEW a \in Agents, WriteTicket(a) PROVE OutboxInv'
  <1>1. EmailTypeOK /\ RoomForUpdates
    BY DEF OutboxInv
  <1>2. /\ update[a].pc = "write" /\ status' = update[a].to
        /\ update' = [update EXCEPT ![a] = NoUpdate]
        /\ UNCHANGED <<worker, mailed, refused, retaken, faults>>
    BY DEF WriteTicket, history
  <1>3. update \in [Agents -> UpdateState] /\ status \in Statuses
    BY <1>1 DEF EmailTypeOK, UpdateState
  <1>4. update[a] # NoUpdate /\ update[a].to \in Statuses
    BY <1>2, <1>3 DEF UpdateState, NoUpdate
  <1>5. /\ update' \in [Agents -> UpdateState] /\ Busy' = Busy \ {a} /\ a \in Busy
    BY <1>2, <1>3, <1>4 DEF Busy, UpdateState
  <1>6. IsFiniteSet(Busy') /\ Cardinality(Busy') = Cardinality(Busy) - 1
    BY <1>1, <1>5, FS_RemoveElement DEF RoomForUpdates
  <1>7. /\ Cardinality(Busy) \in Nat /\ Len(outbox) \in Nat /\ MaxEmails \in Nat
        /\ Len(outbox) + Cardinality(Busy) <= MaxEmails
    BY <1>1, FS_CardinalityType, QueuedAreRows, EmailAssumption DEF RoomForUpdates
  <1>8. CASE outbox' = outbox
    <2>1. RoomForUpdates' /\ QueuedRows' = QueuedRows
      BY <1>6, <1>7, <1>8 DEF RoomForUpdates, QueuedRows
    <2>2. UpdateStep
      BY <1>1, <1>2, <1>4, <1>5, <1>8, <2>1, Counters DEF UpdateStep
    <2>3. QED
      BY <2>2, UpdateStepKeeps
  <1> DEFINE r == [status |-> "pending", attempts |-> 0, to |-> update[a].to, was |-> status]
  <1>9. CASE outbox' = Append(outbox, r)
    <2>1. r \in OutboxRow /\ r.attempts = 0 /\ r.status = "pending"
      BY <1>3, <1>4, EmailAssumption DEF OutboxRow
    <2> HIDE DEF r
    <2>2. /\ outbox' \in Seq(OutboxRow) /\ Len(outbox') = Len(outbox) + 1
          /\ \A e \in QueuedRows : outbox'[e] = outbox[e]
          /\ outbox'[Len(outbox) + 1] = r
      BY <1>1, <1>9, <2>1, Counters, AppendProperties DEF QueuedRows
    <2>3. QueuedRows \subseteq QueuedRows' /\ QueuedRows' \ QueuedRows \subseteq {Len(outbox) + 1}
      BY <1>7, <2>2 DEF QueuedRows
    <2>4. RoomForUpdates'
      BY <1>6, <1>7, <2>2 DEF RoomForUpdates
    <2>5. UpdateStep
      BY <1>2, <1>4, <1>5, <2>1, <2>2, <2>3, <2>4 DEF UpdateStep
    <2>6. QED
      BY <2>5, UpdateStepKeeps
  <1>10. QED
    BY <1>8, <1>9 DEF WriteTicket

-----------------------------------------------------------------------------
(* The theorems *)

\* The initial state satisfies the invariant.
LEMMA InitOutboxInv == EmailInit => OutboxInv
  <1> SUFFICES ASSUME EmailInit PROVE OutboxInv
    OBVIOUS
  <1>1. outbox = <<>> /\ outbox \in Seq(OutboxRow) /\ Len(outbox) = 0 /\ QueuedRows = {}
    BY EmptySeq DEF EmailInit, QueuedRows
  <1>2. EmailTypeOK
    BY <1>1, EmailAssumption DEF EmailInit, EmailTypeOK, OutboxRow
  <1>3. RoomForUpdates
    <2>1. Busy = {}
      BY DEF EmailInit, Busy
    <2>2. QED
      BY <1>1, <2>1, FS_EmptySet, EmailAssumption DEF RoomForUpdates
  <1>4. \A w \in Pollers : WorkerHolds(w)
    BY DEF EmailInit, WorkerHolds
  <1>5. \A e \in Rows : CopiesExplained(e)
    <2> TAKE e \in Rows
    <2>1. Holders(e) = {}
      BY DEF EmailInit, Holders, Holding, IdleWorker
    <2>2. mailed[e] = 0 /\ retaken[e] = 0 /\ faults = 0 /\ OneIf(Waits(e)) = 0
      BY <1>1 DEF EmailInit, OneIf, Waits
    <2>3. QED
      BY <2>1, <2>2, FS_EmptySet DEF CopiesExplained
  <1>6. QED
    BY <1>1, <1>2, <1>3, <1>4, <1>5 DEF OutboxInv

\* A step that changes nothing keeps it.
LEMMA StutterKeeps == OutboxInv /\ UNCHANGED emailVars => OutboxInv'
  <1> SUFFICES ASSUME OutboxInv, UNCHANGED emailVars PROVE OutboxInv'
    OBVIOUS
  <1>1. UNCHANGED <<status, update, outbox, worker, mailed, refused, retaken, faults>>
    BY DEF emailVars, history
  <1>2. EmailTypeOK' /\ RoomForUpdates' /\ QueuedRows' = QueuedRows
    BY <1>1 DEF OutboxInv, EmailTypeOK, RoomForUpdates, Busy, QueuedRows
  <1>3. \A e \in QueuedRows : AttemptsThrew(e)'
    BY <1>1 DEF OutboxInv, AttemptsThrew
  <1>4. \A w \in Pollers : WorkerHolds(w)'
    <2>1. \A i : ItemHolds(i)' <=> ItemHolds(i)
      BY <1>1, <1>2 DEF ItemHolds
    <2>2. QED
      BY <1>1, <2>1 DEF OutboxInv, WorkerHolds
  <1>5. \A e \in Rows : CopiesExplained(e)'
    <2> TAKE e \in Rows
    <2>1. Holders(e)' = Holders(e) /\ (Waits(e)' <=> Waits(e))
      BY <1>1, <1>2 DEF Holders, Waits
    <2>2. OneIf(Waits(e)') = OneIf(Waits(e))
      BY <2>1 DEF OneIf
    <2>3. QED
      BY <1>1, <1>2, <2>1, <2>2 DEF OutboxInv, CopiesExplained
  <1>6. QED
    BY <1>2, <1>3, <1>4, <1>5 DEF OutboxInv

\* Every step keeps it.
LEMMA NextOutboxInv == OutboxInv /\ [EmailNext]_emailVars => OutboxInv'
  <1> SUFFICES ASSUME OutboxInv, [EmailNext]_emailVars PROVE OutboxInv'
    OBVIOUS
  <1>1. ASSUME NEW a \in Agents, ReadTicket(a) \/ WriteTicket(a)
        PROVE  OutboxInv'
    BY <1>1, ReadTicketKeeps, WriteTicketKeeps
  <1>2. ASSUME NEW w \in Pollers, Process(w)
        PROVE  OutboxInv'
    BY <1>2, TakeKeeps, SendSucceedsKeeps, SendThrowsKeeps, MarkSentKeeps, MarkFailedKeeps
       DEF Process
  <1>3. ASSUME NEW w \in Pollers, PollOutbox(w) \/ QueryFails(w) \/ WorkerDies(w)
        PROVE  OutboxInv'
    BY <1>3, PollKeeps, QueryFailsKeeps, CrashKeeps
  <1>4. CASE UNCHANGED emailVars
    BY <1>4, StutterKeeps
  <1>5. QED
    BY <1>1, <1>2, <1>3, <1>4 DEF EmailNext

\* The invariant of the outbox holds in every reachable state.
THEOREM OutboxInvariantHolds == EmailSpec => []OutboxInv
  BY InitOutboxInv, NextOutboxInv, PTL DEF EmailSpec

\* Every reachable state is well typed: no row holds more attempts than the worker makes.
THEOREM EmailTypesHold == EmailSpec => []EmailTypeOK
  <1>1. OutboxInv => EmailTypeOK
    BY DEF OutboxInv
  <1>2. QED
    BY <1>1, OutboxInvariantHolds, PTL

\* Whatever the replicas overwrite of each other, a row is failed only after MAX_ATTEMPTS
\* sends of it threw, and a copy beyond the first is explained by a row taken when it was
\* not pending any more or by a fault.
THEOREM OutboxIsKept == EmailSpec => []OutboxHolds
  <1>1. OutboxInv => OutboxHolds
    <2> SUFFICES ASSUME OutboxInv PROVE OutboxHolds
      OBVIOUS
    <2>1. FailedWasTriedOut
      BY DEF OutboxInv, FailedWasTriedOut, AttemptsThrew
    <2>2. ASSUME NEW e \in Rows
          PROVE  mailed[e] <= 1 + retaken[e] + faults
      <3>1. /\ Cardinality(Holders(e)) \in Nat
            /\ mailed[e] + Cardinality(Holders(e)) + OneIf(Waits(e)) <= 1 + retaken[e] + faults
        BY FS_CardinalityType DEF OutboxInv, CopiesExplained
      <3>2. mailed[e] \in Int /\ retaken[e] \in Int /\ faults \in Int
        BY Counters DEF OutboxInv
      <3>3. OneIf(Waits(e)) \in Nat
        BY DEF OneIf
      <3>4. QED
        BY <3>1, <3>2, <3>3
    <2>3. QED
      BY <2>1, <2>2 DEF OutboxHolds, ExtraCopiesAreExplained
  <1>2. QED
    BY <1>1, OutboxInvariantHolds, PTL
=============================================================================
