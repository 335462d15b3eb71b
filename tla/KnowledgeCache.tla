---------------------------- MODULE KnowledgeCache ----------------------------
(***************************************************************************)
(* The answers one organisation's AI gives and what they rest on: the      *)
(* articles of the API, their chunks in the vector index of the AI service *)
(* and the semantic cache in front of it (L1 with its LSH index and org    *)
(* key set, a Bloom filter, Redis as L2, and the knowledge-base version    *)
(* that is part of every key).                                             *)
(*                                                                         *)
(* Edits, questions, purges and sweeps are requests that interleave; an    *)
(* answer is named by the request that generated it, a text by the edit    *)
(* that wrote it, and 0 names what was there at the start.                 *)
(***************************************************************************)
EXTENDS Naturals, FiniteSets, SequencesExt

CONSTANTS
    Query,          \* questions; any two of them are paraphrases
    Areas,          \* records [jobs, reqs, mishaps]: the requests [kind, on, opt] that arrive are
                    \* at most reqs jobs of one of them, and meet at most mishaps failed calls,
                    \* restarts and expiries
    MaxReq,         \* bound: requests
    Capacity        \* entries L1 holds

\* What a request brings: a question, an article with the state it is to have (a draft is archived), or nothing.
WellFormed(j) ==
    \/ j.kind = "ask" /\ j.on \in Query
    \/ j.kind \in {"create", "update"} /\ j.on \in 0..MaxReq /\ j.opt \in {"published", "archived"}
    \/ j.kind = "delete" /\ j.on \in 0..MaxReq
    \/ j.kind \in {"purge", "sweep", "clear"}

ASSUME KnowledgeCacheAssumption ==
    /\ Query # {} /\ MaxReq \in Nat /\ Capacity \in Nat \ {0}
    /\ \A area \in Areas : area.reqs <= MaxReq /\ area.mishaps \in Nat /\ \A j \in area.jobs : WellFormed(j)

VARIABLES
    job, pc,
    got,            \* got[r]: what request r has read and still uses
    article,        \* KnowledgeArticle rows
    index,          \* chunks in Qdrant: <<article, text>>
    answer,         \* answer[r]: the chunks that the answer r generated rests on
    l1, recency,    \* LruCache: the answer under each key, the keys from most to least recent
    lsh, keysByOrg, bloom,
    redis,          \* L2: the answer under each key
    orgIndex,       \* L2: the keys an invalidation will delete
    version,        \* kbVersion in Redis, 0 when not set
    local,          \* localVersions of the cache service
    lease,          \* lease[k]: the request whose answer others wait for
    expired,        \* answers older than ttlSeconds
    served,         \* history: the answer each question got
    met, hurt,      \* history: requests in flight together, requests that met a failure
    restarts

memory == <<l1, recency, lsh, keysByOrg, bloom, local, lease>>
shared == <<redis, orgIndex, version>>
content == <<article, index>>
history == <<expired, met, hurt, restarts>>
cacheVars == <<job, pc, got, content, answer, memory, shared, served, history>>

Req == 1..MaxReq
Id == 0..MaxReq
Version == 0..MaxReq
CacheKey == Query \X Version
NoEntry == MaxReq + 1              \* no entry, nobody
Kind(r) == job[r].kind
On(r) == job[r].on
Opt(r) == job[r].opt
InFlight == {r \in Req : pc[r] \notin {"free", "done"}}
Jobs == UNION {area.jobs : area \in Areas}
Mishaps == Cardinality(hurt) + restarts + Cardinality(expired)
\* The areas this behaviour belongs to.
Current == {area \in Areas : /\ \A r \in Req : pc[r] # "free" => r <= area.reqs /\ job[r] \in area.jobs
                             /\ Mishaps <= area.mishaps}
Mishap == \E area \in Current : Mishaps < area.mishaps

Nothing == [ver |-> 0, keys |-> {}, entry |-> NoEntry, row |-> NoEntry, ok |-> FALSE, then |-> "done"]
Gone == [status |-> "none", text |-> 0, indexed |-> FALSE]
Published(a) == article[a].status = "published"
KeyOf(r) == <<On(r), got[r].ver>>

-----------------------------------------------------------------------------
(* State *)

\* The type invariant.
CacheTypeOK ==
    /\ pc \in [Req -> {"free", "start", "exact", "promote", "hit", "semantic", "evict",
                       "evictIds", "miss", "wait", "retrieve", "generate", "put", "victim", "track", "l2", "l2index", "complete", "write", "sync", "unindex", "index",
                       "insert", "flag", "delete", "drop", "inv", "invLsh", "members", "forget",
                       "bump", "sweep", "sweepKey", "done"}]
    /\ article \in [Id -> [status : {"none", "published", "archived"}, text : Id, indexed : BOOLEAN]]
    /\ index \subseteq Id \X Id
    /\ answer \in [Id -> SUBSET (Id \X Id)]
    /\ l1 \in [CacheKey -> Id \cup {NoEntry}] /\ redis \in [CacheKey -> Id \cup {NoEntry}]
    /\ \A k \in CacheKey : (l1[k] # NoEntry) = (k \in Range(recency))
    /\ IsInjective(recency) /\ Len(recency) <= Capacity
    /\ lsh \cup keysByOrg \cup bloom \cup orgIndex \subseteq CacheKey
    /\ version \in Version /\ local \in Version
    /\ lease \in [CacheKey -> Req \cup {NoEntry}]
    /\ served \in [Req -> Id \cup {NoEntry}]
    /\ expired \subseteq Id /\ hurt \subseteq Req /\ restarts \in Nat

\* One published article, indexed; an answer to the first question may be in Redis, and
\* then also in L1.
CacheInit ==
    \E k \in {<<CHOOSE q \in Query : TRUE, 0>>}, cached \in {"nowhere", "L2", "both"} :
    LET Only(layers) == [x \in CacheKey |-> IF x = k /\ cached \in layers THEN 0 ELSE NoEntry]
        Warm(layers) == IF cached \in layers THEN {k} ELSE {}
    IN
    /\ job = [r \in Req |-> [kind |-> "none", on |-> NoEntry, opt |-> "none"]]
    /\ pc = [r \in Req |-> "free"]
    /\ got = [r \in Req |-> Nothing]
    /\ article = [a \in Id |-> IF a = 0 THEN [status |-> "published", text |-> 0, indexed |-> TRUE] ELSE Gone]
    /\ index = {<<0, 0>>}
    /\ answer = [r \in Id |-> IF r = 0 THEN {<<0, 0>>} ELSE {}]
    /\ l1 = Only({"both"}) /\ recency = SetToSeq(Warm({"both"}))
    /\ lsh = Warm({"both"}) /\ keysByOrg = Warm({"both"})
    /\ redis = Only({"L2", "both"}) /\ bloom = Warm({"L2", "both"}) /\ orgIndex = Warm({"L2", "both"})
    /\ version = 0 /\ local = 0
    /\ lease = [x \in CacheKey |-> NoEntry]
    /\ served = [r \in Req |-> NoEntry]
    /\ expired = {} /\ met = {} /\ hurt = {} /\ restarts = 0

-----------------------------------------------------------------------------
(* Requests *)

Go(r, step) == pc' = [pc EXCEPT ![r] = step]
Keep(r, field, value) == got' = [got EXCEPT ![r][field] = value]
Note(r, keys, step) == got' = [got EXCEPT ![r].keys = keys, ![r].then = step]
Hurts(r) == Mishap /\ hurt' = hurt \cup {r} /\ UNCHANGED <<expired, met, restarts>>

\* A request arrives; requests are numbered in the order of their arrival.
Submit(r) ==
    /\ pc[r] = "free" /\ \A q \in Req : q < r => pc[q] # "free"
    /\ \E j \in UNION {area.jobs : area \in {a \in Current : r <= a.reqs}} :
        /\ job' = [job EXCEPT ![r] = j]
        /\ Go(r, CASE j.kind = "purge" -> "inv" [] j.kind = "sweep" -> "sweep" [] OTHER -> "start")
    /\ met' = met \cup {{r, q} : q \in InFlight}
    /\ UNCHANGED <<got, content, answer, memory, shared, served, expired, hurt, restarts>>

\* A step that only reads, or passes on.
Pass(r, from, to) ==
    /\ pc[r] = from /\ Go(r, to)
    /\ UNCHANGED <<job, got, content, answer, memory, shared, served, history>>

-----------------------------------------------------------------------------
(* The entries of the cache *)

Fresh(k) == l1[k] # NoEntry /\ l1[k] \notin expired
Touched(k) == <<k>> \o Remove(recency, k)


\* LruCache.put: the least recent entry goes when the cache is over its capacity.
Victim(k) == IF l1[k] = NoEntry /\ Len(recency) = Capacity THEN {Last(recency)} ELSE {}
Put(k, e) ==
    /\ l1' = [x \in CacheKey |-> IF x = k THEN e ELSE IF x \in Victim(k) THEN NoEntry ELSE l1[x]]
    /\ recency' = IF Victim(k) = {} THEN Touched(k) ELSE <<k>> \o Front(recency)

RemoveAll(keys) ==
    /\ l1' = [x \in CacheKey |-> IF x \in keys THEN NoEntry ELSE l1[x]]
    /\ recency' = SelectSeq(recency, LAMBDA x : x \notin keys)

UnversionedKey(r, ver) == ver = 0 /\ UNCHANGED history

\* currentVersion: Redis, or what this process remembers when Redis does not answer.
ReadVersion(r, ver) ==
    \/ ver = (IF version > 0 THEN version ELSE local) /\ UNCHANGED history
    \/ ver = local /\ Hurts(r)

\* promote: l1.put, then lshIndex.add and keysByOrg.add; the entry that gives way
\* loses its LSH and org entries in between.
PutL1(r, k, e, step) ==
    /\ Put(k, e)
    /\ Note(r, Victim(k), step)
    /\ Go(r, IF Victim(k) = {} THEN step ELSE "victim")
    /\ UNCHANGED <<job, content, answer, lsh, keysByOrg, bloom, local, lease, shared, served, history>>

EvictionListener(r) ==
    /\ pc[r] = "victim" /\ Go(r, got[r].then)
    /\ lsh' = lsh \ got[r].keys /\ keysByOrg' = keysByOrg \ got[r].keys
    /\ UNCHANGED <<job, got, content, answer, l1, recency, bloom, local, lease, shared, served, history>>

Track(k) == lsh' = lsh \cup {k} /\ keysByOrg' = keysByOrg \cup {k}

\* evict: out of L1, then out of the LSH index and the org's keys.
Evict(r) ==
    \/ /\ pc[r] = "evict" /\ RemoveAll(got[r].keys) /\ Go(r, "evictIds")
       /\ UNCHANGED <<job, got, content, answer, lsh, keysByOrg, bloom, local, lease, shared, served, history>>
    \/ /\ pc[r] = "evictIds" /\ Go(r, got[r].then)
       /\ lsh' = lsh \ got[r].keys /\ keysByOrg' = keysByOrg \ got[r].keys
       /\ UNCHANGED <<job, got, content, answer, l1, recency, bloom, local, lease, shared, served, history>>

-----------------------------------------------------------------------------
(* A question: lookup, retrieval and generation, store *)

\* The answer; `kept` when the waiters got it too.
Serve(r, e, kept) ==
    /\ served' = [served EXCEPT ![r] = e] /\ Go(r, "done")
    /\ got' = [got EXCEPT ![r] = [Nothing EXCEPT !.ok = kept]]

\* The key is made when the lookup arrives.  The call may fail: no lease; or the
\* embedding: no cache at all.
Ask(r) ==
    /\ pc[r] = "start" /\ Kind(r) = "ask"
    /\ \/ \E ver \in Version : ReadVersion(r, ver) /\ Keep(r, "ver", ver) /\ Go(r, "exact")
       \/ Hurts(r) /\ Go(r, "retrieve") /\ \E how \in {"done", "uncached"} : Keep(r, "then", how)
    /\ UNCHANGED <<job, content, answer, memory, shared, served>>

\* exactLookup in L1.
ExactInL1(r) ==
    LET k == KeyOf(r) IN
    /\ pc[r] = "exact" /\ l1[k] # NoEntry
    /\ recency' = Touched(k)
    /\ IF Fresh(k) THEN Serve(r, l1[k], FALSE)
       ELSE /\ Go(r, "evict") /\ Note(r, {k}, "semantic")
            /\ UNCHANGED served
    /\ UNCHANGED <<job, content, answer, l1, lsh, keysByOrg, bloom, local, lease, shared, history>>

\* exactLookup in L2: the Bloom filter may spare the round trip, and a failed read is a miss.
ExactInL2(r) ==
    LET k == KeyOf(r) IN
    /\ pc[r] = "exact" /\ l1[k] = NoEntry
    /\ \/ k \notin bloom /\ Go(r, "semantic") /\ UNCHANGED <<got, history>>
       \/ k \in bloom /\ Hurts(r) /\ Go(r, "semantic") /\ UNCHANGED got
       \/ k \in bloom /\ (redis[k] = NoEntry \/ redis[k] \in expired) /\ Go(r, "semantic") /\ UNCHANGED <<got, history>>
       \/ /\ k \in bloom /\ redis[k] \in Id \ expired
          /\ Keep(r, "entry", redis[k]) /\ Go(r, "promote") /\ UNCHANGED history
    /\ UNCHANGED <<job, content, answer, memory, shared, served>>

\* promote of an entry found in Redis, then the hit.
Promote(r) ==
    \/ pc[r] = "promote" /\ PutL1(r, KeyOf(r), got[r].entry, "hit")
    \/ /\ pc[r] = "hit" /\ Track(KeyOf(r)) /\ Serve(r, got[r].entry, FALSE)
       /\ UNCHANGED <<job, content, answer, l1, recency, bloom, local, lease, shared, history>>

\* semanticLookup: a candidate answers if its context is the same and it has not
\* expired; LSH may miss it.
SemanticLookup(r) ==
    LET old == {k \in lsh : l1[k] \in expired}
        match == {k \in lsh : Fresh(k) /\ k[2] = got[r].ver}
    IN
    /\ pc[r] = "semantic"
    /\ \/ \E k \in match : recency' = Touched(k) /\ Serve(r, l1[k], FALSE)
       \/ /\ old # {}
          /\ Go(r, "evict") /\ Note(r, old, "miss")
          /\ UNCHANGED <<served, recency>>
       \/ old = {} /\ Go(r, "miss") /\ UNCHANGED <<got, served, recency>>
    /\ UNCHANGED <<job, content, answer, l1, lsh, keysByOrg, bloom, local, lease, shared, history>>

\* onMiss: the first to miss a key owns it, the others wait for its answer.
OnMiss(r) ==
    LET k == KeyOf(r) IN
    /\ pc[r] = "miss"
    /\ IF lease[k] = NoEntry
       THEN lease' = [lease EXCEPT ![k] = r] /\ Go(r, "retrieve") /\ UNCHANGED got
       ELSE Keep(r, "entry", lease[k]) /\ Go(r, "wait") /\ UNCHANGED lease
    /\ UNCHANGED <<job, content, answer, l1, recency, lsh, keysByOrg, bloom, local, shared, served, history>>

\* The owner's answer, or, when it failed or took too long, a plain miss.
Waited(r) ==
    LET s == got[r].entry IN
    /\ pc[r] = "wait"
    /\ \/ pc[s] = "done" /\ got[s].ok /\ Serve(r, s, FALSE)
       \/ ~(pc[s] = "done" /\ got[s].ok) /\ Go(r, "retrieve") /\ UNCHANGED <<served, got>>
    /\ UNCHANGED <<job, content, answer, memory, shared, history>>

\* The owner gives its lease up: RequestCoalescer.complete, fail or its timeout.
GivesUp(r) == lease' = [k \in CacheKey |-> IF lease[k] = r THEN NoEntry ELSE lease[k]]

\* Retrieval reads the chunks; with none there is only the fallback, which is not cached.
Retrieve(r) ==
    /\ pc[r] = "retrieve"
    /\ answer' = [answer EXCEPT ![r] = index]
    /\ IF index = {} \/ got[r].then = "uncached" THEN Serve(r, r, FALSE) /\ GivesUp(r)
       ELSE Go(r, "generate") /\ UNCHANGED <<served, lease, got>>
    /\ UNCHANGED <<job, content, l1, recency, lsh, keysByOrg, bloom, local, shared, history>>

\* store: the key is made again, from the version of now.  The call may fail, the
\* generation may end in the fallback, the response may be too large to keep.
Store(r) ==
    /\ pc[r] = "generate"
    /\ \/ \E ver \in Version : ReadVersion(r, ver) /\ Keep(r, "ver", ver) /\ Go(r, "put") /\ UNCHANGED <<served, lease>>
       \/ Hurts(r) /\ Serve(r, r, FALSE) /\ GivesUp(r)
    /\ UNCHANGED <<job, content, answer, l1, recency, lsh, keysByOrg, bloom, local, shared>>

Keeps(r) ==
    \/ pc[r] = "put" /\ PutL1(r, KeyOf(r), r, "track")
    \/ /\ pc[r] = "track" /\ Track(KeyOf(r)) /\ Go(r, "l2")
       /\ UNCHANGED <<job, got, content, answer, l1, recency, bloom, local, lease, shared, served, history>>

\* bloom.add and RedisCacheStore.put: the entry, then the org's index.  A failure is swallowed.
StoreL2(r) ==
    LET k == KeyOf(r) IN
    \/ /\ pc[r] = "l2" /\ bloom' = bloom \cup {k}
       /\ \/ redis' = [redis EXCEPT ![k] = r] /\ Go(r, "l2index") /\ UNCHANGED history
          \/ Hurts(r) /\ Go(r, "complete") /\ UNCHANGED redis
       /\ UNCHANGED <<job, got, content, answer, l1, recency, lsh, keysByOrg, local, lease, orgIndex, version, served>>
    \/ /\ pc[r] = "l2index" /\ Go(r, "complete")
       /\ \/ orgIndex' = orgIndex \cup {k} /\ UNCHANGED history
          \/ Hurts(r) /\ UNCHANGED orgIndex
       /\ UNCHANGED <<job, got, content, answer, memory, redis, version, served>>

Complete(r) ==
    /\ pc[r] = "complete" /\ Serve(r, r, TRUE) /\ GivesUp(r)
    /\ UNCHANGED <<job, content, answer, l1, recency, lsh, keysByOrg, bloom, local, shared, history>>

Question(r) ==
    \/ Ask(r) \/ ExactInL1(r) \/ ExactInL2(r) \/ Promote(r) \/ SemanticLookup(r) \/ OnMiss(r)
    \/ Waited(r) \/ Retrieve(r) \/ Store(r) \/ Keeps(r) \/ StoreL2(r) \/ Complete(r)
    \/ EvictionListener(r) \/ Evict(r)

-----------------------------------------------------------------------------
(* Invalidation, sweep, clear, restart *)

\* invalidateOrg: local entries first, then Redis, the version last.
InvalidateL1(r) ==
    \/ /\ pc[r] = "inv" /\ Go(r, "invLsh")
       /\ keysByOrg' = {} /\ RemoveAll(keysByOrg)
       /\ UNCHANGED <<job, got, content, answer, lsh, bloom, local, lease, shared, served, history>>
    \/ /\ pc[r] = "invLsh" /\ lsh' = {} /\ Go(r, "members")
       /\ UNCHANGED <<job, got, content, answer, l1, recency, keysByOrg, bloom, local, lease, shared, served, history>>

LeavesL2(r) ==
    /\ pc[r] = "members" /\ Go(r, IF Kind(r) = "purge" THEN "done" ELSE "bump")
    /\ UNCHANGED <<job, got, content, answer, memory, shared, served, history>>

\* RedisCacheStore.invalidateOrg: the members, then their entries and the index; a
\* failure leaves the rest as it is.
InvalidateL2(r) ==
    LET next == IF Kind(r) = "purge" THEN "done" ELSE "bump" IN
    /\ \/ /\ pc[r] = "members" /\ Keep(r, "keys", orgIndex) /\ Go(r, "forget") /\ UNCHANGED <<shared, history>>
       \/ /\ pc[r] = "forget" /\ redis' = [k \in CacheKey |-> IF k \in got[r].keys THEN NoEntry ELSE redis[k]]
          /\ orgIndex' = {} /\ Go(r, next) /\ Keep(r, "keys", {}) /\ UNCHANGED <<version, history>>
       \/ /\ pc[r] \in {"members", "forget"} /\ Hurts(r) /\ Go(r, next) /\ Keep(r, "keys", {}) /\ UNCHANGED shared
    /\ UNCHANGED <<job, content, answer, memory, served>>

\* KbVersionRegistry.bump: locally, and in Redis if it answers.
Bump(r) ==
    /\ pc[r] = "bump" /\ Go(r, got[r].then)
    /\ \/ version' = version + 1 /\ local' = version + 1 /\ UNCHANGED history
       \/ Hurts(r) /\ local' = local + 1 /\ UNCHANGED version
    /\ Keep(r, "ver", local')
    /\ UNCHANGED <<job, content, answer, l1, recency, lsh, keysByOrg, bloom, lease, redis, orgIndex, served>>

\* sweepExpiredEntries: the removal from the org's keys comes after what was read of L1.
Sweep(r) ==
    \/ /\ pc[r] = "sweep"
       /\ Keep(r, "keys", {k \in keysByOrg : ~Fresh(k)}) /\ Go(r, "sweepKey")
       /\ UNCHANGED <<job, content, answer, memory, shared, served, history>>
    \/ /\ pc[r] = "sweepKey"
       /\ RemoveAll({k \in got[r].keys : l1[k] \in expired})
       /\ Go(r, "evictIds")
       /\ UNCHANGED <<job, got, content, answer, lsh, keysByOrg, bloom, local, lease, shared, served, history>>

\* clearAll, and a restart of the process: what is not in Redis is gone.
Forget ==
    /\ l1' = [k \in CacheKey |-> NoEntry] /\ recency' = <<>>
    /\ lsh' = {} /\ bloom' = {} /\ keysByOrg' = {}
    /\ lease' = [k \in CacheKey |-> NoEntry]

ClearAll(r) ==
    /\ pc[r] = "start" /\ Kind(r) = "clear" /\ Forget /\ Go(r, "done")
    /\ UNCHANGED <<job, got, content, answer, local, shared, served, history>>

\* Calls that a restart cuts short look failed to their callers.
LookupSteps == {"exact", "promote", "hit", "semantic", "miss", "wait"}
SharedSteps == {"victim", "evict", "evictIds"}
StoreSteps == {"put", "track", "l2", "l2index", "complete"}
InvalidateSteps == {"inv", "invLsh", "members", "forget", "bump"}
Stores(r) == pc[r] \in StoreSteps \/ (pc[r] \in SharedSteps /\ got[r].then \in StoreSteps)
LooksUp(r) == pc[r] \in LookupSteps \/ (pc[r] \in SharedSteps /\ Kind(r) = "ask" /\ got[r].then \notin StoreSteps)
Sweeping(r) == pc[r] \in {"sweep", "sweepKey"} \/ (pc[r] = "evictIds" /\ Kind(r) = "sweep")
CutShort(r) ==
    CASE Stores(r) \/ Sweeping(r) -> "done"
      [] LooksUp(r) -> "retrieve"
      [] pc[r] \in InvalidateSteps -> got[r].then
      [] OTHER -> pc[r]

Restart ==
    /\ Mishap /\ restarts' = restarts + 1
    /\ pc' = [r \in Req |-> CutShort(r)]
    /\ hurt' = hurt \cup {r \in Req : CutShort(r) # pc[r]}
    /\ served' = [r \in Req |-> IF Kind(r) = "ask" /\ CutShort(r) = "done" /\ pc[r] # "done" THEN r ELSE served[r]]
    /\ got' = [r \in Req |-> IF pc[r] \in LookupSteps \cup SharedSteps THEN [got[r] EXCEPT !.then = "done"] ELSE got[r]]
    /\ Forget /\ local' = 0
    /\ UNCHANGED <<job, content, answer, shared, expired, met>>

Expire(e) ==
    /\ e \notin expired /\ Mishap
    /\ \E k \in CacheKey : l1[k] = e \/ redis[k] = e
    /\ expired' = expired \cup {e}
    /\ UNCHANGED <<job, pc, got, content, answer, memory, shared, served, met, hurt, restarts>>

-----------------------------------------------------------------------------
(* Articles *)

Subject(r) == IF Kind(r) = "create" THEN r ELSE On(r)

\* An edit of a row that exists; a new article is a row of its own.
Write(r) ==
    LET a == Subject(r) IN
    \/ /\ pc[r] = "start" /\ Kind(r) \in {"update", "delete"}
       /\ Go(r, IF article[a].status = "none" THEN "done" ELSE IF Kind(r) = "update" THEN "write" ELSE "unindex")
       /\ Keep(r, "then", IF Kind(r) = "delete" THEN "drop" ELSE "flag")
       /\ UNCHANGED <<job, content, answer, memory, shared, served, history>>
    \/ /\ \/ pc[r] = "start" /\ Kind(r) = "create"
          \/ pc[r] = "write" /\ article[a].status # "none"
       /\ article' = [article EXCEPT ![a].status = Opt(r),
                                     ![a].text = IF Opt(r) = "published" THEN r ELSE @]
       /\ Go(r, "sync") /\ Keep(r, "then", "flag")
       /\ UNCHANGED <<job, index, answer, memory, shared, served, history>>
    \/ pc[r] = "write" /\ article[a].status = "none" /\ Pass(r, "write", "done")

SyncPublishedOnly(r) ==
    LET row == article[Subject(r)] IN
    /\ pc[r] = "sync"
    /\ Go(r, IF row.status = "published" THEN "index" ELSE "done")
    /\ Keep(r, "row", row.text)
    /\ UNCHANGED <<job, content, answer, memory, shared, served, history>>

\* syncToIndex reads the row again; one that is not published leaves the index only
\* if the row says that it is there.
Sync(r) ==
    LET row == article[Subject(r)] IN
    /\ pc[r] = "sync"
    /\ Go(r, CASE row.status = "published" -> "index"
                [] row.status = "archived" /\ row.indexed -> "unindex"
                [] OTHER -> "done")
    /\ Keep(r, "row", row.text)
    /\ UNCHANGED <<job, content, answer, memory, shared, served, history>>

Chunks(a) == {c \in index : c[1] = a}

\* The AI service deletes the old chunks, embeds and inserts the new ones and
\* invalidates the cache; a call that fails is a warning.
Index(r) ==
    LET a == Subject(r) IN
    /\ \/ /\ pc[r] = "unindex" /\ index' = index \ Chunks(a) /\ Go(r, "inv") /\ UNCHANGED <<got, history>>
       \/ /\ pc[r] = "index" /\ index' = index \ Chunks(a) /\ Go(r, "insert") /\ UNCHANGED <<got, history>>
       \/ /\ pc[r] = "insert" /\ index' = index \cup {<<a, got[r].row>>}
          /\ Go(r, "inv") /\ Keep(r, "ok", TRUE) /\ UNCHANGED history
       \/ /\ pc[r] \in {"unindex", "index", "insert"} \/ (pc[r] = "inv" /\ Kind(r) # "purge")
          /\ Hurts(r) /\ Go(r, got[r].then) /\ UNCHANGED <<got, index>>
    /\ UNCHANGED <<job, article, answer, memory, shared, served>>

\* vectorIndexed says whether the call was answered; the answer may be lost.
Flag(r) ==
    LET a == Subject(r) IN
    /\ pc[r] = "flag" /\ Go(r, "done")
    /\ \E ok \in BOOLEAN :
        /\ IF ok = got[r].ok THEN UNCHANGED history ELSE got[r].ok /\ Hurts(r)
        /\ article' = IF article[a].status = "none" THEN article ELSE [article EXCEPT ![a].indexed = ok]
    /\ got' = [got EXCEPT ![r] = [Nothing EXCEPT !.ver = got[r].ver]]
    /\ UNCHANGED <<job, index, answer, memory, shared, served>>

Drop(r) ==
    /\ pc[r] = "drop" /\ Go(r, "done")
    /\ article' = [article EXCEPT ![Subject(r)] = Gone]
    /\ got' = [got EXCEPT ![r] = [Nothing EXCEPT !.ver = got[r].ver]]
    /\ UNCHANGED <<job, index, answer, memory, shared, served, history>>

Edit(r) == Write(r) \/ Sync(r) \/ Index(r) \/ Flag(r) \/ Drop(r)

-----------------------------------------------------------------------------
(* The specification *)

CacheNext ==
    \/ \E r \in Req : Submit(r)
    \/ \E r \in Req : Question(r) \/ Edit(r) \/ InvalidateL1(r) \/ InvalidateL2(r) \/ Bump(r)
                       \/ Sweep(r) \/ ClearAll(r)
    \/ Restart
    \/ \E e \in Id : Expire(e)

CacheSpec == CacheInit /\ [][CacheNext]_cacheVars

-----------------------------------------------------------------------------
(* Properties *)

Edits == {"create", "update", "delete"}
\* Request s had ended when r arrived.
Before(s, r) == s < r /\ {s, r} \notin met
Alone(r) == \A q \in Req : {q, r} \notin met
\* The edit ran to its end and raised the version.
Retires(e) == pc[e] = "done" /\ Kind(e) \in Edits /\ got[e].ver > 0 /\ e \notin hurt

\* An answer given before an edit that reached the index and the cache is not given
\* after it, whatever else runs meanwhile and whatever is evicted, swept, expired or
\* restarted: the version in the key retires it (indexing.py, KbVersionRegistry).  Two excuses: the
\* question met a failure, or an edit did before the answer was there, for a version raised in one
\* process only is handed out again by Redis.
RetiredStaysRetired ==
    \A r, e \in Req : \A s \in Id :
        served[r] = s /\ Retires(e) /\ Before(s, e) /\ Before(e, r)
            => r \in hurt \/ \E f \in hurt : Kind(f) \in Edits /\ ~Before(s, f)

\* "Drops every cached answer for one organization": an answer given before a purge
\* that nothing else overlaps is not given after it, unless a call failed or a question
\* overlapped another request after the answer was on its way: the latter may have taken
\* the answer's key from the organisation's set.
Mixed(s, p) ==
    \E a, b \in Req : /\ a < p /\ b < p /\ a # b /\ {a, b} \in met /\ Kind(a) = "ask"
                       /\ ~(Before(a, s) /\ Before(b, s))
PurgeDrops ==
    \A r, p \in Req : \A s \in Id :
        served[r] = s /\ Kind(p) = "purge" /\ Before(s, p) /\ Before(p, r)
            => ~Alone(p) \/ Mixed(s, p) \/ hurt # {}

\* At rest the index holds the text of the published articles and nothing else,
\* unless two edits overlapped or a call failed (knowledge.service syncToIndex).
IndexFollowsRows ==
    (InFlight = {} /\ hurt = {}
     /\ \A e, f \in Req : {Kind(e), Kind(f)} \subseteq Edits => {e, f} \notin met \/ e = f)
        => index = {<<a, article[a].text>> : a \in {b \in Id : Published(b)}}

\* At rest an entry of L1 can be found by a paraphrase and by an invalidation, unless
\* requests overlapped (promote, evict, the eviction listener, the sweep).
EntriesAreTracked ==
    InFlight = {} /\ met = {} => \A k \in CacheKey : l1[k] # NoEntry => k \in lsh \cap keysByOrg

\* A purge finds every entry: those it cannot find are the ones of requests that overlapped.
PurgesHold == PurgeDrops /\ EntriesAreTracked

\* "Drafts/archived articles shouldn't be retrievable by the AI" (knowledge.service).
ArchivedIsNotRetrievable == InFlight = {} => \A chunk \in index : article[chunk[1]].status # "archived"

\* "an answer grounded in an article that has since been edited must not be reused"
\* (indexing.py): with nothing failing, a question that no edit overlaps is answered
\* from the text the index holds.
NeverStale ==
    \A r \in Req :
        (InFlight = {} /\ hurt = {} /\ restarts = 0 /\ served[r] \notin {NoEntry, r}
         /\ \A e \in Req : Kind(e) \in Edits => Before(e, r))
            => answer[served[r]] = index
=============================================================================
