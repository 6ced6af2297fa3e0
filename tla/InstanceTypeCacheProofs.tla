----------------------- MODULE InstanceTypeCacheProofs -----------------------
(***************************************************************************)
(* Proofs about InstanceTypeCache, for every set of goroutines and         *)
(* offerings, every catalogue history and all TTLs.                        *)
(***************************************************************************)
EXTENDS InstanceTypeCache, TLAPS

\* The part of List that runs under refreshMu before a catalogue is in hand,
\* and the part of it that has found the cache expired.
Refreshing == {"recheck", "api", "store", "stale"}
Asking == {"api", "store", "stale"}

\* The offerings a call has overlaid so far carry live availability.
Overlaid(c) ==
    \A o \in FilterByLocations(c.types, c.want) :
        /\ o \notin Priced[c.types] \/ o \in c.todo => o \notin c.avail
        /\ o \notin c.todo =>
              /\ items[o] - UnavailableTTL < c.start /\ now < items[o] => o \notin c.avail
              /\ o \in Priced[c.types] /\ items[o] <= c.start => o \in c.avail

\* What a call knows, step by step: a refresher holds refreshMu, the cache
\* stays expired while it asks, and what it is about to store is no older
\* than what is cached.
CallInv(t, c) ==
    /\ c.start <= now /\ c.floor <= returned
    /\ c.pc \in Refreshing => refreshMu = t
    /\ c.pc \in Asking => ~Fresh
    /\ c.pc = "store" => c.types \in cached..upstream /\ c.types # None
    /\ c.pc \notin {"store", "apply", "done"} => c.types = None
    /\ c.pc \notin {"apply", "done"} => c.avail = {} /\ c.todo = {} /\ c.via # "error"
    /\ c.pc = "apply" => c.via # "error"
    /\ c.pc = "done" => c.todo = {}
    /\ c.pc \in {"apply", "done"} => c.types <= cached
    /\ c.pc \in {"apply", "done"} /\ c.via # "error" =>
          /\ c.types \in Versions /\ c.floor <= c.types
          /\ c.via = "hit" => c.start < c.stamp + CacheTTL
          /\ Overlaid(c)

CacheInv ==
    /\ cached # None => expiry = cachedAt + CacheTTL
    /\ returned <= cached /\ cached <= upstream

IInv == TypeOK /\ CacheInv /\ \A t \in Threads : CallInv(t, th[t])

-----------------------------------------------------------------------------
(* The inductive invariant.                                                *)

\* A call that has not begun is well typed.
LEMMA IdleCallType == IdleCall \in Calls
BY DEF IdleCall, Calls, None

\* filterByLocations selects among the offerings there are.
LEMMA FilterType ==
    ASSUME NEW v \in Versions, NEW want \in SUBSET Offerings
    PROVE  FilterByLocations(v, want) \in SUBSET Offerings
BY ConstantsAssumption DEF FilterByLocations

\* A provider that has fetched nothing satisfies the inductive invariant.
LEMMA InitEstablishes == Init => IInv
<1> SUFFICES ASSUME Init PROVE IInv
  OBVIOUS
<1>1. TypeOK
  BY IdleCallType, ConstantsAssumption DEF Init, TypeOK, Versions, None
<1>2. CacheInv
  BY DEF Init, CacheInv, None
<1>3. ASSUME NEW t \in Threads PROVE CallInv(t, th[t])
  <2>1. th[t] = IdleCall
    BY DEF Init
  <2> QED BY <2>1 DEF Init, CallInv, IdleCall, Refreshing, Asking, None
<1> QED BY <1>1, <1>2, <1>3 DEF IInv

\* A step of call t alone that leaves the clock, the caches and refreshMu as
\* they are disturbs no other call.
LEMMA LocalStep ==
    ASSUME IInv, NEW t \in Threads, NEW c \in Calls,
           th' = [th EXCEPT ![t] = c], CallInv(t, c),
           UNCHANGED <<now, upstream, cacheVars, refreshMu, items, returned>>
    PROVE  IInv'
<1>1. TypeOK'
  BY DEF IInv, TypeOK, cacheVars
<1>2. CacheInv'
  BY DEF IInv, CacheInv, cacheVars
<1>3. ASSUME NEW u \in Threads PROVE CallInv(u, th[u])'
  <2>1. th'[u] = IF u = t THEN c ELSE th[u]
    BY DEF IInv, TypeOK
  <2>2. CallInv(u, th'[u])
    BY <2>1 DEF IInv
  <2> QED BY <2>2 DEF CallInv, Overlaid, Fresh, cacheVars
<1> QED BY <1>1, <1>2, <1>3 DEF IInv

\* The catalogue served from the cache, fresh or stale, is sound for its caller.
LEMMA ServeFromCache ==
    ASSUME IInv, NEW t \in Threads, NEW how \in {"hit", "stale"},
           th[t].pc \notin {"idle", "store", "apply", "done"},
           cached # None, how = "hit" => now < expiry,
           Serve(t, cached, how, cachedAt),
           UNCHANGED <<now, upstream, cacheVars, refreshMu, items, returned>>
    PROVE  IInv'
<1> DEFINE c == [th[t] EXCEPT !.pc = "apply", !.types = cached, !.via = how, !.stamp = cachedAt,
                              !.todo = FilterByLocations(cached, th[t].want)]
<1>1. th[t] \in Calls /\ th \in [Threads -> Calls] /\ CallInv(t, th[t])
  BY DEF IInv, TypeOK
<1>2. cached \in Versions /\ cachedAt \in Nat /\ now \in Nat /\ returned \in Nat
  BY DEF IInv, TypeOK, None, Versions
<1>3. th' = [th EXCEPT ![t] = c]
  BY <1>1 DEF Serve
<1>4. FilterByLocations(cached, th[t].want) \in SUBSET Offerings
  BY <1>1, <1>2, FilterType DEF Calls
<1>5. c \in Calls
  BY <1>1, <1>2, <1>4 DEF Calls
<1>6. /\ c.pc = "apply" /\ c.types = cached /\ c.via = how /\ c.stamp = cachedAt
      /\ c.todo = FilterByLocations(cached, th[t].want) /\ c.want = th[t].want
      /\ c.avail = th[t].avail /\ c.start = th[t].start /\ c.floor = th[t].floor
  BY <1>1 DEF Calls
<1> HIDE DEF c
<1>7. /\ th[t].avail = {} /\ th[t].start <= now /\ th[t].floor <= returned
  BY <1>1 DEF CallInv
<1>8. returned <= cached /\ expiry = cachedAt + CacheTTL
  BY DEF IInv, CacheInv
<1>9. th[t].start \in Nat /\ th[t].floor \in Nat
  BY <1>1 DEF Calls, Versions, None
<1>10. Overlaid(c)
  BY <1>6, <1>7 DEF Overlaid
<1>11. CallInv(t, c)
  BY <1>2, <1>6, <1>7, <1>8, <1>9, <1>10, ConstantsAssumption
     DEF CallInv, Refreshing, Asking, Versions
<1> QED BY <1>3, <1>5, <1>11, LocalStep

\* A call that only moves on to its next step.
LEMMA MoveOn ==
    ASSUME IInv, NEW t \in Threads,
           NEW next \in {"lock", "recheck", "api", "stale", "done"},
           Step(t, next),
           \/ th[t].pc = "fresh" /\ next = "lock"
           \/ th[t].pc = "recheck" /\ next = "api" /\ ~Fresh
           \/ th[t].pc = "api" /\ next = "stale"
           \/ th[t].pc = "apply" /\ th[t].todo = {} /\ next = "done",
           UNCHANGED <<now, upstream, cacheVars, refreshMu, items, returned>>
    PROVE  IInv'
<1> DEFINE c == [th[t] EXCEPT !.pc = next]
<1>1. th[t] \in Calls /\ th \in [Threads -> Calls] /\ CallInv(t, th[t])
  BY DEF IInv, TypeOK
<1>2. th' = [th EXCEPT ![t] = c]
  BY <1>1 DEF Step
<1>3. c \in Calls
  BY <1>1 DEF Calls
<1>4. /\ c.pc = next /\ c.types = th[t].types /\ c.via = th[t].via /\ c.stamp = th[t].stamp
      /\ c.todo = th[t].todo /\ c.want = th[t].want /\ c.avail = th[t].avail
      /\ c.start = th[t].start /\ c.floor = th[t].floor
  BY <1>1 DEF Calls
<1> HIDE DEF c
<1>5. Overlaid(th[t]) => Overlaid(c)
  BY <1>4 DEF Overlaid
<1>6. CallInv(t, c)
  BY <1>1, <1>4, <1>5 DEF CallInv, Refreshing, Asking
<1> QED BY <1>2, <1>3, <1>6, LocalStep

\* A new call of List starts from what has been returned so far.
LEMMA ListStartKeeps ==
    ASSUME IInv, NEW t \in Threads, ListStart(t)
    PROVE  IInv'
<1>1. PICK want \in Queries :
        th' = [th EXCEPT ![t] = [IdleCall EXCEPT !.pc = "fresh", !.want = want,
                                                 !.start = now, !.floor = returned]]
  BY DEF ListStart
<1> DEFINE c == [IdleCall EXCEPT !.pc = "fresh", !.want = want, !.start = now, !.floor = returned]
<1>2. now \in Nat /\ returned \in Versions \cup {None} /\ want \in SUBSET Offerings
  BY ConstantsAssumption DEF IInv, TypeOK
<1>3. c \in Calls
  BY <1>2, IdleCallType DEF Calls
<1>4. /\ c.pc = "fresh" /\ c.types = None /\ c.via = "none" /\ c.avail = {} /\ c.todo = {}
      /\ c.start = now /\ c.floor = returned
  BY DEF IdleCall
<1>5. th' = [th EXCEPT ![t] = c]
  BY <1>1
<1> HIDE DEF c
<1>6. CallInv(t, c)
  BY <1>2, <1>4 DEF CallInv, Refreshing, Asking, Versions, None
<1>7. UNCHANGED <<now, upstream, cacheVars, refreshMu, items, returned>>
  BY DEF ListStart
<1> QED BY <1>3, <1>5, <1>6, <1>7, LocalStep

\* Taking refreshMu while nobody holds it: no other call is refreshing.
LEMMA LockRefreshKeeps ==
    ASSUME IInv, NEW t \in Threads, LockRefresh(t)
    PROVE  IInv'
<1>1. /\ th[t].pc = "lock" /\ refreshMu = NoThread /\ refreshMu' = t /\ Step(t, "recheck")
      /\ UNCHANGED <<now, upstream, cacheVars, items, returned>>
  BY DEF LockRefresh
<1>2. th[t] \in Calls /\ th \in [Threads -> Calls] /\ CallInv(t, th[t])
  BY DEF IInv, TypeOK
<1> DEFINE c == [th[t] EXCEPT !.pc = "recheck"]
<1>3. th' = [th EXCEPT ![t] = c] /\ c \in Calls
  BY <1>1, <1>2 DEF Step, Calls
<1>4. /\ c.pc = "recheck" /\ c.types = th[t].types /\ c.via = th[t].via /\ c.avail = th[t].avail
      /\ c.todo = th[t].todo /\ c.start = th[t].start /\ c.floor = th[t].floor
  BY <1>2 DEF Calls
<1> HIDE DEF c
<1>5. TypeOK' /\ CacheInv'
  BY <1>1, <1>3 DEF IInv, TypeOK, CacheInv, cacheVars
<1>6. CallInv(t, th[t])'
  <2>1. th'[t] = c
    BY <1>2, <1>3
  <2> QED BY <1>1, <1>2, <1>4, <2>1 DEF CallInv, Refreshing, Asking, cacheVars
<1>7. ASSUME NEW u \in Threads \ {t} PROVE CallInv(u, th[u])'
  <2>1. th'[u] = th[u] /\ CallInv(u, th[u])
    BY <1>2, <1>3 DEF IInv
  <2>2. th[u].pc \notin Refreshing
    BY <1>1, <2>1, ConstantsAssumption DEF CallInv
  <2> QED BY <1>1, <2>1, <2>2 DEF CallInv, Overlaid, Fresh, cacheVars
<1> QED BY <1>5, <1>6, <1>7 DEF IInv

\* The catalogue hcloud answers with is no older than the one cached: only the
\* holder of refreshMu fetches, and versions only grow.
LEMMA ApiAnswersKeeps ==
    ASSUME IInv, NEW t \in Threads, ApiAnswers(t)
    PROVE  IInv'
<1>1. /\ th[t].pc = "api" /\ th' = [th EXCEPT ![t].pc = "store", ![t].types = upstream]
      /\ UNCHANGED <<now, upstream, cacheVars, refreshMu, items, returned>>
  BY DEF ApiAnswers
<1>2. th[t] \in Calls /\ th \in [Threads -> Calls] /\ CallInv(t, th[t])
  BY DEF IInv, TypeOK
<1>3. upstream \in Versions /\ upstream \in cached..upstream /\ upstream # None
  BY DEF IInv, TypeOK, CacheInv, Versions, None
<1> DEFINE c == [th[t] EXCEPT !.pc = "store", !.types = upstream]
<1>4. th' = [th EXCEPT ![t] = c] /\ c \in Calls
  BY <1>1, <1>2, <1>3 DEF Calls
<1>5. /\ c.pc = "store" /\ c.types = upstream /\ c.via = th[t].via /\ c.avail = th[t].avail
      /\ c.todo = th[t].todo /\ c.start = th[t].start /\ c.floor = th[t].floor
  BY <1>2 DEF Calls
<1> HIDE DEF c
<1>6. CallInv(t, c)
  BY <1>1, <1>2, <1>3, <1>5 DEF CallInv, Refreshing, Asking
<1> QED BY <1>1, <1>4, <1>6, LocalStep

\* Only the holder of refreshMu stores, and what it stores is no older.
LEMMA StoreKeeps ==
    ASSUME IInv, NEW t \in Threads, Store(t)
    PROVE  IInv'
<1>1. /\ th[t].pc = "store"
      /\ cached' = th[t].types /\ cachedAt' = now /\ expiry' = now + CacheTTL
      /\ Serve(t, th[t].types, "fetched", now)
      /\ UNCHANGED <<now, upstream, refreshMu, items, returned>>
  BY DEF Store
<1>2. th[t] \in Calls /\ th \in [Threads -> Calls] /\ CallInv(t, th[t])
  BY DEF IInv, TypeOK
<1>3. /\ now \in Nat /\ cached \in Nat /\ returned \in Nat /\ upstream \in Nat
      /\ returned <= cached /\ cached <= upstream
  BY DEF IInv, TypeOK, CacheInv, Versions, None
<1>4. /\ th[t].types \in Versions /\ cached <= th[t].types /\ refreshMu = t
      /\ th[t].avail = {} /\ th[t].start <= now /\ th[t].floor <= returned
      /\ th[t].types <= upstream
  <2>1. /\ th[t].types \in cached..upstream /\ th[t].types # None /\ refreshMu = t
        /\ th[t].avail = {} /\ th[t].start <= now /\ th[t].floor <= returned
    BY <1>1, <1>2 DEF CallInv, Refreshing
  <2>2. th[t].types \in Versions
    BY <1>2, <2>1 DEF Calls
  <2> QED BY <1>3, <2>1, <2>2
<1> DEFINE w == FilterByLocations(th[t].types, th[t].want)
           c == [th[t] EXCEPT !.pc = "apply", !.types = th[t].types, !.via = "fetched",
                              !.stamp = now, !.todo = w]
<1>5. w \in SUBSET Offerings
  BY <1>2, <1>4, FilterType DEF Calls
<1>6. th' = [th EXCEPT ![t] = c]
  BY <1>1, <1>2 DEF Serve
<1>7. c \in Calls
  BY <1>2, <1>3, <1>5 DEF Calls
<1>8. /\ c.pc = "apply" /\ c.types = th[t].types /\ c.via = "fetched" /\ c.todo = w
      /\ c.want = th[t].want /\ c.avail = th[t].avail
      /\ c.start = th[t].start /\ c.floor = th[t].floor
  BY <1>2 DEF Calls
<1> HIDE DEF c, w
<1>9. th'[t] = c
  BY <1>2, <1>6
<1>10. TypeOK'
  BY <1>1, <1>2, <1>3, <1>4, <1>6, <1>7, ConstantsAssumption DEF IInv, TypeOK
<1>11. CacheInv'
  <2>1. th[t].types \in Nat
    BY <1>4 DEF Versions
  <2> QED BY <1>1, <1>3, <1>4, <2>1 DEF CacheInv
<1>12. CallInv(t, th[t])'
  <2>1. Overlaid(th[t])'
    BY <1>4, <1>8, <1>9 DEF Overlaid, w
  <2>2. th[t].floor \in Nat /\ th[t].types \in Nat
    BY <1>2, <1>4 DEF Calls, Versions, None
  <2>3. th[t].floor <= th[t].types
    BY <1>3, <1>4, <2>2
  <2> QED BY <1>1, <1>4, <1>8, <1>9, <2>1, <2>2, <2>3 DEF CallInv, Refreshing, Asking
<1>13. ASSUME NEW u \in Threads \ {t} PROVE CallInv(u, th[u])'
  <2>1. th'[u] = th[u] /\ CallInv(u, th[u]) /\ th[u] \in Calls
    BY <1>2, <1>6 DEF IInv
  <2>2. th[u].pc \notin Refreshing
    BY <1>4, <2>1 DEF CallInv
  <2>3. th[u].types \in Nat /\ th[t].types \in Nat
    BY <1>4, <2>1 DEF Calls, Versions, None
  <2>4. th[u].types <= cached => th[u].types <= th[t].types
    BY <1>3, <1>4, <2>3
  <2>5. Overlaid(th[u]) => Overlaid(th[u])'
    BY <1>1, <2>1 DEF Overlaid
  <2> QED BY <1>1, <2>1, <2>2, <2>4, <2>5 DEF CallInv, Refreshing, Asking
<1> QED BY <1>10, <1>11, <1>12, <1>13 DEF IInv

\* One offering overlaid: priced and unmarked at this instant.
LEMMA ApplyKeeps ==
    ASSUME IInv, NEW t \in Threads, NEW o \in Offerings, ApplyAvailability(t, o)
    PROVE  IInv'
<1> DEFINE up == o \in Priced[th[t].types] /\ ~IsUnavailable(o)
           av == IF up THEN th[t].avail \cup {o} ELSE th[t].avail
           c == [th[t] EXCEPT !.todo = th[t].todo \ {o}, !.avail = av]
<1>1. /\ th[t].pc = "apply" /\ o \in th[t].todo
      /\ UNCHANGED <<now, upstream, cacheVars, refreshMu, items, returned>>
  BY DEF ApplyAvailability
<1>2. th[t] \in Calls /\ th \in [Threads -> Calls] /\ CallInv(t, th[t])
  BY DEF IInv, TypeOK
<1>3. th' = [th EXCEPT ![t] = c]
  BY <1>2 DEF ApplyAvailability
<1>4. av \in SUBSET Offerings
  BY <1>2 DEF Calls
<1>5. c \in Calls
  BY <1>2, <1>4 DEF Calls
<1>6. /\ c.pc = "apply" /\ c.types = th[t].types /\ c.via = th[t].via /\ c.stamp = th[t].stamp
      /\ c.todo = th[t].todo \ {o} /\ c.want = th[t].want /\ c.avail = av
      /\ c.start = th[t].start /\ c.floor = th[t].floor
  BY <1>1, <1>2 DEF Calls
<1>7. /\ now \in Nat /\ items[o] \in Nat /\ th[t].start \in Nat /\ th[t].start <= now
  BY <1>2 DEF IInv, TypeOK, Calls, CallInv
<1>8. Overlaid(th[t])
  BY <1>1, <1>2 DEF CallInv
<1> HIDE DEF c
<1>9. Overlaid(c)
  <2> SUFFICES ASSUME NEW p \in FilterByLocations(c.types, c.want)
               PROVE  /\ p \notin Priced[c.types] \/ p \in c.todo => p \notin c.avail
                      /\ p \notin c.todo =>
                           /\ items[p] - UnavailableTTL < c.start /\ now < items[p]
                                => p \notin c.avail
                           /\ p \in Priced[c.types] /\ items[p] <= c.start => p \in c.avail
    BY DEF Overlaid
  <2>1. CASE p # o
    BY <1>6, <1>8, <2>1 DEF Overlaid
  <2>2. CASE p = o
    <3>1. o \notin th[t].avail
      BY <1>1, <1>6, <1>8, <2>2 DEF Overlaid
    <3>2. o \in av <=> up
      BY <3>1
    <3>3. up => ~(now < items[o])
      BY DEF IsUnavailable
    <3>4. o \in Priced[th[t].types] /\ items[o] <= th[t].start => up
      BY <1>7 DEF IsUnavailable
    <3> QED BY <1>6, <2>2, <3>2, <3>3, <3>4
  <2> QED BY <2>1, <2>2
<1>10. CallInv(t, c)
  BY <1>1, <1>2, <1>6, <1>9 DEF CallInv, Refreshing, Asking
<1> QED BY <1>1, <1>3, <1>5, <1>10, LocalStep

\* A call that returns hcloud's error hands out no catalogue.
LEMMA ReturnErrorKeeps ==
    ASSUME IInv, NEW t \in Threads, ReturnError(t)
    PROVE  IInv'
<1> DEFINE c == [th[t] EXCEPT !.pc = "done", !.via = "error"]
<1>1. /\ th[t].pc = "stale" /\ th' = [th EXCEPT ![t].pc = "done", ![t].via = "error"]
      /\ UNCHANGED <<now, upstream, cacheVars, refreshMu, items, returned>>
  BY DEF ReturnError
<1>2. th[t] \in Calls /\ th \in [Threads -> Calls] /\ CallInv(t, th[t])
  BY DEF IInv, TypeOK
<1>3. th' = [th EXCEPT ![t] = c] /\ c \in Calls
  BY <1>1, <1>2 DEF Calls
<1>4. /\ c.pc = "done" /\ c.via = "error" /\ c.types = th[t].types /\ c.todo = th[t].todo
      /\ c.start = th[t].start /\ c.floor = th[t].floor
  BY <1>2 DEF Calls
<1>5. cached \in Nat
  BY DEF IInv, TypeOK, Versions, None
<1> HIDE DEF c
<1>6. CallInv(t, c)
  BY <1>1, <1>2, <1>4, <1>5 DEF CallInv, Refreshing, Asking, None
<1> QED BY <1>1, <1>3, <1>6, LocalStep

\* The deferred unlock releases refreshMu only when this call holds it.
LEMMA ListReturnKeeps ==
    ASSUME IInv, NEW t \in Threads, ListReturn(t)
    PROVE  IInv'
<1>1. /\ th[t].pc = "done"
      /\ refreshMu' = IF refreshMu = t THEN NoThread ELSE refreshMu
      /\ returned' = IF th[t].types > returned THEN th[t].types ELSE returned
      /\ th' = [th EXCEPT ![t] = IdleCall]
      /\ UNCHANGED <<now, upstream, cacheVars, items>>
  BY DEF ListReturn
<1>2. th[t] \in Calls /\ th \in [Threads -> Calls] /\ CallInv(t, th[t])
  BY DEF IInv, TypeOK
<1>3. th[t].types \in Versions \cup {None} /\ th[t].types <= cached
  BY <1>1, <1>2 DEF Calls, CallInv
<1>4. returned' \in Versions \cup {None} /\ returned' <= cached /\ returned <= returned'
  BY <1>1, <1>3 DEF IInv, TypeOK, CacheInv, Versions, None
<1>5. returned \in Nat /\ returned' \in Nat /\ now \in Nat
  BY <1>4 DEF IInv, TypeOK, Versions, None
<1>6. TypeOK'
  BY <1>1, <1>2, <1>4, IdleCallType DEF IInv, TypeOK, cacheVars
<1>7. CacheInv'
  BY <1>1, <1>4 DEF IInv, CacheInv, cacheVars
<1>8. CallInv(t, th[t])'
  <2>1. th'[t] = IdleCall
    BY <1>1, <1>2
  <2> QED BY <1>1, <1>5, <2>1 DEF CallInv, IdleCall, Refreshing, Asking, None
<1>9. ASSUME NEW u \in Threads \ {t} PROVE CallInv(u, th[u])'
  <2>1. th'[u] = th[u] /\ CallInv(u, th[u]) /\ th[u] \in Calls
    BY <1>1, <1>2 DEF IInv
  <2>2. th[u].floor <= returned'
    BY <1>4, <1>5, <2>1 DEF CallInv, Calls, Versions, None
  <2>3. th[u].pc \in Refreshing => refreshMu' = u
    BY <1>1, <2>1 DEF CallInv
  <2>4. Overlaid(th[u]) => Overlaid(th[u])'
    BY <1>1, <2>1 DEF Overlaid
  <2> QED BY <1>1, <2>1, <2>2, <2>3, <2>4 DEF CallInv, Fresh, cacheVars
<1> QED BY <1>6, <1>7, <1>8, <1>9 DEF IInv

\* A mark made now began after every call did, so no call answers for it.
LEMMA MarkUnavailableKeeps ==
    ASSUME IInv, NEW m \in Offerings, MarkUnavailable(m)
    PROVE  IInv'
<1>1. /\ items' = [items EXCEPT ![m] = now + UnavailableTTL]
      /\ UNCHANGED <<now, upstream, cacheVars, refreshMu, th, returned>>
  BY DEF MarkUnavailable
<1>2. now \in Nat /\ items \in [Offerings -> Nat] /\ UnavailableTTL \in Nat \ {0}
  BY ConstantsAssumption DEF IInv, TypeOK
<1>3. TypeOK' /\ CacheInv'
  BY <1>1, <1>2 DEF IInv, TypeOK, CacheInv, cacheVars
<1>4. ASSUME NEW t \in Threads PROVE CallInv(t, th[t])'
  <2>1. CallInv(t, th[t]) /\ th[t] \in Calls
    BY DEF IInv, TypeOK
  <2>2. th[t].start \in Nat /\ th[t].start <= now
    BY <2>1 DEF CallInv, Calls
  <2>3. ASSUME Overlaid(th[t]) PROVE Overlaid(th[t])'
    <3> SUFFICES ASSUME NEW o \in FilterByLocations(th[t].types, th[t].want)
                 PROVE  /\ o \notin Priced[th[t].types] \/ o \in th[t].todo => o \notin th[t].avail
                        /\ o \notin th[t].todo =>
                             /\ items'[o] - UnavailableTTL < th[t].start /\ now < items'[o]
                                  => o \notin th[t].avail
                             /\ o \in Priced[th[t].types] /\ items'[o] <= th[t].start
                                  => o \in th[t].avail
      BY <1>1 DEF Overlaid
    <3>1. CASE o # m
      BY <1>1, <1>2, <2>3, <3>1 DEF Overlaid
    <3>2. CASE o = m
      <4>1. items'[o] = now + UnavailableTTL
        BY <1>1, <1>2, <3>2
      <4>2. ~(items'[o] - UnavailableTTL < th[t].start) /\ ~(items'[o] <= th[t].start)
        BY <1>2, <2>2, <4>1
      <4> QED BY <2>3, <4>2 DEF Overlaid
    <3> QED BY <3>1, <3>2
  <2> QED BY <1>1, <2>1, <2>3 DEF CallInv, Fresh, cacheVars
<1> QED BY <1>3, <1>4 DEF IInv

\* As time passes an expired copy stays expired and marks only end.
LEMMA TickKeeps ==
    ASSUME IInv, Tick
    PROVE  IInv'
<1>1. now' = now + 1 /\ UNCHANGED <<upstream, cacheVars, refreshMu, items, th, returned>>
  BY DEF Tick
<1>2. now \in Nat /\ items \in [Offerings -> Nat] /\ expiry \in Nat
  BY DEF IInv, TypeOK
<1>3. TypeOK' /\ CacheInv'
  BY <1>1, <1>2 DEF IInv, TypeOK, CacheInv, cacheVars
<1>4. ~Fresh => ~Fresh'
  BY <1>1, <1>2 DEF Fresh, cacheVars
<1>5. ASSUME NEW t \in Threads PROVE CallInv(t, th[t])'
  <2>1. CallInv(t, th[t]) /\ th[t] \in Calls
    BY DEF IInv, TypeOK
  <2>2. th[t].start <= now'
    BY <1>1, <1>2, <2>1 DEF CallInv, Calls
  <2>3. ASSUME Overlaid(th[t]), th[t].types \in Versions PROVE Overlaid(th[t])'
    <3>1. FilterByLocations(th[t].types, th[t].want) \subseteq Offerings
      BY <2>1, <2>3, FilterType DEF Calls
    <3>2. \A o \in Offerings : now' < items[o] => now < items[o]
      BY <1>1, <1>2
    <3> QED BY <1>1, <2>3, <3>1, <3>2 DEF Overlaid
  <2> QED BY <1>1, <1>4, <2>1, <2>2, <2>3 DEF CallInv, cacheVars
<1> QED BY <1>3, <1>5 DEF IInv

\* A newer catalogue upstream leaves the calls' answers no newer than it.
LEMMA CatalogueChangesKeeps ==
    ASSUME IInv, CatalogueChanges
    PROVE  IInv'
<1>1. /\ upstream < MaxVersion /\ upstream' = upstream + 1
      /\ UNCHANGED <<now, cacheVars, refreshMu, items, th, returned>>
  BY DEF CatalogueChanges
<1>2. upstream \in Nat /\ cached \in Nat
  BY DEF IInv, TypeOK, Versions, None
<1>3. TypeOK'
  BY <1>1, ConstantsAssumption DEF IInv, TypeOK, cacheVars, Versions
<1>4. CacheInv'
  BY <1>1, <1>2 DEF IInv, CacheInv, cacheVars
<1>5. ASSUME NEW t \in Threads PROVE CallInv(t, th[t])'
  <2>1. CallInv(t, th[t])
    BY DEF IInv
  <2>2. th[t].types \in cached..upstream => th[t].types \in cached..upstream'
    BY <1>1, <1>2
  <2>3. Overlaid(th[t]) => Overlaid(th[t])'
    BY <1>1 DEF Overlaid
  <2> QED BY <1>1, <2>1, <2>2, <2>3 DEF CallInv, Fresh, cacheVars
<1> QED BY <1>3, <1>4, <1>5 DEF IInv

\* Every step of a List call keeps the inductive invariant.
LEMMA ListKeeps ==
    ASSUME IInv, NEW t \in Threads, List(t)
    PROVE  IInv'
<1>1. CASE ListStart(t)
  BY <1>1, ListStartKeeps
<1>2. CASE LockRefresh(t)
  BY <1>2, LockRefreshKeeps
<1>3. CASE ApiAnswers(t)
  BY <1>3, ApiAnswersKeeps
<1>4. CASE ApiFails(t)
  BY <1>4, MoveOn DEF ApiFails
<1>5. CASE FreshCache(t)
  <2>1. CASE Fresh
    BY <1>5, <2>1, ServeFromCache DEF FreshCache, Fresh
  <2>2. CASE ~Fresh
    BY <1>5, <2>2, MoveOn DEF FreshCache
  <2> QED BY <2>1, <2>2
<1>6. CASE RecheckCache(t)
  <2>1. CASE Fresh
    BY <1>6, <2>1, ServeFromCache DEF RecheckCache, Fresh
  <2>2. CASE ~Fresh
    BY <1>6, <2>2, MoveOn DEF RecheckCache
  <2> QED BY <2>1, <2>2
<1>7. CASE Store(t)
  BY <1>7, StoreKeeps
<1>8. CASE ServeStale(t)
  BY <1>8, ServeFromCache DEF ServeStale
<1>9. CASE ReturnError(t)
  BY <1>9, ReturnErrorKeeps
<1>10. CASE \E o \in Offerings : ApplyAvailability(t, o)
  BY <1>10, ApplyKeeps
<1>11. CASE FinishApply(t)
  BY <1>11, MoveOn DEF FinishApply
<1>12. CASE ListReturn(t)
  BY <1>12, ListReturnKeeps
<1> QED BY <1>1, <1>2, <1>3, <1>4, <1>5, <1>6, <1>7, <1>8, <1>9, <1>10, <1>11, <1>12
        DEF List, OwnStep

\* Every step of the provider and its surroundings keeps the inductive invariant.
LEMMA NextKeeps == IInv /\ [Next]_vars => IInv'
<1> SUFFICES ASSUME IInv, [Next]_vars PROVE IInv'
  OBVIOUS
<1>1. CASE UNCHANGED vars
  <2>1. TypeOK' /\ CacheInv'
    BY <1>1 DEF IInv, TypeOK, CacheInv, vars, cacheVars
  <2>2. ASSUME NEW t \in Threads PROVE CallInv(t, th[t])'
    <3>1. CallInv(t, th[t])
      BY DEF IInv
    <3> QED BY <1>1, <3>1 DEF CallInv, Overlaid, Fresh, vars, cacheVars
  <2> QED BY <2>1, <2>2 DEF IInv
<1>2. CASE \E t \in Threads : List(t)
  BY <1>2, ListKeeps
<1>3. CASE \E o \in Offerings : MarkUnavailable(o)
  BY <1>3, MarkUnavailableKeeps
<1>4. CASE Tick
  BY <1>4, TickKeeps
<1>5. CASE CatalogueChanges
  BY <1>5, CatalogueChangesKeeps
<1> QED BY <1>1, <1>2, <1>3, <1>4, <1>5 DEF Next

\* The inductive invariant holds throughout every execution of List.
THEOREM Invariance == Spec => []IInv
BY InitEstablishes, NextKeeps, PTL DEF Spec

-----------------------------------------------------------------------------
(* What it implies.                                                        *)

\* Every variable of the provider keeps its type.
THEOREM TypeCorrect == Spec => []TypeOK
<1>1. IInv => TypeOK
  BY DEF IInv
<1> QED BY <1>1, Invariance, PTL

\* A burst of misses asks hcloud once at a time, and only with nothing fresh.
THEOREM OneFetchAtATime == Spec => []NoRedundantFetch
<1>1. ASSUME IInv PROVE NoRedundantFetch
  <2> SUFFICES ASSUME NEW t \in Threads, th[t].pc \in {"api", "store", "stale"}
               PROVE  ~Fresh /\ \A u \in Threads \ {t} : th[u].pc \notin {"api", "store", "stale"}
    BY DEF NoRedundantFetch
  <2>1. refreshMu = t /\ ~Fresh
    BY <1>1 DEF IInv, CallInv, Refreshing, Asking
  <2>2. ASSUME NEW u \in Threads \ {t} PROVE th[u].pc \notin {"api", "store", "stale"}
    BY <1>1, <2>1 DEF IInv, CallInv, Refreshing
  <2> QED BY <2>1, <2>2
<1> QED BY <1>1, Invariance, PTL

\* A late hcloud answer never takes a caller back to an older catalogue.
THEOREM CatalogueMovesForward == Spec => []NoRegression
<1>1. ASSUME IInv PROVE NoRegression
  <2> SUFFICES ASSUME NEW t \in Threads, th[t].pc = "done", th[t].via # "error"
               PROVE  th[t].types >= th[t].floor
    BY DEF NoRegression
  <2>1. th[t] \in Calls /\ th[t].floor <= th[t].types
    BY <1>1 DEF IInv, TypeOK, CallInv
  <2> QED BY <2>1
<1> QED BY <1>1, Invariance, PTL

\* A catalogue served stale is never thereby settled into for another TTL.
THEOREM HitsWithinTTL == Spec => []HitsAreFresh
<1>1. ASSUME IInv PROVE HitsAreFresh
  BY <1>1 DEF IInv, CallInv, HitsAreFresh
<1> QED BY <1>1, Invariance, PTL

\* Availability is decided at the call, whichever copy of the catalogue it has.
THEOREM AvailabilityLive == Spec => []AvailabilityIsLive
<1>1. ASSUME IInv PROVE AvailabilityIsLive
  <2> SUFFICES ASSUME NEW t \in Threads, th[t].pc = "done", th[t].via # "error"
               PROVE  \A o \in FilterByLocations(th[t].types, th[t].want) :
                        /\ o \notin Priced[th[t].types] => o \notin th[t].avail
                        /\ items[o] - UnavailableTTL < th[t].start /\ now < items[o]
                             => o \notin th[t].avail
                        /\ o \in Priced[th[t].types] /\ items[o] <= th[t].start
                             => o \in th[t].avail
    BY DEF AvailabilityIsLive
  <2>1. Overlaid(th[t]) /\ th[t].todo = {}
    BY <1>1 DEF IInv, CallInv
  <2> QED BY <2>1 DEF Overlaid
<1> QED BY <1>1, Invariance, PTL

=============================================================================
