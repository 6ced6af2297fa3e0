-------------------------- MODULE InstanceTypeCache --------------------------
(***************************************************************************)
(* The instance type provider (pkg/providers/instancetype): a catalogue    *)
(* cached for CacheTTL, refreshed by at most one caller at a time, served  *)
(* stale when hcloud cannot be read, and overlaid on every call with the   *)
(* offerings that recently failed for lack of capacity.                    *)
(*                                                                         *)
(* Goroutines call List concurrently.  Each critical section of mu, of     *)
(* refreshMu and of the unavailable cache's own mutex is one action; the   *)
(* hcloud call is two, so that other goroutines, the clock and hcloud move *)
(* while it is under way.  The catalogue is abstracted to a version number *)
(* that grows whenever hcloud changes it.                                  *)
(*                                                                         *)
(* A definition marked "Fault:" is a plausible mistake in the operator that *)
(* follows it.  No specification uses one; putting it in the operator's    *)
(* place shows that a property can fail.                                   *)
(***************************************************************************)
EXTENDS Integers

CONSTANTS
    Threads,        \* goroutines that call List
    Offerings,      \* (server type, location) pairs
    Queries,        \* sets of offerings a NodeClass's locations select; {} selects all
    Listed,         \* Listed[v]: offerings in version v of the catalogue
    Priced,         \* Priced[v]: those of them with a usable price
    NoThread,       \* nobody holds refreshMu
    CacheTTL,       \* cacheTTL, in ticks
    UnavailableTTL, \* the unavailable cache's ttl, in ticks
    MaxVersion,     \* bound: catalogue changes
    MaxTime         \* bound: the clock

Versions == 1..MaxVersion
None == 0           \* no version: nothing fetched yet

ASSUME ConstantsAssumption ==
    /\ NoThread \notin Threads
    /\ Queries \subseteq SUBSET Offerings
    /\ MaxVersion \in Nat \ {0} /\ MaxTime \in Nat
    /\ CacheTTL \in Nat \ {0} /\ UnavailableTTL \in Nat \ {0}
    /\ Listed \in [Versions -> SUBSET Offerings]
    /\ Priced \in [Versions -> SUBSET Offerings]

VARIABLES
    now,        \* the clock both caches read
    upstream,   \* the catalogue version hcloud holds
    cached,     \* cachedTypes
    cachedAt,   \* cachedAt
    expiry,     \* cacheExpiry
    refreshMu,  \* who holds refreshMu
    items,      \* the unavailable cache: when each offering's mark ends
    th,         \* the List calls
    returned    \* history: the newest version a finished call returned

cacheVars == <<cached, cachedAt, expiry>>
vars == <<now, upstream, cacheVars, refreshMu, items, th, returned>>

\* One List call: where it is, the locations it asks for, the catalogue in its
\* hands and how it came by it, the offerings still to be overlaid and those
\* found available.  start, floor and stamp are history: the time it began,
\* the newest version returned before that, cachedAt of the copy it was served.
IdleCall == [pc |-> "idle", want |-> {}, types |-> None, via |-> "none", todo |-> {},
             avail |-> {}, start |-> 0, floor |-> None, stamp |-> 0]

Step(t, next) == th' = [th EXCEPT ![t].pc = next]

-----------------------------------------------------------------------------
(* The catalogue cache.                                                    *)

Fresh == cached # None /\ now < expiry

\* filterByLocations
FilterByLocations(v, want) == IF want = {} THEN Listed[v] ELSE Listed[v] \cap want

\* The catalogue v is in t's hands; applyAvailability comes next.
Serve(t, v, how, at) ==
    th' = [th EXCEPT ![t].pc = "apply", ![t].types = v, ![t].via = how, ![t].stamp = at,
                     ![t].todo = FilterByLocations(v, th[t].want)]

ListStart(t) ==
    /\ th[t].pc = "idle"
    /\ \E want \in Queries :
          th' = [th EXCEPT ![t] = [IdleCall EXCEPT !.pc = "fresh", !.want = want,
                                                   !.start = now, !.floor = returned]]
    /\ UNCHANGED <<now, upstream, cacheVars, refreshMu, items, returned>>

\* freshCache, on the way in.
FreshCache(t) ==
    /\ th[t].pc = "fresh"
    /\ IF Fresh THEN Serve(t, cached, "hit", cachedAt) ELSE Step(t, "lock")
    /\ UNCHANGED <<now, upstream, cacheVars, refreshMu, items, returned>>

\* Fault: refreshes are not serialized.
LockRefreshFree(t) ==
    /\ th[t].pc = "lock"
    /\ refreshMu' = t
    /\ Step(t, "recheck")
    /\ UNCHANGED <<now, upstream, cacheVars, items, returned>>

LockRefresh(t) ==
    /\ th[t].pc = "lock"
    /\ refreshMu = NoThread /\ refreshMu' = t
    /\ Step(t, "recheck")
    /\ UNCHANGED <<now, upstream, cacheVars, items, returned>>

\* Fault: no second look after the wait.
RecheckSkipped(t) ==
    /\ th[t].pc = "recheck"
    /\ Step(t, "api")
    /\ UNCHANGED <<now, upstream, cacheVars, refreshMu, items, returned>>

\* freshCache again: somebody may have refreshed while this call waited.
RecheckCache(t) ==
    /\ th[t].pc = "recheck"
    /\ IF Fresh THEN Serve(t, cached, "hit", cachedAt) ELSE Step(t, "api")
    /\ UNCHANGED <<now, upstream, cacheVars, refreshMu, items, returned>>

\* hcloud answers with the catalogue it holds; the answer travels.
ApiAnswers(t) ==
    /\ th[t].pc = "api"
    /\ th' = [th EXCEPT ![t].pc = "store", ![t].types = upstream]
    /\ UNCHANGED <<now, upstream, cacheVars, refreshMu, items, returned>>

ApiFails(t) ==
    /\ th[t].pc = "api"
    /\ Step(t, "stale")
    /\ UNCHANGED <<now, upstream, cacheVars, refreshMu, items, returned>>

\* Fault: the expiry is reckoned backwards.
StoreExpired(t) ==
    /\ th[t].pc = "store"
    /\ cached' = th[t].types /\ cachedAt' = now /\ expiry' = now - CacheTTL
    /\ Serve(t, th[t].types, "fetched", now)
    /\ UNCHANGED <<now, upstream, refreshMu, items, returned>>

Store(t) ==
    /\ th[t].pc = "store"
    /\ cached' = th[t].types /\ cachedAt' = now /\ expiry' = now + CacheTTL
    /\ Serve(t, th[t].types, "fetched", now)
    /\ UNCHANGED <<now, upstream, refreshMu, items, returned>>

\* Fault: a stale copy is served for another TTL.
ServeStaleSettles(t) ==
    /\ th[t].pc = "stale" /\ cached # None
    /\ Serve(t, cached, "stale", cachedAt)
    /\ expiry' = now + CacheTTL
    /\ UNCHANGED <<now, upstream, cached, cachedAt, refreshMu, items, returned>>

\* staleCache: the last catalogue fetched, its expiry left alone.
ServeStale(t) ==
    /\ th[t].pc = "stale" /\ cached # None
    /\ Serve(t, cached, "stale", cachedAt)
    /\ UNCHANGED <<now, upstream, cacheVars, refreshMu, items, returned>>

\* Fault: the error path forgets the lock.
ReturnErrorLocked(t) ==
    /\ th[t].pc = "stale" /\ cached = None
    /\ th' = [th EXCEPT ![t] = IdleCall]
    /\ UNCHANGED <<now, upstream, cacheVars, refreshMu, items, returned>>

\* Nothing was ever fetched: hcloud's error.
ReturnError(t) ==
    /\ th[t].pc = "stale" /\ cached = None
    /\ th' = [th EXCEPT ![t].pc = "done", ![t].via = "error"]
    /\ UNCHANGED <<now, upstream, cacheVars, refreshMu, items, returned>>

-----------------------------------------------------------------------------
(* The unavailable cache.                                                  *)

\* Fault: a mark ends a tick early.
IsUnavailableEarly(o) == now + 1 < items[o]

IsUnavailable(o) == now < items[o]

\* One iteration of applyAvailability: catalogue facts and capacity marks.
ApplyAvailability(t, o) ==
    /\ th[t].pc = "apply" /\ o \in th[t].todo
    /\ th' = [th EXCEPT ![t].todo = @ \ {o},
                        ![t].avail = IF o \in Priced[th[t].types] /\ ~IsUnavailable(o)
                                     THEN @ \cup {o} ELSE @]
    /\ UNCHANGED <<now, upstream, cacheVars, refreshMu, items, returned>>

FinishApply(t) ==
    /\ th[t].pc = "apply" /\ th[t].todo = {}
    /\ Step(t, "done")
    /\ UNCHANGED <<now, upstream, cacheVars, refreshMu, items, returned>>

\* The deferred unlock, and the result handed to the caller.
ListReturn(t) ==
    /\ th[t].pc = "done"
    /\ refreshMu' = IF refreshMu = t THEN NoThread ELSE refreshMu
    /\ returned' = IF th[t].types > returned THEN th[t].types ELSE returned
    /\ th' = [th EXCEPT ![t] = IdleCall]
    /\ UNCHANGED <<now, upstream, cacheVars, items>>

\* A create failed for lack of capacity: MarkUnavailable.
MarkUnavailable(o) ==
    /\ items' = [items EXCEPT ![o] = now + UnavailableTTL]
    /\ UNCHANGED <<now, upstream, cacheVars, refreshMu, th, returned>>

-----------------------------------------------------------------------------
Tick ==
    /\ now < MaxTime /\ now' = now + 1
    /\ UNCHANGED <<upstream, cacheVars, refreshMu, items, th, returned>>

\* hcloud adds or withdraws server types, or reprices them.
CatalogueChanges ==
    /\ upstream < MaxVersion /\ upstream' = upstream + 1
    /\ UNCHANGED <<now, cacheVars, refreshMu, items, th, returned>>

Init ==
    /\ now = 0 /\ upstream = 1
    /\ cached = None /\ cachedAt = 0 /\ expiry = 0
    /\ refreshMu = NoThread
    /\ items = [o \in Offerings |-> 0]
    /\ th = [t \in Threads |-> IdleCall]
    /\ returned = None

\* What a call does by itself once it has begun.
OwnStep(t) ==
    \/ FreshCache(t) \/ RecheckCache(t) \/ Store(t) \/ ServeStale(t) \/ ReturnError(t)
    \/ \E o \in Offerings : ApplyAvailability(t, o)
    \/ FinishApply(t) \/ ListReturn(t)

List(t) == ListStart(t) \/ LockRefresh(t) \/ ApiAnswers(t) \/ ApiFails(t) \/ OwnStep(t)

Next ==
    \/ \E t \in Threads : List(t)
    \/ \E o \in Offerings : MarkUnavailable(o)
    \/ Tick \/ CatalogueChanges

Spec == Init /\ [][Next]_vars

\* Goroutines are scheduled, every hcloud call ends (the HTTP client's timeout),
\* and a goroutine that waits for refreshMu gets it in the end (sync.Mutex's
\* starvation mode).
FairSpec ==
    /\ Spec
    /\ \A t \in Threads : /\ WF_vars(OwnStep(t) \/ ApiAnswers(t) \/ ApiFails(t))
                          /\ SF_vars(LockRefresh(t))

-----------------------------------------------------------------------------
(* Properties.                                                             *)

Calls ==
    [pc: {"idle", "fresh", "lock", "recheck", "api", "store", "stale", "apply", "done"},
     want: SUBSET Offerings, types: Versions \cup {None},
     via: {"none", "hit", "fetched", "stale", "error"},
     todo: SUBSET Offerings, avail: SUBSET Offerings,
     start: Nat, floor: Versions \cup {None}, stamp: Nat]

\* Every variable keeps its type.
TypeOK ==
    /\ now \in Nat /\ upstream \in Versions
    /\ cached \in Versions \cup {None} /\ cachedAt \in Nat /\ expiry \in Nat
    /\ refreshMu \in Threads \cup {NoThread}
    /\ items \in [Offerings -> Nat]
    /\ th \in [Threads -> Calls]
    /\ returned \in Versions \cup {None}

\* hcloud is asked only while the cache has nothing fresh to give, and by one
\* caller at a time: who waited for a fetch that succeeded does not ask again
\* (List, refreshMu).
NoRedundantFetch ==
    \A t \in Threads :
        th[t].pc \in {"api", "store", "stale"} =>
            ~Fresh /\ \A u \in Threads \ {t} : th[u].pc \notin {"api", "store", "stale"}

\* A call never returns an older catalogue than one some call had returned
\* before it began, however long hcloud's answers travelled (List, store).
NoRegression ==
    \A t \in Threads : th[t].pc = "done" /\ th[t].via # "error" => th[t].types >= th[t].floor

\* A cache hit was within its TTL when the call began or was fetched since: a
\* catalogue served stale is not thereby settled into (List, staleCache).
HitsAreFresh ==
    \A t \in Threads :
        th[t].pc = "done" /\ th[t].via = "hit" => th[t].start < th[t].stamp + CacheTTL

\* The availability a call reports is live, whatever copy of the catalogue it
\* was served: an unpriced offering is never available, one marked before the
\* call and still marked at its end is not, one whose mark had ended is.
AvailabilityIsLive ==
    \A t \in Threads :
        th[t].pc = "done" /\ th[t].via # "error" =>
            \A o \in FilterByLocations(th[t].types, th[t].want) :
                /\ o \notin Priced[th[t].types] => o \notin th[t].avail
                /\ items[o] - UnavailableTTL < th[t].start /\ now < items[o]
                     => o \notin th[t].avail
                /\ o \in Priced[th[t].types] /\ items[o] <= th[t].start => o \in th[t].avail

\* Every List call returns: no path leaves the refresh lock held, and nobody
\* waits for ever behind those who fetch (List).
ListReturns == \A t \in Threads : th[t].pc # "idle" ~> th[t].pc = "idle"

=============================================================================
