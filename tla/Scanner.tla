------------------------------- MODULE Scanner -------------------------------
(***************************************************************************)
(* The announcement scanner of the wallet (frontend/src/hooks/useScanner.ts)*)
(* over its IndexedDB cache (frontend/src/lib/opaqueCache.ts).             *)
(*                                                                         *)
(* A scan reads the announcement events of the ledgers after a persisted   *)
(* cursor.  Pages of ledgers are fetched by a few workers at once, answers *)
(* arrive in any order and are flushed in page order; each page is written *)
(* to the cache and then the cursor moves, in two transactions.  Ledgers   *)
(* that the RPC no longer retains cannot be read and are recorded as gaps. *)
(* The views that use the hook run scans concurrently (a mount effect, a   *)
(* refresh, a full rescan); nothing cancels a scan that is under way, and  *)
(* all of them share the cache and the requests in flight.                 *)
(*                                                                         *)
(* Every transaction of IndexedDB is one step, and so is every answer of   *)
(* the RPC.  An announcement is the ledger that holds it.  An absent sync  *)
(* record behaves as the record with cursor 0 and no gaps, and is modelled *)
(* by it.                                                                  *)
(***************************************************************************)
EXTENDS Integers, Sequences, FiniteSets, FiniteSetsExt

CONSTANTS
    Scans,         \* scans that may be under way at once
    startBlock,    \* deployment ledger of the announcer contract
    batchSize,     \* BATCH_SIZE
    concurrency,   \* DEFAULT_FETCH_CONCURRENCY
    Histories,     \* the sets of ledgers that may hold announcements
    FirstHead,     \* chain head when the device first scans
    MaxHead,       \* bound on the chain head
    MaxOldest,     \* bound on the oldest retained ledger
    MaxStarts,     \* bound on the scans started
    MaxFailures,   \* bound on the RPC calls that fail
    MaxReloads     \* bound on page reloads

ASSUME ScannerAssumption ==
    /\ startBlock \in Nat \ {0} /\ batchSize \in Nat /\ concurrency \in Nat \ {0}
    /\ {FirstHead, MaxHead, MaxOldest, MaxStarts, MaxFailures, MaxReloads} \subseteq Nat
    /\ startBlock <= FirstHead /\ FirstHead <= MaxHead /\ MaxOldest <= MaxHead
    /\ Histories \subseteq SUBSET (1 .. MaxHead)

VARIABLES
    announced,     \* ledgers that hold an announcement
    head,          \* latest ledger
    oldest,        \* oldest ledger the RPC still serves
    cached,        \* announcements in the cache
    sync,          \* sync record: cursor lastScannedSlot and unscannedRanges
    requests,      \* sharedPageRequests
    scan,          \* what each scan has read and where it stands
    starts, failures, reloads,
    lost           \* history: what an interrupted or overlapping reset has lost

chain == <<announced, head, oldest>>
counts == <<starts, failures, reloads>>
vars == <<announced, head, oldest, cached, sync, requests, scan,
          starts, failures, reloads, lost>>

Ledgers == 1 .. MaxHead

NoSync == [lastScannedSlot |-> 0, unscannedRanges |-> <<>>]

Idle == [pc |-> "idle", clear |-> FALSE, seen |-> {}, last |-> 0, from |-> 0, to |-> 0,
         next |-> 0, flushed |-> 0, waiting |-> {}, results |-> {}, drain |-> "no",
         failed |-> FALSE]

Active(s) == scan[s].pc \notin {"idle", "done"}

OthersActive(s) == \E t \in Scans \ {s} : Active(t)

Goto(s, pc) == scan' = [scan EXCEPT ![s].pc = pc]

-----------------------------------------------------------------------------
(* The cache. *)

\* The next range joins the last merged one if it meets it.
MergeNext(next, merged) ==
    LET last == Len(merged)
    IN IF merged # <<>> /\ next[1] <= merged[last][2] + 1
       THEN [merged EXCEPT ![last] = <<@[1], Max({@[2], next[2]})>>]
       ELSE Append(merged, next)

\* The range that the sort puts last.  Ranges that start at the same ledger join,
\* so that their order does not matter.
LastRange(ranges) == CHOOSE r \in ranges : \A q \in ranges : q[1] <= r[1]

\* Merges the recorded ranges and a new one in the order of their first ledgers.
mergeUnscannedRanges(ranges, range) ==
    MapThenFoldSet(MergeNext, <<>>, LAMBDA r : r, LastRange,
                   {ranges[i] : i \in DOMAIN ranges} \cup {range})

recordUnscannedRange(range) ==
    sync' = [sync EXCEPT !.unscannedRanges = mergeUnscannedRanges(@, range)]

\* Mutant: the cursor update rebuilds the record without its gaps.
setSyncState_Fresh(slot) ==
    sync' = [NoSync EXCEPT !.lastScannedSlot = slot]

setSyncState(slot) ==
    sync' = [sync EXCEPT !.lastScannedSlot = slot]

\* The reset of the sync record.  Gaps that another scan's cursor, or this
\* scan's, will pass are noted as lost.
clearSyncState(dropped) ==
    /\ sync' = NoSync
    /\ lost' = lost \cup dropped

-----------------------------------------------------------------------------
(* Chain and RPC service. *)

CloseLedger ==
    /\ head < MaxHead
    /\ head' = head + 1
    /\ UNCHANGED <<announced, oldest, cached, sync, requests, scan, counts, lost>>

\* The retention window slides.
Prune ==
    /\ oldest < MaxOldest /\ oldest < head
    /\ oldest' = oldest + 1
    /\ UNCHANGED <<announced, head, cached, sync, requests, scan, counts, lost>>

-----------------------------------------------------------------------------
(* Starting a scan: the mount effect, refresh and retrySync. *)

Start(s, pc, clear) ==
    /\ ~Active(s) /\ starts < MaxStarts
    /\ starts' = starts + 1
    /\ scan' = [scan EXCEPT ![s] = [Idle EXCEPT !.pc = pc, !.clear = clear]]
    /\ UNCHANGED <<chain, cached, sync, requests, failures, reloads, lost>>

mount(s) == Start(s, "mountSync", FALSE)

refresh(s) == Start(s, "load", FALSE)

retrySync(s) == Start(s, "clearCache", TRUE)

FromBlock(last) == Max({last + 1, startBlock})

mountSync(s) ==
    /\ scan[s].pc = "mountSync"
    /\ scan' = [scan EXCEPT ![s].pc = "mountSlot", ![s].last = sync.lastScannedSlot]
    /\ UNCHANGED <<chain, cached, sync, requests, counts, lost>>

mountSlot(s) ==
    /\ scan[s].pc = "mountSlot"
    /\ Goto(s, IF FromBlock(scan[s].last) > head THEN "mountClear" ELSE "load")
    /\ UNCHANGED <<chain, cached, sync, requests, counts, lost>>

mountClear(s) ==
    /\ scan[s].pc = "mountClear"
    /\ clearSyncState(IF OthersActive(s) THEN {"gaps"} ELSE {})
    /\ Goto(s, "load")
    /\ UNCHANGED <<chain, cached, requests, counts>>

-----------------------------------------------------------------------------
(* runScan up to the fetch. *)

\* clearClusterCache, first transaction: the announcements.
clearCache(s) ==
    /\ scan[s].pc = "clearCache"
    /\ cached' = {}
    /\ lost' = lost \cup (IF OthersActive(s) THEN {"cache"} ELSE {})
    /\ Goto(s, "clearSync")
    /\ UNCHANGED <<chain, sync, requests, counts>>

\* clearClusterCache, second transaction, and clearSyncState.
clearSync(s) ==
    /\ scan[s].pc \in {"clearSync", "clearSyncAgain"}
    /\ clearSyncState(IF OthersActive(s) THEN {"cache", "gaps"} ELSE {})
    /\ Goto(s, IF scan[s].pc = "clearSync" THEN "clearSyncAgain" ELSE "load")
    /\ UNCHANGED <<chain, cached, requests, counts>>

load(s) ==
    /\ scan[s].pc = "load"
    /\ scan' = [scan EXCEPT ![s].pc = "loadSync", ![s].seen = cached]
    /\ UNCHANGED <<chain, cached, sync, requests, counts, lost>>

\* Reads the cursor; a cursor past the last cached announcement resets it.
loadSync(s) ==
    /\ scan[s].pc = "loadSync"
    /\ LET last == sync.lastScannedSlot
           gap  == scan[s].seen # {} /\ last # 0 /\ Max(scan[s].seen) < last
       IN scan' = [scan EXCEPT ![s].pc = IF gap THEN "resetSync" ELSE "slot",
                               ![s].last = last, ![s].seen = {}]
    /\ UNCHANGED <<chain, cached, sync, requests, counts, lost>>

\* The scan goes on from the cursor it has read.
resetSync(s) ==
    /\ scan[s].pc = "resetSync"
    /\ clearSyncState(IF sync.unscannedRanges # <<>> \/ OthersActive(s)
                      THEN {"gaps"} ELSE {})
    /\ Goto(s, "slot")
    /\ UNCHANGED <<chain, cached, requests, counts>>

\* Mutant: the scan starts one ledger late.
slot_SkipsOne(s) ==
    /\ scan[s].pc = "slot"
    /\ LET from == IF scan[s].clear THEN startBlock ELSE FromBlock(scan[s].last + 1)
       IN scan' = [scan EXCEPT ![s].pc = IF from > head THEN "done" ELSE "health",
                               ![s].from = from, ![s].to = head, ![s].last = 0]
    /\ UNCHANGED <<chain, cached, sync, requests, counts, lost>>

slot(s) ==
    /\ scan[s].pc = "slot"
    /\ LET from == IF scan[s].clear THEN startBlock ELSE FromBlock(scan[s].last)
       IN scan' = [scan EXCEPT ![s].pc = IF from > head THEN "done" ELSE "health",
                               ![s].from = from, ![s].to = head, ![s].last = 0]
    /\ UNCHANGED <<chain, cached, sync, requests, counts, lost>>

\* getSlot throws, in the mount effect or in runScan.
slotFails(s) ==
    /\ scan[s].pc \in {"mountSlot", "slot"} /\ failures < MaxFailures
    /\ failures' = failures + 1
    /\ scan' = [scan EXCEPT ![s] = Idle]
    /\ UNCHANGED <<chain, cached, sync, requests, starts, reloads, lost>>

-----------------------------------------------------------------------------
(* fetchLogsAdaptive. *)

\* getHealth may be unavailable (0) or lag behind the window by a ledger.  While
\* the clamped ledgers are being recorded, .next holds the first one that is not.
health(s) ==
    /\ scan[s].pc = "health"
    /\ \E reported \in {0, oldest - 1, oldest} :
         IF scan[s].from < reported
         THEN scan' = [scan EXCEPT ![s].pc = "clamp", ![s].next = reported]
         ELSE Goto(s, "fetch")
    /\ UNCHANGED <<chain, cached, sync, requests, counts, lost>>

clamp(s) ==
    /\ scan[s].pc = "clamp"
    /\ recordUnscannedRange(<<scan[s].from, Min({scan[s].next - 1, scan[s].to})>>)
    /\ scan' = [scan EXCEPT ![s].pc = "fetch", ![s].from = scan[s].next, ![s].next = 0]
    /\ UNCHANGED <<chain, cached, requests, counts, lost>>

buildPageRanges(from, to) ==
    [i \in 1 .. (to - from + 1 + batchSize) \div (batchSize + 1) |->
        LET first == from + (i - 1) * (batchSize + 1)
        IN <<first, Min({first + batchSize, to})>>]

Pages(s) == buildPageRanges(scan[s].from, scan[s].to)

\* Pages that wait for the request of a range.
Waiting(s, range) == {i \in scan[s].waiting : Pages(s)[i] = range}

\* A worker takes the next page; the request in flight for it is shared.
dispatch(s) ==
    LET sc == scan[s]
        i  == sc.next + 1
        range == Pages(s)[i]
        busy  == Cardinality(sc.waiting) + (IF sc.drain = "no" THEN 0 ELSE 1)
    IN /\ sc.pc = "fetch" /\ ~sc.failed
       /\ i <= Len(Pages(s))
       /\ busy < concurrency
       /\ scan' = [scan EXCEPT ![s].next = i, ![s].waiting = @ \cup {i}]
       /\ requests' =
            IF range \notin DOMAIN requests
            THEN [r \in DOMAIN requests \cup {range} |->
                    IF r = range THEN [st |-> "get", start |-> range[1], listeners |-> {s}]
                                 ELSE requests[r]]
            ELSE IF requests[range].st = "get"
                 THEN [requests EXCEPT ![range].listeners = @ \cup {s}]
                 ELSE requests
       /\ UNCHANGED <<chain, cached, sync, counts, lost>>

Settled(range) == [r \in DOMAIN requests \ {range} |-> requests[r]]

\* External: the events of one window of ledgers from the start ledger on.
getEvents(start) == {l \in announced : start <= l /\ l <= Min({start + batchSize, head})}

\* Mutant: every answer starts a flush, whatever its place.
Buffer_AnyOrder(sc, pages, logs) ==
    IF pages = {} THEN sc
    ELSE [sc EXCEPT !.waiting = @ \ pages,
                    !.results = @ \cup {<<i, logs>> : i \in pages},
                    !.flushed = IF sc.drain = "no" THEN Max(pages) - 1 ELSE @,
                    !.drain = "put"]

\* A page that arrives: buffered, and flushed if it is the next in order.
Buffer(sc, pages, logs) ==
    IF pages = {} THEN sc
    ELSE [sc EXCEPT !.waiting = @ \ pages,
                    !.results = @ \cup {<<i, logs>> : i \in pages},
                    !.drain = IF sc.flushed + 1 \in pages THEN "put" ELSE @]

answer(range) ==
    /\ range \in DOMAIN requests
    /\ requests[range].st \in {"get", "retry"} /\ requests[range].start >= oldest
    /\ scan' = [s \in Scans |->
                  Buffer(scan[s], Waiting(s, range), getEvents(requests[range].start))]
    /\ requests' = Settled(range)
    /\ UNCHANGED <<chain, cached, sync, counts, lost>>

\* The window has slid past the page's start: its listeners are told, once.
rangeError(range) ==
    /\ range \in DOMAIN requests
    /\ requests[range].st = "get" /\ requests[range].start < oldest
    /\ requests' = [requests EXCEPT ![range].st = "gap", ![range].start = oldest]
    /\ UNCHANGED <<chain, cached, sync, scan, counts, lost>>

reportGap(s, range) ==
    /\ range \in DOMAIN requests
    /\ requests[range].st = "gap" /\ s \in requests[range].listeners
    /\ recordUnscannedRange(<<range[1], Min({requests[range].start - 1, range[2]})>>)
    /\ LET left == requests[range].listeners \ {s}
       IN requests' = [requests EXCEPT ![range].listeners = left,
                                       ![range].st = IF left = {} THEN "retry" ELSE "gap"]
    /\ UNCHANGED <<chain, cached, scan, counts, lost>>

Failed(sc, pages) ==
    IF pages = {} THEN sc ELSE [sc EXCEPT !.waiting = @ \ pages, !.failed = TRUE]

\* Mutant: only the scan that made the request learns that it failed.
reject_OneWaiter(range) ==
    /\ range \in DOMAIN requests
    /\ requests[range].st \in {"get", "retry"}
    /\ IF requests[range].st = "retry" /\ requests[range].start < oldest
       THEN UNCHANGED failures
       ELSE failures < MaxFailures /\ failures' = failures + 1
    /\ \E t \in Scans :
         /\ Waiting(t, range) # {}
         /\ scan' = [scan EXCEPT ![t] = Failed(scan[t], Waiting(t, range))]
    /\ requests' = Settled(range)
    /\ UNCHANGED <<chain, cached, sync, starts, reloads, lost>>

\* The call fails, or the retry finds that the window has slid again.
reject(range) ==
    /\ range \in DOMAIN requests
    /\ requests[range].st \in {"get", "retry"}
    /\ IF requests[range].st = "retry" /\ requests[range].start < oldest
       THEN UNCHANGED failures
       ELSE failures < MaxFailures /\ failures' = failures + 1
    /\ scan' = [s \in Scans |-> Failed(scan[s], Waiting(s, range))]
    /\ requests' = Settled(range)
    /\ UNCHANGED <<chain, cached, sync, starts, reloads, lost>>

-----------------------------------------------------------------------------
(* drainReady and onChunk: the announcements, then the cursor. *)

putAnnouncements(s) ==
    /\ scan[s].drain = "put"
    /\ \E page \in scan[s].results :
         /\ page[1] = scan[s].flushed + 1
         /\ cached' = cached \cup page[2]
         /\ scan' = [scan EXCEPT ![s].drain = "cursor", ![s].results = @ \ {page}]
    /\ UNCHANGED <<chain, sync, requests, counts, lost>>

Ready(sc, i) == \E page \in sc.results : page[1] = i

moveCursor(s) ==
    LET i == scan[s].flushed + 1
    IN /\ scan[s].drain = "cursor"
       /\ setSyncState(Pages(s)[i][2])
       /\ scan' = [scan EXCEPT ![s].flushed = i,
                               ![s].drain = IF Ready(scan[s], i + 1) THEN "put" ELSE "no"]
       /\ UNCHANGED <<chain, cached, requests, counts, lost>>

\* Every worker has returned: the error, a last flush, or "Up to date".
finish(s) ==
    LET sc == scan[s]
    IN /\ sc.pc = "fetch" /\ sc.waiting = {} /\ sc.drain = "no"
       /\ sc.failed \/ sc.next = Len(Pages(s))
       /\ scan' = [scan EXCEPT ![s] =
                     IF sc.failed THEN Idle
                     ELSE IF Ready(sc, sc.flushed + 1) THEN [sc EXCEPT !.drain = "put"]
                     ELSE [Idle EXCEPT !.pc = "done", !.to = sc.to]]
       /\ UNCHANGED <<chain, cached, sync, requests, counts, lost>>

\* The page is reloaded: scans and requests are gone, the cache stays.
Reload ==
    /\ reloads < MaxReloads
    /\ reloads' = reloads + 1
    /\ scan' = [s \in Scans |-> Idle]
    /\ requests' = <<>>
    /\ lost' = lost \cup (IF \E s \in Scans : scan[s].pc = "clearSync"
                          THEN {"cache"} ELSE {})
    /\ UNCHANGED <<chain, cached, sync, starts, failures>>

-----------------------------------------------------------------------------

Init ==
    /\ announced \in Histories
    /\ head = FirstHead /\ oldest = 1
    /\ cached = {} /\ sync = NoSync
    /\ requests = <<>>
    /\ scan = [s \in Scans |-> Idle]
    /\ starts = 0 /\ failures = 0 /\ reloads = 0
    /\ lost = {}

ScanStep(s) ==
    \/ mountSync(s) \/ mountSlot(s) \/ mountClear(s)
    \/ clearCache(s) \/ clearSync(s)
    \/ load(s) \/ loadSync(s) \/ resetSync(s) \/ slot(s)
    \/ health(s) \/ clamp(s) \/ dispatch(s)
    \/ putAnnouncements(s) \/ moveCursor(s) \/ finish(s)
    \/ \E range \in DOMAIN requests : reportGap(s, range)

RequestStep == \E range \in DOMAIN requests :
    answer(range) \/ rangeError(range) \/ reject(range)

Next ==
    \/ CloseLedger \/ Prune \/ Reload
    \/ \E s \in Scans : mount(s) \/ refresh(s) \/ retrySync(s) \/ slotFails(s) \/ ScanStep(s)
    \/ RequestStep

Spec == Init /\ [][Next]_vars

-----------------------------------------------------------------------------
(* Properties. *)

\* No full rescan is between the two transactions of clearClusterCache.
NoClear == \A s \in Scans : scan[s].pc # "clearSync"

\* Announcements up to a ledger.
Upto(last) == {l \in announced : startBlock <= l /\ l <= last}

\* The cursor never passes an announcement that the RPC still serves and that is
\* not in the cache, although pages are fetched concurrently and answered in any
\* order, calls fail, the window slides, scans overlap and the page is reloaded
\* between the two writes of a page.  (useScanner.ts fetchLogsAdaptive: pages are
\* flushed strictly in order; runChunkedRpcSync: the announcements are written
\* before the cursor.)  A full rescan that overlaps another scan, or that a reload
\* interrupts after its first transaction, is outside of this: it can leave a
\* cursor past announcements it has deleted.
CursorIsCovered ==
    "cache" \notin lost /\ NoClear =>
        \A l \in Upto(sync.lastScannedSlot) : l \in cached \/ l < oldest

\* The recorded gaps are sorted, do not meet, and name only ledgers that the RPC
\* no longer serves, whichever scans report them and in whichever order
\* (opaqueCache.ts mergeUnscannedRanges, recordUnscannedRange).
GapsAreExact ==
    LET gaps == sync.unscannedRanges
    IN /\ \A i \in DOMAIN gaps : gaps[i][1] <= gaps[i][2] /\ gaps[i][2] < oldest
       /\ \A i \in 1 .. Len(gaps) - 1 : gaps[i][2] + 1 < gaps[i + 1][1]

\* A ledger behind the cursor was read, or the user is told that it was not: it
\* lies in a recorded gap before the cursor passes it, whether the clamp of
\* fetchLogsAdaptive or the range error of a single page skipped it.  The reset of
\* the sync record by the "gap detection" of runScan, which drops recorded gaps and
\* goes on from the cursor it had read, is outside of this.  What is recorded is
\* exact in any case.
GapsAreReported ==
    /\ GapsAreExact
    /\ lost = {} /\ NoClear =>
        \A l \in Upto(sync.lastScannedSlot) :
            \/ l \in cached
            \/ \E i \in DOMAIN sync.unscannedRanges :
                 sync.unscannedRanges[i][1] <= l /\ l <= sync.unscannedRanges[i][2]

\* A scan that ends "Up to date" leaves every announcement up to the head it has
\* read in the cache, save those the RPC no longer serves: the answers buffered out
\* of order are all flushed when the workers return, and the early return of an
\* incremental scan trusts a cursor that another scan may have moved (runScan).
UpToDateIsTrue ==
    [][\A s \in Scans :
         scan[s].pc # "done" /\ scan'[s].pc = "done" /\ "cache" \notin lost /\ NoClear =>
            \A l \in Upto(scan'[s].to) : l \in cached \/ l < oldest]_vars

\* No scan waits for a page that nobody will deliver: every page a worker waits for
\* has its request in flight, and the page being flushed is there, although the
\* requests are shared between scans, are settled for all of them at once and are
\* forgotten when they settle (fetchPageShared, the worker pool of
\* fetchLogsAdaptive).  So a scan can always go on to its result or its error.
NoPageIsOrphaned ==
    \A s \in Scans :
        /\ \A i \in scan[s].waiting : Pages(s)[i] \in DOMAIN requests
        /\ scan[s].drain = "put" => Ready(scan[s], scan[s].flushed + 1)

=============================================================================
