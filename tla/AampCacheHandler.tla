-------------------------- MODULE AampCacheHandler --------------------------
(***************************************************************************)
(* AampCacheHandler: the cache of playlists, in which a redirected url is   *)
(* a second entry of the same buffer, the cache of init fragments with its  *)
(* queue of urls per track, and the thread that empties both ten seconds    *)
(* after the player was stopped.                                            *)
(*                                                                         *)
(* The public operations are sections under mMutex or mInitFragMutex, one   *)
(* action each.  Retrieve changes nothing and is stated of the state, see   *)
(* RightContent.  A buffer is known by a number, its content by the url it  *)
(* was downloaded from; memory that no entry refers to is left out.         *)
(***************************************************************************)
EXTENDS Integers, Sequences, FiniteSets, Functions, FiniteSetsExt

CONSTANTS
    Urls, InitUrls,        \* urls of playlists and of init fragments
    Effective,             \* the effective url of each
    FileType,              \* the media type of each
    Size,                  \* of a playlist
    Unlimited,             \* PLAYLIST_CACHE_SIZE_UNLIMITED
    DefaultSize, DefaultSlots, \* the limits of a new handler
    Sizes, Slots,          \* the limits a tune may be configured with
    Requested,             \* init urls the player asks for, the others are targets only
    StoredBound,           \* bound of the model for mCacheStoredSize
    QueueBound             \* bound of the model for a queue whose eviction has stopped

AllUrls == Urls \cup InitUrls

ASSUME CacheAssumption ==
    /\ Urls \cap InitUrls = {}
    /\ Effective \in [AllUrls -> AllUrls]
    /\ \A u \in Urls : Effective[u] \in Urls
    /\ \A u \in InitUrls : Effective[u] \in InitUrls
    /\ DOMAIN FileType = AllUrls
    /\ Size \in [Urls -> Nat \ {0}]
    /\ IsFiniteSet(AllUrls)
    /\ Requested \subseteq InitUrls /\ {StoredBound, QueueBound} \subseteq Nat
    /\ Unlimited \notin Nat /\ {DefaultSize} \cup Sizes \subseteq Nat
    /\ {DefaultSlots} \cup Slots \subseteq Nat \ {0}

VARIABLES
    playlists,             \* [cache, heap, stored]: mPlaylistCache, buffers, mCacheStoredSize
    inits,                 \* [cache, heap]: umInitFragCache and its buffers
    umCacheTrackQ,         \* queue of init urls of each type
    mMaxPlaylistCacheSize, MaxInitCacheSlot,
    mInitialized, mCacheActive, mAsyncCacheCleanUpThread,
    player,                \* what the player does with the handler
    cleaner                \* AsyncCacheCleanUpTask

vars == <<playlists, inits, umCacheTrackQ, mMaxPlaylistCacheSize, MaxInitCacheSlot,
          mInitialized, mCacheActive, mAsyncCacheCleanUpThread, player, cleaner>>

caches == <<playlists, inits, umCacheTrackQ>>
limits == <<mMaxPlaylistCacheSize, MaxInitCacheSlot>>

Types(urls) == {FileType[u] : u \in urls}
Nothing == [u \in {} |-> u]
EmptyQueues == [type \in Types(InitUrls) |-> <<>>]

TypeOK ==
    /\ DOMAIN playlists = {"cache", "heap", "stored"} /\ DOMAIN inits = {"cache", "heap"}
    /\ DOMAIN playlists.cache \subseteq Urls /\ DOMAIN inits.cache \subseteq InitUrls
    /\ Range(playlists.heap) \subseteq Urls /\ Range(inits.heap) \subseteq InitUrls
    /\ umCacheTrackQ \in [Types(InitUrls) -> Seq(InitUrls)]
    /\ {mInitialized, mCacheActive, mAsyncCacheCleanUpThread} \subseteq BOOLEAN
    /\ mMaxPlaylistCacheSize \in {Unlimited, DefaultSize} \cup Sizes
    /\ MaxInitCacheSlot \in {DefaultSlots} \cup Slots
    /\ player \in {"stopped", "starting", "tuning", "tuned", "stopping", "deleting", "joining",
                   "deleted", "race"}
    /\ cleaner \in {"none", "start", "wait", "woken", "timed", "timed out", "awake",
                    "flush", "exit"}

Init ==
    /\ playlists = [cache |-> Nothing, heap |-> Nothing, stored |-> 0]
    /\ inits = [cache |-> Nothing, heap |-> Nothing]
    /\ umCacheTrackQ = EmptyQueues
    /\ mMaxPlaylistCacheSize = DefaultSize /\ MaxInitCacheSlot = DefaultSlots
    /\ mInitialized = FALSE /\ mCacheActive = FALSE /\ mAsyncCacheCleanUpThread = FALSE
    /\ player = "stopped" /\ cleaner = "none"

--------------------------------------------------------------------------
(* Entries and buffers. *)

Entry(buf, u, dup) ==
    [mCachedBuffer |-> buf, mEffectiveUrl |-> Effective[u], mFileType |-> FileType[u],
     mDuplicateEntry |-> dup]

Buffers(s) == {s.cache[u].mCachedBuffer : u \in DOMAIN s.cache}

\* new GrowableBuffer
NewBuffer(s) ==
    CHOOSE b \in 1 .. Cardinality(DOMAIN s.heap \cup Buffers(s)) + 1 :
        b \notin DOMAIN s.heap \cup Buffers(s)

\* Buffers freed when the entries of us are erased: a duplicate entry has none.
Freed(s, us) == {s.cache[u].mCachedBuffer : u \in {v \in us : ~s.cache[v].mDuplicateEntry}}

\* A buffer whose last entry is a duplicate one is lost with it.
Erase(s, us) ==
    LET left == DOMAIN s.cache \ us
        used == {s.cache[u].mCachedBuffer : u \in left}
    IN  [s EXCEPT !.cache = Restrict(@, left),
                  !.heap = Restrict(@, (DOMAIN @ \cap used) \ Freed(s, us))]

\* map[u] = entry, also over an entry that was there; its buffer may be lost.
Put(s, u, entry) ==
    LET cache == [v \in DOMAIN s.cache \cup {u} |-> IF v = u THEN entry ELSE s.cache[v]]
        used  == {cache[v].mCachedBuffer : v \in DOMAIN cache}
    IN  [s EXCEPT !.cache = cache, !.heap = Restrict(@, DOMAIN @ \cap used)]

Fill(s, buf, u) ==
    [s EXCEPT !.heap = [b \in DOMAIN @ \cup {buf} |-> IF b = buf THEN u ELSE @[b]]]

SizeOf(s, bufs) == MapThenSumSet(LAMBDA b : Size[s.heap[b]], bufs)

--------------------------------------------------------------------------
(* The cache of playlists. *)

ClearPlaylistCache(s) == [Erase(s, DOMAIN s.cache) EXCEPT !.stored = 0]

\* AllocatePlaylistCacheSlot for a playlist that is not the manifest: entries of its
\* type go first, then all others but the manifest's.
SlotVictims(s, type, newLen) ==
    LET others == {u \in DOMAIN s.cache : s.cache[u].mFileType # "manifest"}
        same   == {u \in others : s.cache[u].mFileType = type}
    IN  IF SizeOf(s, Freed(s, same)) < newLen THEN others ELSE same

Allocated(s, type, newLen) ==
    LET victims == SlotVictims(s, type, newLen)
    IN  [Erase(s, victims) EXCEPT !.stored = @ - SizeOf(s, Freed(s, victims))]

SlotReady(s, type, newLen) ==
    \/ DOMAIN s.cache = {}
    \/ type # "manifest" /\ SizeOf(s, Freed(s, SlotVictims(s, type, newLen))) >= newLen

\* mutant: the size of a playlist that was redirected is not booked
WithEntryUnbooked(s, u) ==
    LET buf == NewBuffer(s)
        t   == Put(Fill(s, buf, u), u, Entry(buf, u, FALSE))
    IN  IF Effective[u] = u THEN [t EXCEPT !.stored = @ + Size[u]]
        ELSE Put(t, Effective[u], Entry(buf, u, TRUE))

\* The new entry, the size, and the duplicate entry of the effective url.
WithEntry(s, u) ==
    LET buf == NewBuffer(s)
        t   == Put(Fill(s, buf, u), u, Entry(buf, u, FALSE))
        d   == IF Effective[u] = u THEN t ELSE Put(t, Effective[u], Entry(buf, u, TRUE))
    IN  [d EXCEPT !.stored = @ + Size[u]]

\* mutant: the new playlist is not counted
FullBefore(s, u) == mMaxPlaylistCacheSize # Unlimited /\ s.stored > mMaxPlaylistCacheSize

Full(s, u) ==
    mMaxPlaylistCacheSize # Unlimited /\ s.stored + Size[u] > mMaxPlaylistCacheSize

TooLarge(u) == mMaxPlaylistCacheSize # Unlimited /\ Size[u] >= mMaxPlaylistCacheSize

Inserted(s, u) ==
    LET type  == FileType[u]
        clean == IF type = "manifest" THEN ClearPlaylistCache(s) ELSE s
        full  == Full(clean, u)
        room  == IF full /\ DOMAIN clean.cache # {} THEN Allocated(clean, type, Size[u])
                 ELSE clean
    IN  IF u \in DOMAIN s.cache THEN s
        ELSE IF TooLarge(u) THEN clean
        ELSE IF full /\ ~SlotReady(clean, type, Size[u]) THEN room
        ELSE WithEntry(room, u)

\* Init: the thread is created before mAsyncCacheCleanUpThread is set; if it is the
\* faster one it sees the flag not set and ends.
StartCleaner ==
    IF mInitialized THEN UNCHANGED <<mInitialized, mAsyncCacheCleanUpThread, cleaner>>
    ELSE /\ mInitialized' = TRUE /\ mAsyncCacheCleanUpThread' = TRUE
         /\ cleaner' \in {"start", "exit"}

\* A flush has the caches without their mutexes: what runs beside it is undefined.
Flushing == cleaner = "flush"

\* A playlist of a live stream is not stored, a manifest is.
InsertToPlaylistCache(u, trackLiveStatus) ==
    /\ player = "tuned" /\ ~Flushing /\ playlists.stored <= StoredBound
    /\ StartCleaner
    /\ playlists' = IF trackLiveStatus /\ FileType[u] # "manifest" THEN playlists
                    ELSE Inserted(playlists, u)
    /\ UNCHANGED <<inits, umCacheTrackQ, limits, mCacheActive, player>>

\* Of a manifest that is a playlist itself; the url of the player is then the
\* effective one of the entry.
RemoveFromPlaylistCache(u) ==
    /\ player = "tuned" /\ ~Flushing
    /\ u \in DOMAIN playlists.cache
    /\ playlists.cache[u].mFileType = "manifest" /\ playlists.cache[u].mEffectiveUrl = u
    /\ playlists' = Erase(playlists, {u})
    /\ UNCHANGED <<inits, umCacheTrackQ, limits, mInitialized, mCacheActive,
                   mAsyncCacheCleanUpThread, player, cleaner>>

--------------------------------------------------------------------------
(* The cache of init fragments. *)

\* mutant: the entry of the effective url stays
RemoveInitFragCacheEntryAlone(q, s) ==
    IF Head(q) \notin DOMAIN s.cache THEN [queue |-> q, inits |-> s]
    ELSE [queue |-> Tail(q),
          inits |-> [s EXCEPT !.cache = Restrict(@, DOMAIN @ \ {Head(q)}),
                              !.heap = Restrict(@, DOMAIN @ \ {s.cache[Head(q)].mCachedBuffer})]]

\* mutant: the url stays in the queue
RemoveInitFragCacheEntryQueued(q, s) ==
    LET u    == Head(q)
        e    == s.cache[u]
        gone == {u} \cup (IF e.mDuplicateEntry THEN {e.mEffectiveUrl} ELSE {})
    IN  [queue |-> q,
         inits |-> IF u \notin DOMAIN s.cache THEN s
                   ELSE [s EXCEPT !.cache = Restrict(@, DOMAIN @ \ gone),
                                  !.heap = Restrict(@, DOMAIN @ \ {e.mCachedBuffer})]]

\* The first url of the queue, its entry, the entry of its effective url and the
\* buffer; nothing when there is no entry.
RemoveInitFragCacheEntry(q, s) ==
    LET u    == Head(q)
        e    == s.cache[u]
        gone == {u} \cup (IF e.mDuplicateEntry THEN {e.mEffectiveUrl} ELSE {})
    IN  IF u \notin DOMAIN s.cache THEN [queue |-> q, inits |-> s]
        ELSE [queue |-> Tail(q),
              inits |-> [s EXCEPT !.cache = Restrict(@, DOMAIN @ \ gone),
                                  !.heap = Restrict(@, DOMAIN @ \ {e.mCachedBuffer})]]

\* mutant: the entry keeps the buffer of the download, which is used again, not a copy
WithInitEntryUncopied(s, u) ==
    LET t == Put(Fill(s, 1, u), u, Entry(1, u, Effective[u] # u))
    IN  IF Effective[u] = u THEN t ELSE Put(t, Effective[u], Entry(1, u, FALSE))

\* Here the first entry is marked as one that has a duplicate, the second is not.
WithInitEntry(s, u) ==
    LET buf == NewBuffer(s)
        t   == Put(Fill(s, buf, u), u, Entry(buf, u, Effective[u] # u))
    IN  IF Effective[u] = u THEN t ELSE Put(t, Effective[u], Entry(buf, u, FALSE))

InsertToInitFragCache(u) ==
    LET type  == FileType[u]
        queue == Append(umCacheTrackQ[type], u)
        r     == IF Len(queue) > MaxInitCacheSlot THEN RemoveInitFragCacheEntry(queue, inits)
                 ELSE [queue |-> queue, inits |-> inits]
    IN  /\ player = "tuned" /\ ~Flushing
        /\ u \notin DOMAIN inits.cache
        /\ Len(umCacheTrackQ[type]) <= QueueBound
        /\ umCacheTrackQ' = [umCacheTrackQ EXCEPT ![type] = r.queue]
        /\ inits' = WithInitEntry(r.inits, u)
        /\ UNCHANGED <<playlists, limits, mInitialized, mCacheActive, mAsyncCacheCleanUpThread,
                       player, cleaner>>

ClearInitFragCache == Erase(inits, DOMAIN inits.cache)

--------------------------------------------------------------------------
(* Start and stop of the player, its end, and the thread. *)

LockFree == ~Flushing

\* pthread_cond_signal(&mCondVar)
Signal ==
    cleaner' = CASE cleaner = "wait" -> "woken"
                 [] cleaner = "timed" -> "awake"
                 [] OTHER -> cleaner

\* StartPlaylistCache and StopPlaylistCache: the flag is set before the lock is taken.
SetActive(from, to, active) ==
    /\ player = from /\ player' = to
    /\ mCacheActive' = active
    /\ UNCHANGED <<caches, limits, mInitialized, mAsyncCacheCleanUpThread, cleaner>>

SignalActive(from, to) ==
    /\ player = from /\ player' = to /\ LockFree
    /\ Signal
    /\ UNCHANGED <<caches, limits, mInitialized, mCacheActive, mAsyncCacheCleanUpThread>>

StartPlaylistCache ==
    SetActive("stopped", "starting", TRUE) \/ SignalActive("starting", "tuning")
StopPlaylistCache ==
    SetActive("tuned", "stopping", FALSE) \/ SignalActive("stopping", "stopped")

\* Tune: a limit is set if the configuration has one that is not the default, else
\* that of the tune before stays.  Playlists to be fetched ahead lift theirs.
SetLimits ==
    /\ player = "tuning" /\ player' = "tuned"
    /\ mMaxPlaylistCacheSize' \in {mMaxPlaylistCacheSize, Unlimited} \cup Sizes
    /\ MaxInitCacheSlot' \in {MaxInitCacheSlot} \cup Slots
    /\ UNCHANGED <<caches, mInitialized, mCacheActive, mAsyncCacheCleanUpThread, cleaner>>

\* A use of the caches during a flush.
Race ==
    /\ player = "tuned" /\ Flushing /\ player' = "race"
    /\ UNCHANGED <<caches, limits, mInitialized, mCacheActive, mAsyncCacheCleanUpThread,
                   cleaner>>

\* The destructor of a stopped player: ClearCacheHandler ends the thread ...
DeleteHandler ==
    /\ player = "stopped" /\ player' = IF mInitialized THEN "deleting" ELSE "deleted"
    /\ mCacheActive' = (mInitialized \/ mCacheActive)
    /\ UNCHANGED <<caches, limits, mInitialized, mAsyncCacheCleanUpThread, cleaner>>

\* mutant: the thread is woken and not told to end
EndCleanerUntold ==
    /\ player = "deleting" /\ player' = "joining" /\ LockFree
    /\ Signal
    /\ UNCHANGED <<caches, limits, mInitialized, mCacheActive, mAsyncCacheCleanUpThread>>

EndCleaner ==
    /\ player = "deleting" /\ player' = "joining" /\ LockFree
    /\ mAsyncCacheCleanUpThread' = FALSE
    /\ Signal
    /\ UNCHANGED <<caches, limits, mInitialized, mCacheActive>>

\* ... joins it and empties the caches.
JoinCleaner ==
    /\ player = "joining" /\ cleaner = "exit" /\ player' = "deleted"
    /\ playlists' = ClearPlaylistCache(playlists)
    /\ inits' = ClearInitFragCache /\ umCacheTrackQ' = EmptyQueues
    /\ mInitialized' = FALSE
    /\ UNCHANGED <<limits, mCacheActive, mAsyncCacheCleanUpThread, cleaner>>

CleanerGoes(to) ==
    /\ cleaner' = to
    /\ UNCHANGED <<caches, limits, mInitialized, mCacheActive, mAsyncCacheCleanUpThread,
                   player>>

\* while (mAsyncCacheCleanUpThread) pthread_cond_wait
CleanerLoop ==
    /\ cleaner \in {"start", "awake"}
    /\ CleanerGoes(IF mAsyncCacheCleanUpThread THEN "wait" ELSE "exit")

\* Woken: a stopped player is given ten seconds.
CleanerWoken ==
    /\ cleaner = "woken"
    /\ CleanerGoes(IF mCacheActive THEN "awake" ELSE "timed")

\* The time is over; the thread has mCondVarMutex only in the next step.
CleanerTimeout == cleaner = "timed" /\ CleanerGoes("timed out")
CleanerFlush   == cleaner = "timed out" /\ CleanerGoes("flush")

CleanerFlushed ==
    /\ cleaner = "flush" /\ cleaner' = "awake"
    /\ playlists' = ClearPlaylistCache(playlists)
    /\ inits' = ClearInitFragCache /\ umCacheTrackQ' = EmptyQueues
    /\ UNCHANGED <<limits, mInitialized, mCacheActive, mAsyncCacheCleanUpThread, player>>

CleanerStep == CleanerLoop \/ CleanerWoken \/ CleanerTimeout \/ CleanerFlush \/ CleanerFlushed

Next ==
    \/ \E u \in Urls : \/ \E live \in BOOLEAN : InsertToPlaylistCache(u, live)
                       \/ RemoveFromPlaylistCache(u)
    \/ \E u \in Requested : InsertToInitFragCache(u)
    \/ StartPlaylistCache \/ SetLimits \/ StopPlaylistCache \/ Race
    \/ DeleteHandler \/ EndCleaner \/ JoinCleaner
    \/ CleanerStep

Spec == Init /\ [][Next]_vars

\* Fairness: the thread of the handler and a destructor that was entered run on.
FairSpec == Spec /\ WF_vars(CleanerStep) /\ WF_vars(EndCleaner \/ JoinCleaner)

--------------------------------------------------------------------------
(* Properties *)

\* Every playlist entry has a live buffer, and exactly one entry of a buffer frees
\* it: the duplicate entries of a redirected url, evictions of one type and the removal
\* of a playlist that is the manifest leave neither a dangling pointer nor a second free.
PlaylistBuffersLive ==
    /\ Buffers(playlists) \subseteq DOMAIN playlists.heap
    /\ \A u, v \in DOMAIN playlists.cache :
          /\ playlists.cache[u].mCachedBuffer = playlists.cache[v].mCachedBuffer
          /\ ~playlists.cache[u].mDuplicateEntry /\ ~playlists.cache[v].mDuplicateEntry
          => u = v

\* RemoveInitFragCacheEntry frees the buffer of the "very first inserted entry" with "its
\* duplicate entry": no entry with the buffer is left behind (AampCacheHandler.cpp:464).
InitBuffersLive == Buffers(inits) \subseteq DOMAIN inits.heap

\* No entry of either cache dangles and no buffer is freed twice.
BuffersLive == TypeOK /\ PlaylistBuffersLive /\ InitBuffersLive

\* Retrieve...: what is found under a url was downloaded from it, or from an url that
\* was redirected to it, whatever was evicted, overwritten and allocated in between.
RightContent ==
    \A s \in {playlists, inits} : \A u \in DOMAIN s.cache :
        s.cache[u].mCachedBuffer \in DOMAIN s.heap =>
            LET from == s.heap[s.cache[u].mCachedBuffer] IN from = u \/ Effective[from] = u

\* The playlists in the cache never take more than is booked in mCacheStoredSize, which
\* forgets to book some removals: the test against the limit can only be too strict.
StoredSize(s) == SizeOf(s, DOMAIN s.heap)
StoredSizeCovers == StoredSize(playlists) <= playlists.stored

\* InsertToInitFragCache, RemoveInitFragCacheEntry: a queued url has its entry and is queued
\* once, through every eviction, so that its turn to be evicted comes.  Only the entry of an
\* url that another one is redirected to may go before its turn, see SlotsKept.
NotRedirectedTo(u) == \A v \in InitUrls : Effective[v] = u => v = u

QueueIsCache ==
    \A type \in Types(InitUrls) :
        LET q == umCacheTrackQ[type]
        IN  \A i \in 1 .. Len(q) :
                NotRedirectedTo(q[i]) =>
                    q[i] \in DOMAIN inits.cache /\ \A j \in 1 .. Len(q) : q[j] = q[i] => j = i

\* InsertToPlaylistCache, InsertToInitFragCache: no step takes a cache further above the
\* limits of the tune, also after a tune that lowers them below what is cached.
WithinLimits ==
    [][/\ StoredSize(playlists') <= StoredSize(playlists)
          \/ mMaxPlaylistCacheSize = Unlimited
          \/ StoredSize(playlists') <= mMaxPlaylistCacheSize
       /\ \A type \in Types(InitUrls) :
             Len(umCacheTrackQ'[type]) <= Len(umCacheTrackQ[type])
             \/ Len(umCacheTrackQ'[type]) <= MaxInitCacheSlot]_vars

\* InsertToInitFragCache: "If track queue of given filetype reached maximum limit, remove
\* the very first inserted entry" (AampCacheHandler.cpp:464).
SlotsKept == \A type \in Types(InitUrls) : Len(umCacheTrackQ[type]) <= MaxInitCacheSlot

\* ClearCacheHandler: the join of the thread returns, also when the thread never waited,
\* is about to wait, counts its ten seconds or flushes.
DestructorReturns == player = "deleting" ~> player = "deleted"
=============================================================================
