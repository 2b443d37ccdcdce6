---------------------- MODULE AampCacheHandler_proofs -----------------------
(***************************************************************************)
(* Proofs about AampCacheHandler, for any urls, redirects, sizes and       *)
(* limits.  EntriesLive, ContentIsRight and LimitsKept assume that no init *)
(* fragment is asked for under the url another one is redirected to, whose *)
(* entry is overwritten otherwise; QueuesMatchCache and StoredSizeBounds   *)
(* hold for any requests.                                                  *)
(***************************************************************************)
EXTENDS AampCacheHandler, TLAPS, FiniteSetTheorems

NoTargetRequested == \A u \in Requested : NotRedirectedTo(u)

-----------------------------------------------------------------------------
(* Entries.  A cache is valid if each entry has a live buffer and is the    *)
(* entry of the url the content came from, or of its effective url; the     *)
(* two caches mark the two entries differently.                             *)

UrlsOf(kind) == IF kind = "init" THEN InitUrls ELSE Urls

Marked(kind, u, from) ==
    IF kind = "init" THEN u = from /\ Effective[from] # from ELSE u # from

Good(kind, u, e, heap) ==
    /\ e.mCachedBuffer \in DOMAIN heap
    /\ LET from == heap[e.mCachedBuffer]
       IN  /\ u = from \/ u = Effective[from]
           /\ e.mEffectiveUrl = Effective[from]
           /\ e.mFileType = FileType[from]
           /\ e.mDuplicateEntry <=> Marked(kind, u, from)

Valid(kind, s) ==
    /\ {"cache", "heap"} \subseteq DOMAIN s
    /\ IsFiniteSet(DOMAIN s.heap)
    /\ \A b \in DOMAIN s.heap : s.heap[b] \in UrlsOf(kind)
    /\ DOMAIN s.cache \subseteq UrlsOf(kind)
    /\ \A u \in DOMAIN s.cache : Good(kind, u, s.cache[u], s.heap)

LEMMA RedirectType ==
    ASSUME NEW kind, NEW u \in UrlsOf(kind)
    PROVE  u \in AllUrls /\ Effective[u] \in UrlsOf(kind)
  BY CacheAssumption DEF UrlsOf, AllUrls

\* new GrowableBuffer: a buffer that is not in use, found among the first few.
LEMMA FreshBuffer ==
    ASSUME NEW kind, NEW s, Valid(kind, s)
    PROVE  NewBuffer(s) \notin DOMAIN s.heap
<1> DEFINE D == DOMAIN s.heap
           n == Cardinality(D)
<1>1. D \cup Buffers(s) = D
  BY DEF Valid, Good, Buffers
<1>2. n \in Nat
  BY FS_CardinalityType DEF Valid
<1>3. \E b \in 1 .. n + 1 : b \notin D
  <2> SUFFICES ASSUME 1 .. n + 1 \subseteq D PROVE FALSE
    OBVIOUS
  <2>1. Cardinality(1 .. n + 1) <= n
    BY FS_Subset DEF Valid
  <2>2. Cardinality(1 .. n + 1) = n + 1
    <3>1. 1 \in Int /\ n + 1 \in Int /\ ~(1 > n + 1) /\ n + 1 - 1 + 1 = n + 1
      BY <1>2
    <3> HIDE DEF n
    <3> QED BY <3>1, FS_Interval
  <2> HIDE DEF n
  <2> QED BY <1>2, <2>1, <2>2
<1> HIDE DEF D, n
<1>4. NewBuffer(s) = CHOOSE b \in 1 .. n + 1 : b \notin D
  BY <1>1 DEF NewBuffer, D, n
<1> QED BY <1>3, <1>4 DEF D

-----------------------------------------------------------------------------
(* The fields of what the helpers return.                                   *)

LEMMA RestrictIs ==
    ASSUME NEW f, NEW S \in SUBSET DOMAIN f
    PROVE  /\ DOMAIN Restrict(f, S) = S
           /\ \A x \in S : Restrict(f, S)[x] = f[x]
  BY DEF Restrict

LEMMA EraseFields ==
    ASSUME NEW s, {"cache", "heap"} \subseteq DOMAIN s, NEW us
    PROVE  LET t == Erase(s, us)
           IN  /\ DOMAIN t = DOMAIN s
               /\ DOMAIN t.cache = DOMAIN s.cache \ us
               /\ \A u \in DOMAIN t.cache : t.cache[u] = s.cache[u]
               /\ DOMAIN t.heap = (DOMAIN s.heap \cap Buffers(t)) \ Freed(s, us)
               /\ \A b \in DOMAIN t.heap : t.heap[b] = s.heap[b]
<1> DEFINE left == DOMAIN s.cache \ us
           used == {s.cache[u].mCachedBuffer : u \in left}
           t    == Erase(s, us)
<1>1. /\ DOMAIN t = DOMAIN s
      /\ t.cache = Restrict(s.cache, left)
      /\ t.heap = Restrict(s.heap, (DOMAIN s.heap \cap used) \ Freed(s, us))
  BY DEF Erase
<1> HIDE DEF t
<1>2. /\ DOMAIN t.cache = left
      /\ \A u \in left : t.cache[u] = s.cache[u]
      /\ DOMAIN t.heap = (DOMAIN s.heap \cap used) \ Freed(s, us)
      /\ \A b \in DOMAIN t.heap : t.heap[b] = s.heap[b]
  BY <1>1, RestrictIs
<1>3. used = Buffers(t)
  BY <1>2 DEF Buffers
<1> QED BY <1>1, <1>2, <1>3 DEF t

LEMMA FillFields ==
    ASSUME NEW s, {"cache", "heap"} \subseteq DOMAIN s, NEW buf, NEW u
    PROVE  /\ DOMAIN Fill(s, buf, u) = DOMAIN s
           /\ Fill(s, buf, u).cache = s.cache
           /\ DOMAIN Fill(s, buf, u).heap = DOMAIN s.heap \cup {buf}
           /\ Fill(s, buf, u).heap[buf] = u
           /\ \A b \in DOMAIN s.heap \ {buf} : Fill(s, buf, u).heap[b] = s.heap[b]
  BY DEF Fill

With(c, u, entry) == [v \in DOMAIN c \cup {u} |-> IF v = u THEN entry ELSE c[v]]

LEMMA PutFields ==
    ASSUME NEW s, {"cache", "heap"} \subseteq DOMAIN s, NEW u, NEW entry
    PROVE  /\ DOMAIN Put(s, u, entry) = DOMAIN s
           /\ Put(s, u, entry).cache = With(s.cache, u, entry)
           /\ Put(s, u, entry).heap =
                  Restrict(s.heap, DOMAIN s.heap \cap Buffers(Put(s, u, entry)))
<1> DEFINE cache == With(s.cache, u, entry)
           used  == {cache[v].mCachedBuffer : v \in DOMAIN cache}
<1>1. Put(s, u, entry) = [s EXCEPT !.cache = cache, !.heap = Restrict(@, DOMAIN @ \cap used)]
  BY DEF Put, With
<1>2. /\ DOMAIN Put(s, u, entry) = DOMAIN s
      /\ Put(s, u, entry).cache = cache
      /\ Put(s, u, entry).heap = Restrict(s.heap, DOMAIN s.heap \cap used)
  <2> HIDE DEF cache, used
  <2> QED BY <1>1
<1>3. used = Buffers(Put(s, u, entry))
  BY <1>2 DEF Buffers
<1> HIDE DEF cache, used
<1> QED BY <1>2, <1>3 DEF cache

-----------------------------------------------------------------------------
(* What keeps a cache valid.                                                *)

\* Entries may be erased together with every other entry of a buffer they free.
LEMMA EraseValid ==
    ASSUME NEW kind, NEW s, Valid(kind, s), NEW us \in SUBSET DOMAIN s.cache,
           \A u \in us : \A v \in DOMAIN s.cache \ us :
               s.cache[u].mDuplicateEntry \/ s.cache[u].mCachedBuffer # s.cache[v].mCachedBuffer
    PROVE  Valid(kind, Erase(s, us))
<1> DEFINE t == Erase(s, us)
<1>0. {"cache", "heap"} \subseteq DOMAIN s
  BY DEF Valid
<1>1. /\ DOMAIN t = DOMAIN s
      /\ DOMAIN t.cache = DOMAIN s.cache \ us
      /\ \A u \in DOMAIN t.cache : t.cache[u] = s.cache[u]
      /\ DOMAIN t.heap = (DOMAIN s.heap \cap Buffers(t)) \ Freed(s, us)
      /\ \A b \in DOMAIN t.heap : t.heap[b] = s.heap[b]
  BY <1>0, EraseFields
<1>2. IsFiniteSet(DOMAIN t.heap)
  BY <1>1, FS_Subset DEF Valid
<1>3. ASSUME NEW u \in DOMAIN t.cache PROVE Good(kind, u, t.cache[u], t.heap)
  <2>1. Good(kind, u, s.cache[u], s.heap)
    BY <1>1 DEF Valid
  <2>2. s.cache[u].mCachedBuffer \notin Freed(s, us)
    BY <1>1 DEF Freed
  <2>3. s.cache[u].mCachedBuffer \in Buffers(t)
    BY <1>1 DEF Buffers
  <2> HIDE DEF t
  <2> QED BY <1>1, <2>1, <2>2, <2>3 DEF Good
<1> HIDE DEF t
<1> QED BY <1>1, <1>2, <1>3 DEF t, Valid

LEMMA PutValid ==
    ASSUME NEW kind, NEW s, Valid(kind, s), NEW u \in UrlsOf(kind), NEW entry,
           Good(kind, u, entry, s.heap)
    PROVE  Valid(kind, Put(s, u, entry))
<1> DEFINE t == Put(s, u, entry)
           used == Buffers(t)
<1>0. {"cache", "heap"} \subseteq DOMAIN s
  BY DEF Valid
<1>1. /\ DOMAIN t = DOMAIN s
      /\ DOMAIN t.cache = DOMAIN s.cache \cup {u}
      /\ t.cache[u] = entry
      /\ \A v \in DOMAIN s.cache \ {u} : t.cache[v] = s.cache[v]
  <2>1. DOMAIN t = DOMAIN s /\ t.cache = With(s.cache, u, entry)
    BY <1>0, PutFields
  <2> HIDE DEF t
  <2> QED BY <2>1 DEF With
<1>a. t.heap = Restrict(s.heap, DOMAIN s.heap \cap used)
  BY <1>0, PutFields
<1>2. /\ DOMAIN t.heap = DOMAIN s.heap \cap used
      /\ \A b \in DOMAIN t.heap : t.heap[b] = s.heap[b]
  <2> HIDE DEF t, used
  <2> QED BY <1>a, RestrictIs
<1>3. IsFiniteSet(DOMAIN t.heap)
  BY <1>2, FS_Subset DEF Valid
<1>4. ASSUME NEW v \in DOMAIN t.cache PROVE Good(kind, v, t.cache[v], t.heap)
  <2>1. Good(kind, v, t.cache[v], s.heap)
    BY <1>1 DEF Valid
  <2>2. t.cache[v].mCachedBuffer \in used
    BY DEF Buffers
  <2> HIDE DEF t, used
  <2> QED BY <1>2, <2>1, <2>2 DEF Good
<1> HIDE DEF t, used
<1> QED BY <1>1, <1>2, <1>3, <1>4 DEF t, Valid

LEMMA FillValid ==
    ASSUME NEW kind, NEW s, Valid(kind, s), NEW u \in UrlsOf(kind)
    PROVE  Valid(kind, Fill(s, NewBuffer(s), u))
<1> DEFINE buf == NewBuffer(s)
           t == Fill(s, buf, u)
<1>1. buf \notin DOMAIN s.heap
  BY FreshBuffer
<1>2. /\ DOMAIN t = DOMAIN s
      /\ t.cache = s.cache
      /\ DOMAIN t.heap = DOMAIN s.heap \cup {buf}
      /\ t.heap[buf] = u
      /\ \A b \in DOMAIN s.heap \ {buf} : t.heap[b] = s.heap[b]
  BY FillFields DEF Valid
<1>3. IsFiniteSet(DOMAIN t.heap)
  BY <1>2, FS_AddElement DEF Valid
<1> HIDE DEF t, buf
<1>4. ASSUME NEW v \in DOMAIN t.cache PROVE Good(kind, v, t.cache[v], t.heap)
  <2>1. Good(kind, v, s.cache[v], s.heap)
    BY <1>2 DEF Valid
  <2> QED BY <1>1, <1>2, <2>1 DEF Good
<1> QED BY <1>1, <1>2, <1>3, <1>4 DEF t, buf, Valid

\* A new download: its buffer holds u after the entry is made.
LEMMA NewEntry ==
    ASSUME NEW kind, NEW s, Valid(kind, s), NEW u \in UrlsOf(kind),
           NEW entry, entry.mCachedBuffer = NewBuffer(s),
           Good(kind, u, entry, Fill(s, NewBuffer(s), u).heap)
    PROVE  LET t == Put(Fill(s, NewBuffer(s), u), u, entry)
           IN  /\ Valid(kind, t)
               /\ DOMAIN t = DOMAIN s
               /\ DOMAIN t.cache = DOMAIN s.cache \cup {u}
               /\ NewBuffer(s) \in DOMAIN t.heap
               /\ t.heap[NewBuffer(s)] = u
<1> DEFINE buf == NewBuffer(s)
           f == Fill(s, buf, u)
           t == Put(f, u, entry)
<1>0. {"cache", "heap"} \subseteq DOMAIN s
  BY DEF Valid
<1>1. Valid(kind, f) /\ DOMAIN f = DOMAIN s /\ f.cache = s.cache
      /\ buf \in DOMAIN f.heap /\ f.heap[buf] = u
  BY <1>0, FillValid, FillFields
<1>2. Valid(kind, t)
  <2> HIDE DEF f
  <2> QED BY <1>1, PutValid DEF f
<1>3. DOMAIN t = DOMAIN f /\ t.cache = With(f.cache, u, entry)
      /\ t.heap = Restrict(f.heap, DOMAIN f.heap \cap Buffers(t))
  <2> HIDE DEF f
  <2> QED BY <1>1, PutFields DEF Valid
<1> HIDE DEF f, t, buf
<1>4. DOMAIN t.cache = DOMAIN f.cache \cup {u} /\ t.cache[u] = entry
  BY <1>3 DEF With
<1>5. buf \in Buffers(t)
  BY <1>4 DEF Buffers, buf
<1>6. buf \in DOMAIN t.heap /\ t.heap[buf] = u
  BY <1>1, <1>3, <1>5, RestrictIs
<1> QED BY <1>1, <1>2, <1>3, <1>4, <1>6 DEF f, t, buf

-----------------------------------------------------------------------------
(* The cache of playlists.                                                  *)

LEMMA StoredValid ==
    ASSUME NEW s, Valid("playlist", s), NEW x
    PROVE  /\ Valid("playlist", [s EXCEPT !.stored = x])
           /\ DOMAIN [s EXCEPT !.stored = x] = DOMAIN s
<1> DEFINE t == [s EXCEPT !.stored = x]
<1>1. DOMAIN t = DOMAIN s /\ t.cache = s.cache /\ t.heap = s.heap
  BY DEF Valid
<1> HIDE DEF t
<1> QED BY <1>1 DEF t, Valid

LEMMA WithEntryValid ==
    ASSUME NEW s, Valid("playlist", s), NEW u \in Urls
    PROVE  Valid("playlist", WithEntry(s, u)) /\ DOMAIN WithEntry(s, u) = DOMAIN s
<1> DEFINE buf == NewBuffer(s)
           f == Fill(s, buf, u)
           t == Put(f, u, Entry(buf, u, FALSE))
           d == IF Effective[u] = u THEN t ELSE Put(t, Effective[u], Entry(buf, u, TRUE))
<1>1. u \in UrlsOf("playlist") /\ Effective[u] \in UrlsOf("playlist")
  BY RedirectType DEF UrlsOf
<1>2. buf \in DOMAIN f.heap /\ f.heap[buf] = u
  BY FillFields DEF Valid
<1> HIDE DEF f, buf
<1>3. Good("playlist", u, Entry(buf, u, FALSE), f.heap)
      /\ Entry(buf, u, FALSE).mCachedBuffer = buf
  BY <1>2 DEF Good, Entry, Marked
<1>4. Valid("playlist", t) /\ DOMAIN t = DOMAIN s
      /\ buf \in DOMAIN t.heap /\ t.heap[buf] = u
  <2> DEFINE e == Entry(buf, u, FALSE)
  <2>1. Good("playlist", u, e, Fill(s, NewBuffer(s), u).heap)
        /\ e.mCachedBuffer = NewBuffer(s)
    BY <1>3 DEF f, buf
  <2> HIDE DEF e
  <2>2. LET p == Put(Fill(s, NewBuffer(s), u), u, e)
        IN  Valid("playlist", p) /\ DOMAIN p = DOMAIN s
            /\ NewBuffer(s) \in DOMAIN p.heap /\ p.heap[NewBuffer(s)] = u
    BY <1>1, <2>1, NewEntry
  <2> QED BY <2>2 DEF e, f, buf
<1> HIDE DEF t
<1>5. CASE Effective[u] = u
  BY <1>4, <1>5, StoredValid DEF WithEntry, t, f, buf
<1>6. CASE Effective[u] # u
  <2>1. Good("playlist", Effective[u], Entry(buf, u, TRUE), t.heap)
    BY <1>4, <1>6 DEF Good, Entry, Marked
  <2>2. Valid("playlist", d)
    BY <1>1, <1>4, <1>6, <2>1, PutValid
  <2>3. DOMAIN d = DOMAIN s
    <3>1. {"cache", "heap"} \subseteq DOMAIN t
      BY <1>4 DEF Valid
    <3>2. DOMAIN Put(t, Effective[u], Entry(buf, u, TRUE)) = DOMAIN t
      BY <3>1, PutFields
    <3> QED BY <1>4, <1>6, <3>2
  <2>4. WithEntry(s, u) = [d EXCEPT !.stored = @ + Size[u]]
    BY DEF WithEntry, t, f, buf
  <2> HIDE DEF d
  <2> QED BY <2>2, <2>3, <2>4, StoredValid
<1> QED BY <1>5, <1>6

\* The entries of a buffer have one media type, so eviction takes all or none.
LEMMA AllocatedValid ==
    ASSUME NEW s, Valid("playlist", s), NEW type, NEW newLen
    PROVE  Valid("playlist", Allocated(s, type, newLen))
           /\ DOMAIN Allocated(s, type, newLen) = DOMAIN s
<1> DEFINE us == SlotVictims(s, type, newLen)
<1>1. us \in SUBSET DOMAIN s.cache
  BY DEF SlotVictims
<1>2. ASSUME NEW u \in us, NEW v \in DOMAIN s.cache \ us,
             s.cache[u].mCachedBuffer = s.cache[v].mCachedBuffer
      PROVE  FALSE
  <2>1. s.cache[u].mFileType = s.cache[v].mFileType
    BY <1>1, <1>2 DEF Valid, Good
  <2> QED BY <1>1, <2>1 DEF SlotVictims
<1> HIDE DEF us
<1>3. Valid("playlist", Erase(s, us)) /\ DOMAIN Erase(s, us) = DOMAIN s
  BY <1>1, <1>2, EraseValid, EraseFields DEF Valid
<1> QED BY <1>3, StoredValid DEF Allocated, us

LEMMA ClearValid ==
    ASSUME NEW kind, NEW s, Valid(kind, s)
    PROVE  /\ Valid(kind, Erase(s, DOMAIN s.cache))
           /\ DOMAIN Erase(s, DOMAIN s.cache) = DOMAIN s
  BY EraseValid, EraseFields DEF Valid

LEMMA ClearPlaylistValid ==
    ASSUME NEW s, Valid("playlist", s)
    PROVE  Valid("playlist", ClearPlaylistCache(s)) /\ DOMAIN ClearPlaylistCache(s) = DOMAIN s
  BY ClearValid, StoredValid DEF ClearPlaylistCache

LEMMA InsertedValid ==
    ASSUME NEW s, Valid("playlist", s), NEW u \in Urls
    PROVE  Valid("playlist", Inserted(s, u)) /\ DOMAIN Inserted(s, u) = DOMAIN s
<1> DEFINE type  == FileType[u]
           clean == IF type = "manifest" THEN ClearPlaylistCache(s) ELSE s
           full  == Full(clean, u)
           room  == IF full /\ DOMAIN clean.cache # {} THEN Allocated(clean, type, Size[u])
                    ELSE clean
<1>1. Valid("playlist", clean) /\ DOMAIN clean = DOMAIN s
  BY ClearPlaylistValid
<1>2. Inserted(s, u) = s \/ Inserted(s, u) = clean \/ Inserted(s, u) = room
      \/ Inserted(s, u) = WithEntry(room, u)
  BY DEF Inserted
<1> HIDE DEF clean, full
<1>3. Valid("playlist", room) /\ DOMAIN room = DOMAIN s
  BY <1>1, AllocatedValid
<1> HIDE DEF room
<1> QED BY <1>1, <1>2, <1>3, WithEntryValid

\* A removed manifest that is its own effective url has no second entry.
LEMMA RemovedValid ==
    ASSUME NEW s, Valid("playlist", s), NEW u \in DOMAIN s.cache,
           s.cache[u].mEffectiveUrl = u
    PROVE  Valid("playlist", Erase(s, {u})) /\ DOMAIN Erase(s, {u}) = DOMAIN s
<1>1. ASSUME NEW v \in DOMAIN s.cache \ {u},
             ~s.cache[u].mDuplicateEntry,
             s.cache[u].mCachedBuffer = s.cache[v].mCachedBuffer
      PROVE  FALSE
  <2> DEFINE from == s.heap[s.cache[u].mCachedBuffer]
  <2>1. u = from /\ Effective[from] = u
    BY <1>1 DEF Valid, Good, Marked
  <2>2. v = from \/ v = Effective[from]
    BY <1>1 DEF Valid, Good
  <2> QED BY <2>1, <2>2
<1> QED BY <1>1, EraseValid, EraseFields DEF Valid

-----------------------------------------------------------------------------
(* Sums.  SizeOf is a fold of the community modules; it is given by a       *)
(* function defined by recursion over subsets.  Facts about it are proved   *)
(* by a smallest subset that would be a counterexample.                     *)

Sums(h, S, it) ==
    it = [t \in SUBSET S |-> IF t = {} THEN 0
                             ELSE LET x == CHOOSE x \in t : TRUE
                                  IN  Size[h[x]] + it[t \ {x}]]
Total(h, S) == (CHOOSE it : Sums(h, S, it))[S]

LEMMA SizeOfIs == ASSUME NEW s, NEW S PROVE SizeOf(s, S) = Total(s.heap, S)
  BY DEF SizeOf, Total, Sums, MapThenSumSet, MapThenFoldSet

LEMMA Smallest ==
    ASSUME NEW S, IsFiniteSet(S), NEW T \in SUBSET SUBSET S, T # {}
    PROVE  \E t \in T : \A u \in SUBSET t : u # t => u \notin T
<1>1. IsWellFoundedOn(StrictSubsetOrdering(S), SUBSET S)
  BY FS_StrictSubsetOrderingWellFounded, FS_FiniteSubsetsOfFinite
<1>2. PICK t \in T : \A u \in T : ~(<<u, t>> \in StrictSubsetOrdering(S))
  BY <1>1, WFMin
<1> QED BY <1>2 DEF StrictSubsetOrdering

LEMMA SumsEmpty == ASSUME NEW h, NEW S, NEW it, Sums(h, S, it) PROVE it[{}] = 0
  BY DEF Sums

Pick(t) == CHOOSE x \in t : TRUE

LEMMA SumsStep ==
    ASSUME NEW h, NEW S, NEW it, Sums(h, S, it), NEW t \in SUBSET S, t # {}
    PROVE  /\ it[t] = Size[h[Pick(t)]] + it[t \ {Pick(t)}]
           /\ Pick(t) \in t
<1>1. it = [z \in SUBSET S |-> IF z = {} THEN 0 ELSE Size[h[Pick(z)]] + it[z \ {Pick(z)}]]
  BY DEF Sums, Pick
<1>2. Pick(t) \in t
  BY DEF Pick
<1> QED BY <1>1, <1>2

LEMMA SumsUnique ==
    ASSUME NEW h, NEW S, IsFiniteSet(S), NEW U, NEW V \in SUBSET S, V \in SUBSET U,
           NEW f, Sums(h, S, f), NEW g, Sums(h, U, g)
    PROVE  f[V] = g[V]
<1> DEFINE T == {t \in SUBSET V : f[t] # g[t]}
<1> SUFFICES ASSUME T # {} PROVE FALSE
  OBVIOUS
<1>1. T \in SUBSET SUBSET V /\ IsFiniteSet(V)
  BY FS_Subset
<1>2. PICK t \in T : \A u \in SUBSET t : u # t => u \notin T
  <2> HIDE DEF T
  <2> QED BY <1>1, Smallest
<1>3. t # {}
  <2>1. f[{}] = 0 /\ g[{}] = 0
    BY SumsEmpty
  <2> QED BY <1>2, <2>1
<1> DEFINE x == Pick(t)
           u == t \ {x}
<1>4. x \in t
  BY <1>3, SumsStep
<1>5. f[t] = Size[h[x]] + f[u] /\ g[t] = Size[h[x]] + g[u]
  <2>1. t \in SUBSET S /\ t \in SUBSET U
    OBVIOUS
  <2> HIDE DEF T
  <2>2. f[t] = Size[h[x]] + f[u]
    BY <1>3, <2>1, SumsStep
  <2>3. g[t] = Size[h[x]] + g[u]
    BY <1>3, <2>1, SumsStep
  <2> QED BY <2>2, <2>3
<1>6. u \in SUBSET t /\ u # t
  BY <1>4
<1>7. f[u] = g[u]
  BY <1>2, <1>6
<1>8. f[t] = g[t]
  BY <1>5, <1>7
<1> QED BY <1>8

LEMMA SumsExist ==
    ASSUME NEW h, NEW S, IsFiniteSet(S)
    PROVE  \E it : Sums(h, S, it)
<1> DEFINE T == {t \in SUBSET S : ~ \E it : Sums(h, t, it)}
<1> SUFFICES ASSUME T # {} PROVE FALSE
  OBVIOUS
<1>1. PICK t \in T : \A u \in SUBSET t : u # t => u \notin T
  <2>1. T \in SUBSET SUBSET S
    OBVIOUS
  <2> HIDE DEF T
  <2> QED BY <2>1, Smallest
<1> DEFINE it == [z \in SUBSET t |-> IF z = {} THEN 0
                     ELSE Size[h[Pick(z)]] + Total(h, z \ {Pick(z)})]
<1>2. ASSUME NEW u \in SUBSET t, u # t PROVE Sums(h, u, CHOOSE f : Sums(h, u, f))
  BY <1>1, <1>2
<1>3. ASSUME NEW u \in SUBSET t, u # t PROVE Total(h, u) = it[u]
  <2> DEFINE f == CHOOSE f : Sums(h, u, f)
  <2>1. Sums(h, u, f)
    BY <1>2, <1>3
  <2>2. Total(h, u) = f[u]
    BY DEF Total
  <2> HIDE DEF f
  <2>3. CASE u = {}
    BY <2>1, <2>2, <2>3, SumsEmpty
  <2>4. CASE u # {}
    <3> DEFINE x == Pick(u)
               v == u \ {x}
               g == CHOOSE g : Sums(h, v, g)
    <3>1. x \in u
      BY <2>4 DEF Pick
    <3>2. f[u] = Size[h[x]] + f[v]
      BY <2>1, <2>4, SumsStep
    <3>3. v \in SUBSET t /\ v # t /\ v \in SUBSET u
      BY <3>1
    <3>4. Sums(h, v, g)
      BY <1>2, <3>3
    <3>5. Total(h, v) = g[v]
      BY DEF Total
    <3>6. IsFiniteSet(u)
      BY FS_Subset
    <3>7. f[v] = g[v]
      <4> HIDE DEF g, v
      <4> QED BY <2>1, <3>3, <3>4, <3>6, SumsUnique
    <3>8. it[u] = Size[h[x]] + Total(h, v)
      BY <2>4
    <3> QED BY <2>2, <3>2, <3>5, <3>7, <3>8
  <2> QED BY <2>3, <2>4
<1>4. ASSUME NEW z \in SUBSET t, z # {} PROVE it[z] = Size[h[Pick(z)]] + it[z \ {Pick(z)}]
  <2> DEFINE v == z \ {Pick(z)}
  <2>1. Pick(z) \in z
    BY <1>4 DEF Pick
  <2>2. v \in SUBSET t /\ v # t
    BY <2>1
  <2>3. Total(h, v) = it[v]
    BY <1>3, <2>2
  <2>4. it[z] = Size[h[Pick(z)]] + Total(h, v)
    BY <1>4
  <2> QED BY <2>3, <2>4
<1>5. it = [z \in SUBSET t |-> IF z = {} THEN 0
                ELSE Size[h[Pick(z)]] + it[z \ {Pick(z)}]]
  <2>1. it = [z \in SUBSET t |-> it[z]] /\ it[{}] = 0
    OBVIOUS
  <2> HIDE DEF it
  <2>2. [z \in SUBSET t |-> it[z]] = [z \in SUBSET t |-> IF z = {} THEN 0
                                        ELSE Size[h[Pick(z)]] + it[z \ {Pick(z)}]]
    BY <1>4, <2>1
  <2> QED BY <2>1, <2>2
<1>6. Sums(h, t, it)
  <2> HIDE DEF it
  <2> QED BY <1>5 DEF Sums, Pick
<1> QED BY <1>1, <1>6

LEMMA TotalSteps ==
    ASSUME NEW h, NEW S, IsFiniteSet(S)
    PROVE  /\ S = {} => Total(h, S) = 0
           /\ S # {} => /\ Pick(S) \in S
                       /\ Total(h, S) = Size[h[Pick(S)]] + Total(h, S \ {Pick(S)})
<1> DEFINE f == CHOOSE f : Sums(h, S, f)
<1>1. Sums(h, S, f) /\ Total(h, S) = f[S]
  BY SumsExist DEF Total
<1> HIDE DEF f
<1>2. CASE S = {}
  BY <1>1, <1>2, SumsEmpty
<1>3. CASE S # {}
  <2> DEFINE u == S \ {Pick(S)}
             g == CHOOSE g : Sums(h, u, g)
  <2>1. f[S] = Size[h[Pick(S)]] + f[u] /\ Pick(S) \in S
    <3>1. S \in SUBSET S
      OBVIOUS
    <3> QED BY <1>1, <1>3, <3>1, SumsStep
  <2>2. IsFiniteSet(u)
    BY FS_RemoveElement
  <2>3. Sums(h, u, g) /\ Total(h, u) = g[u]
    <3> HIDE DEF u
    <3> QED BY <2>2, SumsExist DEF Total
  <2>4. u \in SUBSET S /\ u \in SUBSET u
    OBVIOUS
  <2>5. f[u] = g[u]
    <3> HIDE DEF u, g
    <3> QED BY <1>1, <2>3, <2>4, SumsUnique
  <2> QED BY <1>1, <1>3, <2>1, <2>3, <2>5
<1> QED BY <1>2, <1>3

\* Sums of a finite set of buffers that hold something.
Sized(h, S) == IsFiniteSet(S) /\ \A b \in S : Size[h[b]] \in Nat

LEMMA SizedSubset == ASSUME NEW h, NEW S, Sized(h, S), NEW T \in SUBSET S PROVE Sized(h, T)
  BY FS_Subset DEF Sized

LEMMA TotalType == ASSUME NEW h, NEW S, Sized(h, S) PROVE Total(h, S) \in Nat
<1> DEFINE T == {t \in SUBSET S : Total(h, t) \notin Nat}
<1> SUFFICES ASSUME T # {} PROVE FALSE
  OBVIOUS
<1>1. PICK t \in T : \A u \in SUBSET t : u # t => u \notin T
  <2>1. T \in SUBSET SUBSET S /\ IsFiniteSet(S)
    BY DEF Sized
  <2> HIDE DEF T
  <2> QED BY <2>1, Smallest
<1>2. Sized(h, t)
  BY SizedSubset
<1> DEFINE u == t \ {Pick(t)}
<1>a. /\ t = {} => Total(h, t) = 0
      /\ t # {} => Pick(t) \in t /\ Total(h, t) = Size[h[Pick(t)]] + Total(h, u)
  BY <1>2, TotalSteps DEF Sized
<1>3. t # {} /\ Pick(t) \in t /\ Total(h, t) = Size[h[Pick(t)]] + Total(h, u)
  <2> HIDE DEF u
  <2> QED BY <1>a
<1>4. u \in SUBSET t /\ u # t
  BY <1>3
<1>5. Total(h, u) \in Nat
  BY <1>1, <1>4
<1> HIDE DEF u
<1> QED BY <1>2, <1>3, <1>5 DEF Sized

\* Any element can be taken out first.
LEMMA TotalWithout ==
    ASSUME NEW h, NEW S, Sized(h, S), NEW y \in S
    PROVE  Total(h, S) = Size[h[y]] + Total(h, S \ {y})
<1> DEFINE T == {t \in SUBSET S : \E z \in t : Total(h, t) # Size[h[z]] + Total(h, t \ {z})}
<1> SUFFICES ASSUME T # {} PROVE FALSE
  OBVIOUS
<1>1. PICK t \in T : \A u \in SUBSET t : u # t => u \notin T
  <2>1. T \in SUBSET SUBSET S /\ IsFiniteSet(S)
    BY DEF Sized
  <2> HIDE DEF T
  <2> QED BY <2>1, Smallest
<1>2. Sized(h, t)
  BY SizedSubset
<1>3. PICK z \in t : Total(h, t) # Size[h[z]] + Total(h, t \ {z})
  OBVIOUS
<1> DEFINE x == Pick(t)
           w == t \ {x, z}
<1>4. x \in t /\ Total(h, t) = Size[h[x]] + Total(h, t \ {x})
  BY <1>2, <1>3, TotalSteps DEF Sized
<1>5. x # z
  BY <1>3, <1>4
<1>6. Total(h, t \ {x}) = Size[h[z]] + Total(h, w)
  <2>1. t \ {x} \in SUBSET t /\ t \ {x} # t /\ z \in t \ {x} /\ (t \ {x}) \ {z} = w
    BY <1>4, <1>5
  <2> HIDE DEF x, w
  <2> QED BY <1>1, <2>1
<1>7. Total(h, t \ {z}) = Size[h[x]] + Total(h, w)
  <2>1. t \ {z} \in SUBSET t /\ t \ {z} # t /\ x \in t \ {z} /\ (t \ {z}) \ {x} = w
    BY <1>4, <1>5
  <2> HIDE DEF x, w
  <2> QED BY <1>1, <2>1
<1>8. Size[h[x]] \in Nat /\ Size[h[z]] \in Nat /\ Total(h, w) \in Nat
  <2>1. Total(h, w) \in Nat
    BY <1>2, SizedSubset, TotalType
  <2> QED BY <1>2, <1>4, <2>1 DEF Sized
<1> HIDE DEF x, w, T
<1> QED BY <1>3, <1>4, <1>6, <1>7, <1>8

\* The sum is over what the buffers hold.
LEMMA TotalSame ==
    ASSUME NEW h, NEW g, NEW S, Sized(h, S), \A b \in S : g[b] = h[b]
    PROVE  Total(g, S) = Total(h, S)
<1> DEFINE T == {t \in SUBSET S : Total(g, t) # Total(h, t)}
<1> SUFFICES ASSUME T # {} PROVE FALSE
  OBVIOUS
<1>1. PICK t \in T : \A u \in SUBSET t : u # t => u \notin T
  <2>1. T \in SUBSET SUBSET S /\ IsFiniteSet(S)
    BY DEF Sized
  <2> HIDE DEF T
  <2> QED BY <2>1, Smallest
<1>2. IsFiniteSet(t)
  BY FS_Subset DEF Sized
<1>3. /\ t = {} => Total(h, t) = 0 /\ Total(g, t) = 0
      /\ t # {} => /\ Pick(t) \in t
                  /\ Total(h, t) = Size[h[Pick(t)]] + Total(h, t \ {Pick(t)})
                  /\ Total(g, t) = Size[g[Pick(t)]] + Total(g, t \ {Pick(t)})
  BY <1>2, TotalSteps
<1> DEFINE u == t \ {Pick(t)}
<1>4. t # {} /\ u \in SUBSET t /\ u # t
  BY <1>3
<1>5. Total(h, u) = Total(g, u)
  BY <1>1, <1>4
<1> QED BY <1>3, <1>4, <1>5

LEMMA TotalSplit ==
    ASSUME NEW h, NEW S, Sized(h, S), NEW V \in SUBSET S
    PROVE  Total(h, S) = Total(h, V) + Total(h, S \ V)
<1> DEFINE T == {t \in SUBSET V : Total(h, S) # Total(h, t) + Total(h, S \ t)}
<1> SUFFICES ASSUME T # {} PROVE FALSE
  OBVIOUS
<1>0. IsFiniteSet(V)
  BY FS_Subset DEF Sized
<1>1. PICK t \in T : \A u \in SUBSET t : u # t => u \notin T
  <2>1. T \in SUBSET SUBSET V
    OBVIOUS
  <2> HIDE DEF T
  <2> QED BY <1>0, <2>1, Smallest
<1>2. Sized(h, t) /\ Sized(h, S \ t)
  BY SizedSubset
<1>3. Total(h, t) \in Nat /\ Total(h, S \ t) \in Nat /\ Total(h, S) \in Nat
  BY <1>2, TotalType
<1>4. CASE t = {}
  <2>1. S \ t = S /\ Total(h, t) = 0
    BY <1>2, <1>4, TotalSteps DEF Sized
  <2> QED BY <1>3, <2>1
<1>5. CASE t # {}
  <2> DEFINE x == Pick(t)
             u == t \ {x}
  <2>1. x \in t /\ Total(h, t) = Size[h[x]] + Total(h, u)
    BY <1>2, <1>5, TotalSteps DEF Sized
  <2>2. u \in SUBSET t /\ u # t /\ x \in S \ u /\ (S \ u) \ {x} = S \ t
    BY <2>1
  <2>3. Total(h, S) = Total(h, u) + Total(h, S \ u)
    BY <1>1, <2>2
  <2>4. Total(h, S \ u) = Size[h[x]] + Total(h, S \ t)
    <3>1. Sized(h, S \ u)
      BY SizedSubset
    <3>2. Total(h, S \ u) = Size[h[x]] + Total(h, (S \ u) \ {x})
      <4> DEFINE Z == S \ u
      <4>1. Sized(h, Z) /\ x \in Z
        BY <2>2, <3>1
      <4> HIDE DEF x, Z
      <4>2. Total(h, Z) = Size[h[x]] + Total(h, Z \ {x})
        BY <4>1, TotalWithout
      <4> QED BY <4>2 DEF Z
    <3> QED BY <2>2, <3>2
  <2>5. Size[h[x]] \in Nat /\ Total(h, u) \in Nat
    BY <1>2, <2>1, SizedSubset, TotalType DEF Sized
  <2> HIDE DEF x, u, T
  <2> QED BY <1>3, <2>1, <2>3, <2>4, <2>5, <1>1 DEF T
<1> QED BY <1>4, <1>5

LEMMA TotalSubset ==
    ASSUME NEW h, NEW S, Sized(h, S), NEW V \in SUBSET S
    PROVE  Total(h, V) <= Total(h, S)
<1>1. Total(h, S) = Total(h, V) + Total(h, S \ V)
  BY TotalSplit
<1>2. Total(h, V) \in Nat /\ Total(h, S \ V) \in Nat
  BY SizedSubset, TotalType
<1> QED BY <1>1, <1>2

-----------------------------------------------------------------------------
(* What is booked.  mCacheStoredSize is at least the size of the buffers;   *)
(* a buffer without an entry is not there.                                  *)

Booked(s) ==
    /\ s.stored \in Int
    /\ DOMAIN s.heap \subseteq Buffers(s)
    /\ Total(s.heap, DOMAIN s.heap) <= s.stored

Covered(s) ==
    Valid("playlist", s) /\ DOMAIN s = {"cache", "heap", "stored"} /\ Booked(s)

LEMMA HeapSized ==
    ASSUME NEW s, Valid("playlist", s), NEW V \in SUBSET DOMAIN s.heap
    PROVE  Sized(s.heap, V)
<1>1. Sized(s.heap, DOMAIN s.heap)
  BY CacheAssumption DEF Valid, UrlsOf, Sized
<1> QED BY <1>1, SizedSubset

\* Buffers that stay keep their size.
LEMMA ShrunkTotal ==
    ASSUME NEW s, Valid("playlist", s), NEW h, DOMAIN h \subseteq DOMAIN s.heap,
           \A b \in DOMAIN h : h[b] = s.heap[b]
    PROVE  /\ Total(h, DOMAIN h) = Total(s.heap, DOMAIN h)
           /\ Total(h, DOMAIN h) <= Total(s.heap, DOMAIN s.heap)
<1>1. Sized(s.heap, DOMAIN h) /\ Sized(s.heap, DOMAIN s.heap)
  BY HeapSized
<1> DEFINE D == DOMAIN h
           S == DOMAIN s.heap
           g == s.heap
<1>2. Sized(g, D) /\ Sized(g, S) /\ D \in SUBSET S /\ \A b \in D : h[b] = g[b]
  BY <1>1
<1> HIDE DEF D, S, g
<1>3. Total(h, D) = Total(g, D)
  BY <1>2, TotalSame
<1>4. Total(g, D) <= Total(g, S)
  BY <1>2, TotalSubset
<1> QED BY <1>3, <1>4 DEF D, S, g

\* Erasing entries takes at least the buffers they free out of the sum.
LEMMA EraseTotal ==
    ASSUME NEW s, Valid("playlist", s), NEW us \in SUBSET DOMAIN s.cache
    PROVE  LET t == Erase(s, us)
           IN  /\ DOMAIN t.heap \subseteq Buffers(t)
               /\ SizeOf(s, Freed(s, us)) \in Nat
               /\ Total(t.heap, DOMAIN t.heap) \in Nat
               /\ Total(t.heap, DOMAIN t.heap) + SizeOf(s, Freed(s, us))
                      <= Total(s.heap, DOMAIN s.heap)
<1> DEFINE t == Erase(s, us)
           V == Freed(s, us)
           S == DOMAIN s.heap
<1>1. /\ DOMAIN t.heap = (S \cap Buffers(t)) \ V
      /\ \A b \in DOMAIN t.heap : t.heap[b] = s.heap[b]
  BY EraseFields DEF Valid
<1>2. V \in SUBSET S
  BY DEF Freed, Valid, Good
<1>3. Sized(s.heap, S) /\ Sized(s.heap, S \ V) /\ Sized(s.heap, V)
  BY <1>2, HeapSized
<1> HIDE DEF t, V, S
<1>4. Total(s.heap, S) = Total(s.heap, V) + Total(s.heap, S \ V)
  BY <1>2, <1>3, TotalSplit
<1>5. Total(t.heap, DOMAIN t.heap) = Total(s.heap, DOMAIN t.heap)
  BY <1>1, ShrunkTotal DEF S
<1>6. Total(s.heap, DOMAIN t.heap) <= Total(s.heap, S \ V)
  BY <1>1, <1>3, TotalSubset
<1>7. /\ Total(s.heap, V) \in Nat /\ Total(s.heap, S \ V) \in Nat
      /\ Total(s.heap, DOMAIN t.heap) \in Nat
  <2>1. DOMAIN t.heap \in SUBSET S
    BY <1>1
  <2>2. Sized(s.heap, DOMAIN t.heap)
    BY <1>3, <2>1, SizedSubset
  <2> QED BY <1>3, <2>2, TotalType
<1>8. SizeOf(s, V) = Total(s.heap, V)
  BY SizeOfIs
<1>9. /\ DOMAIN t.heap \subseteq Buffers(t)
      /\ SizeOf(s, V) \in Nat
      /\ Total(t.heap, DOMAIN t.heap) \in Nat
      /\ Total(t.heap, DOMAIN t.heap) + SizeOf(s, V) <= Total(s.heap, S)
  BY <1>1, <1>4, <1>5, <1>6, <1>7, <1>8
<1> QED BY <1>9 DEF t, V, S

LEMMA EmptyTotal == ASSUME NEW h, DOMAIN h = {} PROVE Total(h, DOMAIN h) = 0
  BY TotalSteps, FS_EmptySet

LEMMA ClearCovered ==
    ASSUME NEW s, Covered(s)
    PROVE  LET t == ClearPlaylistCache(s)
           IN  /\ Covered(t) /\ DOMAIN t.cache = {} /\ DOMAIN t.heap = {} /\ t.stored = 0
<1> DEFINE e == Erase(s, DOMAIN s.cache)
           t == ClearPlaylistCache(s)
<1>1. Valid("playlist", t) /\ DOMAIN t = DOMAIN s
  BY ClearPlaylistValid DEF Covered
<1>2. /\ DOMAIN e = DOMAIN s /\ DOMAIN e.cache = {}
      /\ DOMAIN e.heap \subseteq Buffers(e)
  BY EraseFields DEF Covered, Valid
<1>3. DOMAIN e.heap = {}
  BY <1>2 DEF Buffers
<1>4. t = [e EXCEPT !.stored = 0]
  BY DEF ClearPlaylistCache
<1> HIDE DEF e, t
<1>5. DOMAIN t.cache = {} /\ DOMAIN t.heap = {} /\ t.stored = 0
  BY <1>2, <1>3, <1>4 DEF Covered
<1>6. Total(t.heap, DOMAIN t.heap) = 0
  BY <1>5, EmptyTotal
<1> QED BY <1>1, <1>5, <1>6 DEF t, Covered, Booked

LEMMA AllocatedCovered ==
    ASSUME NEW s, Covered(s), NEW type, NEW newLen
    PROVE  LET t == Allocated(s, type, newLen)
           IN  /\ Covered(t)
               /\ Total(t.heap, DOMAIN t.heap)
                    + SizeOf(s, Freed(s, SlotVictims(s, type, newLen)))
                      <= Total(s.heap, DOMAIN s.heap)
<1> DEFINE us == SlotVictims(s, type, newLen)
           e  == Erase(s, us)
           x  == SizeOf(s, Freed(s, us))
           t  == Allocated(s, type, newLen)
<1>1. us \in SUBSET DOMAIN s.cache
  BY DEF SlotVictims
<1>2. Valid("playlist", t) /\ DOMAIN t = DOMAIN s
  BY AllocatedValid DEF Covered
<1>3. DOMAIN e = DOMAIN s
  BY EraseFields DEF Covered, Valid
<1>4. t = [e EXCEPT !.stored = @ - x]
  BY DEF Allocated
<1> HIDE DEF us
<1>5. /\ DOMAIN e.heap \subseteq Buffers(e) /\ x \in Nat
      /\ Total(e.heap, DOMAIN e.heap) \in Nat
      /\ Total(e.heap, DOMAIN e.heap) + x <= Total(s.heap, DOMAIN s.heap)
  BY <1>1, EraseTotal DEF Covered
<1>6. e.stored = s.stored
  BY DEF Erase, Covered
<1>7. Total(s.heap, DOMAIN s.heap) \in Nat
  BY HeapSized, TotalType DEF Covered
<1> HIDE DEF e, t, x
<1>8. t.heap = e.heap /\ t.cache = e.cache /\ t.stored = s.stored - x
  BY <1>3, <1>4, <1>6 DEF Covered
<1>9. Buffers(t) = Buffers(e)
  BY <1>8 DEF Buffers
<1>10. Booked(t)
  <2>1. Booked(s)
    BY DEF Covered
  <2> QED BY <1>5, <1>7, <1>8, <1>9, <2>1 DEF Booked
<1>11. Covered(t) /\ Total(t.heap, DOMAIN t.heap) + x <= Total(s.heap, DOMAIN s.heap)
  BY <1>2, <1>5, <1>8, <1>10 DEF Covered
<1> QED BY <1>11 DEF t, x, us

\* A download adds its own size to the sum, less what it overwrites.
LEMMA WithEntryCovered ==
    ASSUME NEW s, Covered(s), NEW u \in Urls
    PROVE  LET t == WithEntry(s, u)
           IN  /\ Covered(t)
               /\ Total(t.heap, DOMAIN t.heap) <= Total(s.heap, DOMAIN s.heap) + Size[u]
<1> DEFINE buf == NewBuffer(s)
           f == Fill(s, buf, u)
           t == Put(f, u, Entry(buf, u, FALSE))
           d == IF Effective[u] = u THEN t ELSE Put(t, Effective[u], Entry(buf, u, TRUE))
           w == WithEntry(s, u)
           S == DOMAIN s.heap
<1>0. Valid("playlist", s) /\ Booked(s) /\ {"cache", "heap"} \subseteq DOMAIN s
      /\ DOMAIN s = {"cache", "heap", "stored"} /\ u \in UrlsOf("playlist")
  BY DEF Covered, Valid, UrlsOf
<1>1. Valid("playlist", w) /\ DOMAIN w = DOMAIN s
  BY <1>0, WithEntryValid
<1>2. Valid("playlist", f)
  BY <1>0, FillValid
<1>3. buf \notin S
  BY <1>0, FreshBuffer
<1> HIDE DEF buf
<1>4. /\ DOMAIN f = DOMAIN s /\ DOMAIN f.heap = S \cup {buf} /\ f.heap[buf] = u
      /\ \A b \in S : f.heap[b] = s.heap[b]
  BY <1>0, <1>3, FillFields
<1>5. /\ DOMAIN t = DOMAIN f /\ DOMAIN t.heap = DOMAIN f.heap \cap Buffers(t)
      /\ \A b \in DOMAIN t.heap : t.heap[b] = f.heap[b]
  <2>1. {"cache", "heap"} \subseteq DOMAIN f
    BY <1>0, <1>4
  <2> HIDE DEF f
  <2>2. /\ DOMAIN t = DOMAIN f
        /\ t.heap = Restrict(f.heap, DOMAIN f.heap \cap Buffers(t))
    BY <2>1, PutFields
  <2> HIDE DEF t
  <2> QED BY <2>2, RestrictIs
<1>s. f.stored = s.stored /\ t.stored = f.stored
  <2>1. f.stored = s.stored
    BY <1>0 DEF Fill
  <2>2. t.stored = f.stored
    <3> HIDE DEF f
    <3> QED BY <1>0, <1>4 DEF Put
  <2> QED BY <2>1, <2>2
<1> HIDE DEF f, t
<1>6. /\ DOMAIN d = DOMAIN s /\ d.stored = s.stored
      /\ DOMAIN d.heap \subseteq DOMAIN f.heap /\ DOMAIN d.heap \subseteq Buffers(d)
      /\ \A b \in DOMAIN d.heap : d.heap[b] = f.heap[b]
  <2>1. CASE Effective[u] = u
    BY <1>4, <1>5, <1>s, <2>1
  <2>2. CASE Effective[u] # u
    <3>1. d = Put(t, Effective[u], Entry(buf, u, TRUE))
      BY <2>2
    <3> HIDE DEF d
    <3>2. {"cache", "heap"} \subseteq DOMAIN t
      BY <1>0, <1>4, <1>5
    <3>3. /\ DOMAIN d = DOMAIN t
          /\ d.heap = Restrict(t.heap, DOMAIN t.heap \cap Buffers(d))
      BY <3>1, <3>2, PutFields
    <3>4. /\ DOMAIN d.heap = DOMAIN t.heap \cap Buffers(d)
          /\ \A b \in DOMAIN d.heap : d.heap[b] = t.heap[b]
      BY <3>3, RestrictIs
    <3>5. d.stored = t.stored
      BY <1>0, <1>4, <1>5, <3>1 DEF Put
    <3> QED BY <1>4, <1>5, <1>s, <3>3, <3>4, <3>5
  <2> QED BY <2>1, <2>2
<1>7. w = [d EXCEPT !.stored = @ + Size[u]]
  BY DEF WithEntry, d, t, f, buf
<1> HIDE DEF d, w
<1>8. w.heap = d.heap /\ w.cache = d.cache /\ w.stored = s.stored + Size[u]
  BY <1>0, <1>6, <1>7
<1>9. Buffers(w) = Buffers(d)
  BY <1>8 DEF Buffers
<1>10. Total(d.heap, DOMAIN d.heap) <= Total(f.heap, DOMAIN f.heap)
  BY <1>2, <1>6, ShrunkTotal
<1>11. Total(f.heap, DOMAIN f.heap) = Size[u] + Total(s.heap, S)
  <2>1. Sized(f.heap, DOMAIN f.heap) /\ Sized(s.heap, S)
    BY <1>0, <1>2, HeapSized
  <2>2. buf \in DOMAIN f.heap /\ DOMAIN f.heap \ {buf} = S
    BY <1>3, <1>4
  <2>3. Total(f.heap, DOMAIN f.heap) = Size[f.heap[buf]] + Total(f.heap, DOMAIN f.heap \ {buf})
    <3> DEFINE D == DOMAIN f.heap
    <3>1. Sized(f.heap, D) /\ buf \in D
      BY <2>1, <2>2
    <3> HIDE DEF D
    <3>2. Total(f.heap, D) = Size[f.heap[buf]] + Total(f.heap, D \ {buf})
      BY <3>1, TotalWithout
    <3> QED BY <3>2 DEF D
  <2> HIDE DEF S
  <2>4. Total(f.heap, S) = Total(s.heap, S)
    BY <1>4, <2>1, TotalSame
  <2> QED BY <1>4, <2>2, <2>3, <2>4
<1>12. /\ Size[u] \in Nat /\ Total(s.heap, S) \in Nat
       /\ Total(d.heap, DOMAIN d.heap) \in Nat
  <2>1. Total(s.heap, S) \in Nat
    BY <1>0, HeapSized, TotalType
  <2>2. Total(w.heap, DOMAIN w.heap) \in Nat
    BY <1>1, HeapSized, TotalType
  <2> QED BY <1>8, <2>1, <2>2, CacheAssumption
<1>13. Total(w.heap, DOMAIN w.heap) <= Total(s.heap, S) + Size[u]
  BY <1>8, <1>10, <1>11, <1>12
<1>14. Booked(w)
  <2>1. s.stored \in Int /\ Total(s.heap, S) <= s.stored
    BY <1>0 DEF Booked
  <2>2. DOMAIN w.heap \subseteq Buffers(w)
    BY <1>6, <1>8, <1>9
  <2>3. w.stored \in Int
    BY <1>8, <1>12, <2>1
  <2>4. Total(w.heap, DOMAIN w.heap) <= w.stored
    BY <1>8, <1>12, <1>13, <2>1
  <2> QED BY <2>2, <2>3, <2>4 DEF Booked
<1>15. Covered(w)
  BY <1>0, <1>1, <1>14 DEF Covered
<1> QED BY <1>13, <1>15 DEF w, S

LEMMA StoredSizeIs ==
    ASSUME NEW s, Covered(s)
    PROVE  StoredSize(s) = Total(s.heap, DOMAIN s.heap) /\ StoredSize(s) \in Nat
<1>1. StoredSize(s) = Total(s.heap, DOMAIN s.heap)
  BY SizeOfIs DEF StoredSize
<1>2. Total(s.heap, DOMAIN s.heap) \in Nat
  BY HeapSized, TotalType DEF Covered
<1> QED BY <1>1, <1>2

\* An insertion that does not stay below the limit makes as much room as it takes.
LEMMA InsertedCovered ==
    ASSUME NEW s, Covered(s), NEW u \in Urls, mMaxPlaylistCacheSize \in {Unlimited} \cup Nat
    PROVE  LET t == Inserted(s, u)
           IN  /\ Covered(t)
               /\ \/ StoredSize(t) <= StoredSize(s)
                  \/ mMaxPlaylistCacheSize = Unlimited
                  \/ StoredSize(t) <= mMaxPlaylistCacheSize
<1> DEFINE type  == FileType[u]
           clean == IF type = "manifest" THEN ClearPlaylistCache(s) ELSE s
           full  == Full(clean, u)
           room  == IF full /\ DOMAIN clean.cache # {} THEN Allocated(clean, type, Size[u])
                    ELSE clean
           freed == SizeOf(clean, Freed(clean, SlotVictims(clean, type, Size[u])))
           w     == WithEntry(room, u)
           Sum(r) == Total(r.heap, DOMAIN r.heap)
<1>a. ASSUME NEW r, Covered(r) PROVE StoredSize(r) = Sum(r) /\ Sum(r) \in Nat
  BY <1>a, StoredSizeIs
<1>1. Covered(clean) /\ Sum(clean) <= Sum(s) /\ (clean = s \/ DOMAIN clean.cache = {})
  <2>1. CASE type = "manifest"
    <3>1. /\ Covered(ClearPlaylistCache(s)) /\ DOMAIN ClearPlaylistCache(s).cache = {}
          /\ DOMAIN ClearPlaylistCache(s).heap = {}
      BY ClearCovered
    <3>2. clean = ClearPlaylistCache(s)
      BY <2>1
    <3> HIDE DEF clean
    <3>3. Sum(clean) = 0
      BY <3>1, <3>2, EmptyTotal
    <3> QED BY <3>1, <3>2, <3>3, <1>a
  <2>2. CASE type # "manifest"
    <3>1. clean = s
      BY <2>2
    <3> HIDE DEF clean
    <3> QED BY <3>1, <1>a
  <2> QED BY <2>1, <2>2
<1>m. type = "manifest" => DOMAIN clean.cache = {}
  BY ClearCovered
<1>2. \/ Inserted(s, u) = s \/ Inserted(s, u) = clean \/ Inserted(s, u) = room
      \/ /\ Inserted(s, u) = w
         /\ ~TooLarge(u) /\ (full => SlotReady(clean, type, Size[u]))
  BY DEF Inserted
<1>f. full <=> mMaxPlaylistCacheSize # Unlimited
               /\ clean.stored + Size[u] > mMaxPlaylistCacheSize
  BY DEF Full
<1> HIDE DEF clean, full
<1>3. Covered(room) /\ Sum(room) <= Sum(clean)
      /\ (full /\ DOMAIN clean.cache # {} => Sum(room) + freed <= Sum(clean))
      /\ freed \in Nat
  <2>1. LET t == Allocated(clean, type, Size[u])
        IN  Covered(t) /\ Sum(t) + freed <= Sum(clean)
    BY <1>1, AllocatedCovered
  <2>2. freed \in Nat
    <3>1. SlotVictims(clean, type, Size[u]) \in SUBSET DOMAIN clean.cache
      BY DEF SlotVictims
    <3> QED BY <1>1, <3>1, EraseTotal DEF Covered
  <2>3. CASE full /\ DOMAIN clean.cache # {}
    <3>1. room = Allocated(clean, type, Size[u])
      BY <2>3
    <3> HIDE DEF room, freed
    <3>2. Covered(room) /\ Sum(room) + freed <= Sum(clean)
      BY <2>1, <3>1
    <3> HIDE DEF Sum
    <3>3. Sum(room) \in Nat /\ Sum(clean) \in Nat
      BY <1>1, <3>2, <1>a
    <3> QED BY <2>2, <3>2, <3>3
  <2>4. CASE ~(full /\ DOMAIN clean.cache # {})
    <3>1. room = clean
      BY <2>4
    <3> HIDE DEF room, freed, Sum
    <3> QED BY <1>1, <1>a, <2>2, <2>4, <3>1
  <2> QED BY <2>3, <2>4
<1>r. ~full => room = clean
  OBVIOUS
<1>e. DOMAIN clean.cache = {} => Sum(clean) = 0 /\ Sum(room) = 0
  <2> SUFFICES ASSUME DOMAIN clean.cache = {} PROVE Sum(clean) = 0 /\ Sum(room) = 0
    OBVIOUS
  <2>1. DOMAIN clean.heap = {}
    BY <1>1 DEF Covered, Booked, Buffers
  <2>2. Sum(clean) = 0
    BY <2>1, EmptyTotal
  <2> QED BY <2>2
<1> HIDE DEF room
<1>4. Covered(w) /\ Sum(w) <= Sum(room) + Size[u]
  BY <1>3, WithEntryCovered
<1>5. Size[u] \in Nat
  BY CacheAssumption
<1> HIDE DEF w, Sum
<1>6. /\ Sum(s) \in Nat /\ Sum(clean) \in Nat /\ Sum(room) \in Nat /\ Sum(w) \in Nat
      /\ StoredSize(s) = Sum(s) /\ StoredSize(clean) = Sum(clean)
      /\ StoredSize(room) = Sum(room) /\ StoredSize(w) = Sum(w)
  BY <1>a, <1>1, <1>3, <1>4
<1>7. CASE Inserted(s, u) \in {s, clean, room}
  BY <1>1, <1>2, <1>3, <1>6, <1>7
<1>8. CASE Inserted(s, u) = w /\ mMaxPlaylistCacheSize = Unlimited
  BY <1>4, <1>8
<1>9. CASE /\ Inserted(s, u) = w /\ mMaxPlaylistCacheSize # Unlimited
           /\ ~TooLarge(u) /\ (full => SlotReady(clean, type, Size[u]))
  <2>1. mMaxPlaylistCacheSize \in Nat /\ Size[u] < mMaxPlaylistCacheSize
    BY <1>5, <1>9 DEF TooLarge
  <2>2. CASE ~full
    <3>1. clean.stored \in Int /\ Sum(clean) <= clean.stored
      BY <1>1 DEF Covered, Booked, Sum
    <3>2. ~(clean.stored + Size[u] > mMaxPlaylistCacheSize)
      BY <1>f, <1>9, <2>2
    <3>3. Sum(w) <= mMaxPlaylistCacheSize
      BY <1>4, <1>5, <1>6, <1>r, <2>1, <2>2, <3>1, <3>2
    <3> QED BY <1>4, <1>6, <1>9, <3>3
  <2>3. CASE DOMAIN clean.cache = {}
    <3>1. Sum(w) <= mMaxPlaylistCacheSize
      BY <1>4, <1>5, <1>6, <1>e, <2>1, <2>3
    <3> QED BY <1>4, <1>6, <1>9, <3>1
  <2>4. CASE full /\ DOMAIN clean.cache # {}
    <3>1. freed >= Size[u]
      BY <1>9, <2>4 DEF SlotReady
    <3>2. Sum(w) <= Sum(s)
      BY <1>1, <1>3, <1>4, <1>5, <1>6, <2>4, <3>1
    <3> QED BY <1>4, <1>6, <1>9, <3>2
  <2> QED BY <2>2, <2>3, <2>4
<1> QED BY <1>2, <1>7, <1>8, <1>9

LEMMA RemovedCovered ==
    ASSUME NEW s, Covered(s), NEW u \in DOMAIN s.cache, s.cache[u].mEffectiveUrl = u
    PROVE  LET t == Erase(s, {u}) IN Covered(t) /\ StoredSize(t) <= StoredSize(s)
<1> DEFINE t == Erase(s, {u})
           x == SizeOf(s, Freed(s, {u}))
<1>1. Valid("playlist", t) /\ DOMAIN t = DOMAIN s
  BY RemovedValid DEF Covered
<1>2. /\ DOMAIN t.heap \subseteq Buffers(t) /\ x \in Nat
      /\ Total(t.heap, DOMAIN t.heap) \in Nat
      /\ Total(t.heap, DOMAIN t.heap) + x <= Total(s.heap, DOMAIN s.heap)
  BY EraseTotal DEF Covered
<1>3. t.stored = s.stored
  BY DEF Erase, Covered
<1>4. s.stored \in Int /\ Total(s.heap, DOMAIN s.heap) <= s.stored
  BY DEF Covered, Booked
<1>5. StoredSize(s) = Total(s.heap, DOMAIN s.heap) /\ StoredSize(s) \in Nat
  BY StoredSizeIs
<1> HIDE DEF t, x
<1>6. Covered(t)
  BY <1>1, <1>2, <1>3, <1>4, <1>5 DEF Covered, Booked
<1>7. StoredSize(t) <= StoredSize(s)
  BY <1>2, <1>5, <1>6, StoredSizeIs
<1> QED BY <1>6, <1>7 DEF t

-----------------------------------------------------------------------------
(* The cache of init fragments and its queues.                              *)

LEMMA WithInitEntryValid ==
    ASSUME NEW s, Valid("init", s), NEW u \in InitUrls
    PROVE  /\ Valid("init", WithInitEntry(s, u))
           /\ DOMAIN WithInitEntry(s, u) = DOMAIN s
           /\ DOMAIN s.cache \cup {u} \subseteq DOMAIN WithInitEntry(s, u).cache
<1> DEFINE buf == NewBuffer(s)
           f == Fill(s, buf, u)
           e == Entry(buf, u, Effective[u] # u)
           t == Put(f, u, e)
           d == Put(t, Effective[u], Entry(buf, u, FALSE))
<1>1. u \in UrlsOf("init") /\ Effective[u] \in UrlsOf("init")
  BY RedirectType DEF UrlsOf
<1>2. buf \in DOMAIN f.heap /\ f.heap[buf] = u
  BY FillFields DEF Valid
<1>3. Good("init", u, e, Fill(s, NewBuffer(s), u).heap) /\ e.mCachedBuffer = NewBuffer(s)
  <2> HIDE DEF f, buf
  <2>1. Good("init", u, e, f.heap) /\ e.mCachedBuffer = buf
    BY <1>2 DEF Good, Entry, Marked
  <2> QED BY <2>1 DEF f, buf
<1> HIDE DEF e
<1>4. LET p == Put(Fill(s, NewBuffer(s), u), u, e)
      IN  /\ Valid("init", p) /\ DOMAIN p = DOMAIN s
          /\ DOMAIN p.cache = DOMAIN s.cache \cup {u}
          /\ NewBuffer(s) \in DOMAIN p.heap /\ p.heap[NewBuffer(s)] = u
  BY <1>1, <1>3, NewEntry
<1>5. /\ Valid("init", t) /\ DOMAIN t = DOMAIN s
      /\ DOMAIN t.cache = DOMAIN s.cache \cup {u}
      /\ buf \in DOMAIN t.heap /\ t.heap[buf] = u
  BY <1>4
<1> HIDE DEF t, f, buf
<1>6. CASE Effective[u] = u
  <2>1. WithInitEntry(s, u) = t
    BY <1>6 DEF WithInitEntry, t, f, buf, e
  <2> QED BY <1>5, <2>1
<1>7. CASE Effective[u] # u
  <2>1. WithInitEntry(s, u) = d
    BY <1>7 DEF WithInitEntry, t, f, buf, e
  <2>2. Good("init", Effective[u], Entry(buf, u, FALSE), t.heap)
    BY <1>5, <1>7 DEF Good, Entry, Marked
  <2>3. Valid("init", d)
    BY <1>1, <1>5, <2>2, PutValid
  <2>4. {"cache", "heap"} \subseteq DOMAIN t
    BY <1>5 DEF Valid
  <2>5. DOMAIN d = DOMAIN t /\ d.cache = With(t.cache, Effective[u], Entry(buf, u, FALSE))
    BY <2>4, PutFields
  <2> HIDE DEF d
  <2>6. DOMAIN t.cache \subseteq DOMAIN d.cache
    BY <2>5 DEF With
  <2> QED BY <1>5, <2>1, <2>3, <2>5, <2>6
<1> QED BY <1>6, <1>7

\* An evicted url is the one its content came from; its second entry goes with it,
\* and that is of no url that is asked for.
LEMMA EvictedValid ==
    ASSUME NoTargetRequested, NEW s, Valid("init", s),
           NEW q, Head(q) \in Requested, Head(q) \in DOMAIN s.cache
    PROVE  LET r == RemoveInitFragCacheEntry(q, s)
           IN  /\ r.queue = Tail(q)
               /\ Valid("init", r.inits)
               /\ DOMAIN r.inits = DOMAIN s
               /\ (DOMAIN s.cache \cap Requested) \ {Head(q)} \subseteq DOMAIN r.inits.cache
<1> DEFINE h    == Head(q)
           e    == s.cache[h]
           gone == {h} \cup (IF e.mDuplicateEntry THEN {e.mEffectiveUrl} ELSE {})
           t    == [s EXCEPT !.cache = Restrict(@, DOMAIN @ \ gone),
                             !.heap = Restrict(@, DOMAIN @ \ {e.mCachedBuffer})]
<1>1. RemoveInitFragCacheEntry(q, s) = [queue |-> Tail(q), inits |-> t]
  BY DEF RemoveInitFragCacheEntry
<1>2. /\ h \in Requested /\ h \in DOMAIN s.cache /\ h \in InitUrls
      /\ DOMAIN s.cache \subseteq InitUrls
  BY CacheAssumption DEF Valid, UrlsOf
<1> HIDE DEF h
<1>3. Good("init", h, e, s.heap) /\ s.heap[e.mCachedBuffer] \in InitUrls
  BY <1>2 DEF Valid, Good, UrlsOf
<1>4. s.heap[e.mCachedBuffer] = h
  BY <1>2, <1>3 DEF Good, NoTargetRequested, NotRedirectedTo
<1>5. gone = {h, Effective[h]}
  BY <1>3, <1>4 DEF Good, Marked
<1> HIDE DEF e, gone
<1>6. /\ DOMAIN t = DOMAIN s
      /\ t.cache = Restrict(s.cache, DOMAIN s.cache \ gone)
      /\ t.heap = Restrict(s.heap, DOMAIN s.heap \ {e.mCachedBuffer})
  BY DEF Valid
<1> HIDE DEF t
<1>7. /\ DOMAIN t.cache = DOMAIN s.cache \ gone
      /\ \A v \in DOMAIN t.cache : t.cache[v] = s.cache[v]
      /\ DOMAIN t.heap = DOMAIN s.heap \ {e.mCachedBuffer}
      /\ \A b \in DOMAIN t.heap : t.heap[b] = s.heap[b]
  BY <1>6, RestrictIs
<1>8. ASSUME NEW v \in DOMAIN t.cache PROVE Good("init", v, t.cache[v], t.heap)
  <2>1. Good("init", v, s.cache[v], s.heap) /\ v \notin gone /\ t.cache[v] = s.cache[v]
    BY <1>7 DEF Valid
  <2>2. s.cache[v].mCachedBuffer # e.mCachedBuffer
    BY <1>4, <1>5, <2>1 DEF Good
  <2> QED BY <1>7, <2>1, <2>2 DEF Good
<1>9. IsFiniteSet(DOMAIN t.heap)
  BY <1>7, FS_Subset DEF Valid
<1>10. Valid("init", t)
  BY <1>6, <1>7, <1>8, <1>9 DEF Valid
<1>11. (DOMAIN s.cache \cap Requested) \ {h} \subseteq DOMAIN t.cache
  BY <1>2, <1>5, <1>7 DEF NoTargetRequested, NotRedirectedTo
<1>12. RemoveInitFragCacheEntry(q, s).queue = Tail(q)
       /\ RemoveInitFragCacheEntry(q, s).inits = t
  BY <1>1
<1> QED BY <1>6, <1>10, <1>11, <1>12 DEF h

\* The queue of a type holds requested urls of the type, each once and with an entry.
QueueInv(queues, s) ==
    /\ queues \in [Types(InitUrls) -> Seq(Requested)]
    /\ \A type \in Types(InitUrls) :
          LET q == queues[type]
          IN  /\ \A i, j \in 1 .. Len(q) : q[i] = q[j] => i = j
              /\ \A i \in 1 .. Len(q) : q[i] \in DOMAIN s.cache /\ FileType[q[i]] = type

LEMMA EmptyQueuesInv == ASSUME NEW s PROVE QueueInv(EmptyQueues, s)
<1>1. EmptyQueues \in [Types(InitUrls) -> Seq(Requested)]
  BY DEF EmptyQueues
<1>2. ASSUME NEW type \in Types(InitUrls) PROVE Len(EmptyQueues[type]) = 0
  BY DEF EmptyQueues
<1>3. 1 .. 0 = {}
  OBVIOUS
<1> QED BY <1>1, <1>2, <1>3 DEF QueueInv

LEMMA InsertInit ==
    ASSUME NoTargetRequested, Valid("init", inits), DOMAIN inits = {"cache", "heap"},
           MaxInitCacheSlot \in Nat \ {0},
           QueueInv(umCacheTrackQ, inits), NEW u \in Requested, InsertToInitFragCache(u)
    PROVE  /\ Valid("init", inits')
           /\ DOMAIN inits' = {"cache", "heap"}
           /\ QueueInv(umCacheTrackQ', inits')
           /\ \A type \in Types(InitUrls) :
                 \/ Len(umCacheTrackQ'[type]) <= Len(umCacheTrackQ[type])
                 \/ Len(umCacheTrackQ'[type]) <= MaxInitCacheSlot
<1> DEFINE type  == FileType[u]
           old   == umCacheTrackQ[type]
           queue == Append(old, u)
           r     == IF Len(queue) > MaxInitCacheSlot THEN RemoveInitFragCacheEntry(queue, inits)
                    ELSE [queue |-> queue, inits |-> inits]
<1>1. /\ u \notin DOMAIN inits.cache
      /\ umCacheTrackQ' = [umCacheTrackQ EXCEPT ![type] = r.queue]
      /\ inits' = WithInitEntry(r.inits, u)
  BY DEF InsertToInitFragCache
<1>2. u \in InitUrls /\ type \in Types(InitUrls) /\ MaxInitCacheSlot \in Nat \ {0}
  BY CacheAssumption DEF Types
<1> HIDE DEF type
<1>3. /\ old \in Seq(Requested) /\ Len(old) \in Nat
      /\ \A i, j \in 1 .. Len(old) : old[i] = old[j] => i = j
      /\ \A i \in 1 .. Len(old) :
            /\ old[i] \in Requested /\ old[i] \in DOMAIN inits.cache
            /\ FileType[old[i]] = type
  BY <1>2 DEF QueueInv
<1> HIDE DEF old
<1>4. /\ queue \in Seq(Requested) /\ Len(queue) = Len(old) + 1
      /\ queue[Len(old) + 1] = u
      /\ \A i \in 1 .. Len(old) : queue[i] = old[i]
  BY <1>3
<1>5. /\ Valid("init", r.inits) /\ DOMAIN r.inits = DOMAIN inits
      /\ r.queue \in Seq(Requested)
      /\ \A i, j \in 1 .. Len(r.queue) : r.queue[i] = r.queue[j] => i = j
      /\ \A i \in 1 .. Len(r.queue) : /\ r.queue[i] \in DOMAIN r.inits.cache \cup {u}
                                      /\ FileType[r.queue[i]] = type
      /\ \A t \in Types(InitUrls) \ {type} : \A i \in 1 .. Len(umCacheTrackQ[t]) :
            umCacheTrackQ[t][i] \in DOMAIN r.inits.cache
      /\ Len(r.queue) <= Len(old) \/ Len(r.queue) <= MaxInitCacheSlot
  <2> HIDE DEF queue
  <2>1. CASE Len(queue) > MaxInitCacheSlot
    <3>1. Len(old) >= 1 /\ Head(queue) = old[1] /\ Head(queue) \in Requested
          /\ Head(queue) \in DOMAIN inits.cache /\ FileType[Head(queue)] = type
      BY <1>2, <1>3, <1>4, <2>1
    <3>2. LET x == RemoveInitFragCacheEntry(queue, inits)
          IN  /\ x.queue = Tail(queue) /\ Valid("init", x.inits)
              /\ DOMAIN x.inits = DOMAIN inits
              /\ (DOMAIN inits.cache \cap Requested) \ {Head(queue)} \subseteq DOMAIN x.inits.cache
      BY <3>1, EvictedValid
    <3>3. /\ r.queue = Tail(queue) /\ Valid("init", r.inits) /\ DOMAIN r.inits = DOMAIN inits
          /\ (DOMAIN inits.cache \cap Requested) \ {Head(queue)} \subseteq DOMAIN r.inits.cache
      BY <2>1, <3>2
    <3> HIDE DEF r
    <3>4. /\ r.queue \in Seq(Requested) /\ Len(r.queue) = Len(old)
          /\ \A i \in 1 .. Len(r.queue) : r.queue[i] = queue[i + 1]
      BY <1>3, <1>4, <3>1, <3>3
    <3>5. ASSUME NEW i \in 1 .. Len(old), NEW j \in 1 .. Len(old), r.queue[i] = r.queue[j]
          PROVE  i = j
      <4>1. queue[i + 1] = queue[j + 1]
        BY <3>4, <3>5
      <4>2. \A k \in 1 .. Len(old) : old[k] # u
        BY <1>1, <1>3
      <4>3. CASE i # Len(old) /\ j # Len(old)
        <5>1. i + 1 \in 1 .. Len(old) /\ j + 1 \in 1 .. Len(old)
          BY <1>3, <4>3
        <5>2. old[i + 1] = old[j + 1]
          BY <1>4, <4>1, <5>1
        <5> QED BY <1>3, <5>1, <5>2
      <4>4. CASE i = Len(old) /\ j # Len(old)
        BY <1>3, <1>4, <4>1, <4>2, <4>4
      <4>5. CASE i # Len(old) /\ j = Len(old)
        BY <1>3, <1>4, <4>1, <4>2, <4>5
      <4> QED BY <4>3, <4>4, <4>5
    <3>6. ASSUME NEW i \in 1 .. Len(old)
          PROVE  r.queue[i] \in DOMAIN r.inits.cache \cup {u} /\ FileType[r.queue[i]] = type
      <4>1. CASE i = Len(old)
        BY <1>4, <3>4, <4>1 DEF type
      <4>2. CASE i # Len(old)
        <5>1. i + 1 \in 1 .. Len(old) /\ r.queue[i] = old[i + 1] /\ old[i + 1] # old[1]
          BY <1>3, <1>4, <3>1, <3>4, <4>2
        <5> QED BY <1>3, <3>1, <3>3, <5>1
      <4> QED BY <4>1, <4>2
    <3>7. ASSUME NEW t \in Types(InitUrls) \ {type}, NEW i \in 1 .. Len(umCacheTrackQ[t])
          PROVE  umCacheTrackQ[t][i] \in DOMAIN r.inits.cache
      <4>1. /\ umCacheTrackQ[t][i] \in Requested /\ umCacheTrackQ[t][i] \in DOMAIN inits.cache
            /\ FileType[umCacheTrackQ[t][i]] = t
        BY DEF QueueInv
      <4> QED BY <3>1, <3>3, <4>1
    <3>8. \A i, j \in 1 .. Len(r.queue) : r.queue[i] = r.queue[j] => i = j
      BY <3>4, <3>5, Zenon
    <3>9. \A i \in 1 .. Len(r.queue) : /\ r.queue[i] \in DOMAIN r.inits.cache \cup {u}
                                       /\ FileType[r.queue[i]] = type
      BY <3>4, <3>6, Zenon
    <3>10. Len(r.queue) <= Len(old)
      BY <1>3, <3>4
    <3> QED BY <3>3, <3>4, <3>7, <3>8, <3>9, <3>10, Zenon
  <2>2. CASE ~(Len(queue) > MaxInitCacheSlot)
    <3>1. r.queue = queue /\ r.inits = inits
      BY <2>2
    <3> HIDE DEF r
    <3>2. \A i, j \in 1 .. Len(queue) : queue[i] = queue[j] => i = j
      BY <1>1, <1>3, <1>4
    <3>3. \A i \in 1 .. Len(queue) : queue[i] \in DOMAIN inits.cache \cup {u}
                                     /\ FileType[queue[i]] = type
      BY <1>3, <1>4 DEF type
    <3>4. \A t \in Types(InitUrls) \ {type} : \A i \in 1 .. Len(umCacheTrackQ[t]) :
              umCacheTrackQ[t][i] \in DOMAIN inits.cache
      BY DEF QueueInv
    <3>5. Len(queue) <= MaxInitCacheSlot
      BY <1>2, <1>3, <1>4, <2>2
    <3> QED BY <1>4, <3>1, <3>2, <3>3, <3>4, <3>5
  <2> QED BY <2>1, <2>2
<1> HIDE DEF r
<1>6. /\ Valid("init", inits') /\ DOMAIN inits' = DOMAIN r.inits
      /\ DOMAIN r.inits.cache \cup {u} \subseteq DOMAIN inits'.cache
  <2>1. /\ Valid("init", WithInitEntry(r.inits, u))
        /\ DOMAIN WithInitEntry(r.inits, u) = DOMAIN r.inits
        /\ DOMAIN r.inits.cache \cup {u} \subseteq DOMAIN WithInitEntry(r.inits, u).cache
    BY <1>2, <1>5, WithInitEntryValid
  <2> QED BY <1>1, <2>1
<1>7. QueueInv(umCacheTrackQ', inits')
  <2>1. umCacheTrackQ \in [Types(InitUrls) -> Seq(Requested)]
    BY DEF QueueInv
  <2>2. umCacheTrackQ' \in [Types(InitUrls) -> Seq(Requested)]
    BY <1>1, <1>5, <2>1
  <2>3. ASSUME NEW t \in Types(InitUrls)
        PROVE  LET q == umCacheTrackQ'[t]
               IN  /\ \A i, j \in 1 .. Len(q) : q[i] = q[j] => i = j
                   /\ \A i \in 1 .. Len(q) : q[i] \in DOMAIN inits'.cache
                                             /\ FileType[q[i]] = t
    <3>1. CASE t = type
      <4>1. umCacheTrackQ'[t] = r.queue
        BY <1>1, <2>1, <3>1
      <4> QED BY <1>5, <1>6, <3>1, <4>1
    <3>2. CASE t # type
      <4>1. umCacheTrackQ'[t] = umCacheTrackQ[t]
        BY <1>1, <2>1, <3>2
      <4>2. \A i \in 1 .. Len(umCacheTrackQ[t]) : umCacheTrackQ[t][i] \in DOMAIN inits'.cache
        BY <1>5, <1>6, <3>2
      <4> QED BY <4>1, <4>2 DEF QueueInv
    <3> QED BY <3>1, <3>2
  <2> QED BY <2>2, <2>3 DEF QueueInv
<1>8. ASSUME NEW t \in Types(InitUrls)
      PROVE  \/ Len(umCacheTrackQ'[t]) <= Len(umCacheTrackQ[t])
             \/ Len(umCacheTrackQ'[t]) <= MaxInitCacheSlot
  <2>1. umCacheTrackQ \in [Types(InitUrls) -> Seq(Requested)]
    BY DEF QueueInv
  <2>2. CASE t = type
    BY <1>1, <1>5, <2>1, <2>2 DEF old
  <2>3. CASE t # type
    <3>1. umCacheTrackQ'[t] = umCacheTrackQ[t] /\ Len(umCacheTrackQ[t]) \in Nat
      BY <1>1, <2>1, <2>3
    <3> QED BY <3>1
  <2> QED BY <2>2, <2>3
<1> QED BY <1>5, <1>6, <1>7, <1>8

-----------------------------------------------------------------------------
(* The invariant, and what follows from it.                                 *)

\* Of the playlists nothing has to be assumed.
PlaylistInv ==
    /\ Covered(playlists)
    /\ mMaxPlaylistCacheSize \in {Unlimited, DefaultSize} \cup Sizes

LEMMA LimitType == PlaylistInv => mMaxPlaylistCacheSize \in {Unlimited} \cup Nat
  BY CacheAssumption DEF PlaylistInv

LEMMA InitPlaylistInv == Init => PlaylistInv
<1> SUFFICES ASSUME Init PROVE PlaylistInv
  OBVIOUS
<1>1. DOMAIN Nothing = {} /\ IsFiniteSet({})
  BY FS_EmptySet DEF Nothing
<1>2. DOMAIN playlists.heap = {} /\ playlists.stored = 0
  BY <1>1 DEF Init
<1>3. Total(playlists.heap, DOMAIN playlists.heap) = 0
  BY <1>2, EmptyTotal
<1>4. Valid("playlist", playlists) /\ DOMAIN playlists = {"cache", "heap", "stored"}
  BY <1>1 DEF Init, Valid
<1> QED BY <1>2, <1>3, <1>4 DEF Covered, Booked, Init, PlaylistInv

LEMMA NextPlaylistInv == PlaylistInv /\ [Next]_vars => PlaylistInv'
<1> SUFFICES ASSUME PlaylistInv, [Next]_vars PROVE PlaylistInv'
  OBVIOUS
<1> USE DEF caches, limits
<1>1. ASSUME NEW u \in Urls, NEW live \in BOOLEAN, InsertToPlaylistCache(u, live)
      PROVE  PlaylistInv'
  <2>1. Covered(playlists')
    BY <1>1, LimitType, InsertedCovered DEF PlaylistInv, InsertToPlaylistCache
  <2> QED BY <1>1, <2>1 DEF PlaylistInv, InsertToPlaylistCache
<1>2. ASSUME NEW u \in Urls, RemoveFromPlaylistCache(u) PROVE PlaylistInv'
  <2>1. Covered(playlists')
    BY <1>2, RemovedCovered DEF PlaylistInv, RemoveFromPlaylistCache
  <2> QED BY <1>2, <2>1 DEF PlaylistInv, RemoveFromPlaylistCache
<1>3. CASE JoinCleaner \/ CleanerFlushed
  BY <1>3, ClearCovered DEF JoinCleaner, CleanerFlushed, PlaylistInv
<1>4. CASE SetLimits
  BY <1>4 DEF SetLimits, PlaylistInv
<1>5. CASE \/ UNCHANGED vars \/ \E u \in Requested : InsertToInitFragCache(u)
           \/ StartPlaylistCache \/ StopPlaylistCache \/ Race \/ DeleteHandler \/ EndCleaner
           \/ CleanerLoop \/ CleanerWoken \/ CleanerTimeout \/ CleanerFlush
  <2>1. playlists' = playlists /\ mMaxPlaylistCacheSize' = mMaxPlaylistCacheSize
    BY <1>5 DEF vars, InsertToInitFragCache, StartPlaylistCache, StopPlaylistCache,
         SetActive, SignalActive, Race, DeleteHandler, EndCleaner, CleanerLoop,
         CleanerWoken, CleanerTimeout, CleanerFlush, CleanerGoes
  <2> QED BY <2>1 DEF PlaylistInv
<1> QED BY <1>1, <1>2, <1>3, <1>4, <1>5 DEF Next, CleanerStep

LEMMA PlaylistInvariant == Spec => []PlaylistInv
  BY InitPlaylistInv, NextPlaylistInv, PTL DEF Spec

IInv ==
    /\ PlaylistInv
    /\ Valid("init", inits) /\ DOMAIN inits = {"cache", "heap"}
    /\ QueueInv(umCacheTrackQ, inits)
    /\ {mInitialized, mCacheActive, mAsyncCacheCleanUpThread} \subseteq BOOLEAN
    /\ MaxInitCacheSlot \in {DefaultSlots} \cup Slots
    /\ player \in {"stopped", "starting", "tuning", "tuned", "stopping", "deleting", "joining",
                   "deleted", "race"}
    /\ cleaner \in {"none", "start", "wait", "woken", "timed", "timed out", "awake",
                    "flush", "exit"}

LEMMA InitIInv == Init => IInv
<1> SUFFICES ASSUME Init PROVE IInv
  OBVIOUS
<1>1. IsFiniteSet({})
  BY FS_EmptySet
<1>2. DOMAIN Nothing = {}
  BY DEF Nothing
<1>3. Valid("init", inits) /\ DOMAIN inits = {"cache", "heap"}
  BY <1>1, <1>2 DEF Init, Valid
<1>4. QueueInv(umCacheTrackQ, inits)
  BY EmptyQueuesInv DEF Init
<1> QED BY <1>3, <1>4, InitPlaylistInv DEF Init, IInv

LEMMA NextIInv == ASSUME NoTargetRequested PROVE IInv /\ [Next]_vars => IInv'
<1> SUFFICES ASSUME IInv, [Next]_vars PROVE IInv'
  OBVIOUS
<1> USE DEF caches, limits
<1>p. PlaylistInv'
  BY NextPlaylistInv DEF IInv
<1>c. ASSUME inits' = ClearInitFragCache, umCacheTrackQ' = EmptyQueues
      PROVE  /\ Valid("init", inits') /\ DOMAIN inits' = DOMAIN inits
             /\ QueueInv(umCacheTrackQ', inits')
  BY <1>c, ClearValid, EmptyQueuesInv DEF IInv, ClearInitFragCache
<1>1. CASE UNCHANGED vars
  BY <1>1, <1>p DEF IInv, vars
<1>2. ASSUME NEW u \in Urls, NEW live \in BOOLEAN, InsertToPlaylistCache(u, live)
      PROVE  IInv'
  BY <1>2, <1>p DEF IInv, InsertToPlaylistCache, StartCleaner
<1>3. ASSUME NEW u \in Urls, RemoveFromPlaylistCache(u) PROVE IInv'
  BY <1>3, <1>p DEF IInv, RemoveFromPlaylistCache
<1>4. ASSUME NEW u \in Requested, InsertToInitFragCache(u) PROVE IInv'
  <2>1. /\ Valid("init", inits') /\ DOMAIN inits' = {"cache", "heap"}
        /\ QueueInv(umCacheTrackQ', inits')
    BY <1>4, InsertInit, CacheAssumption DEF IInv
  <2>2. UNCHANGED <<playlists, limits, mInitialized, mCacheActive, mAsyncCacheCleanUpThread,
                    player, cleaner>>
    BY <1>4 DEF InsertToInitFragCache
  <2> QED BY <1>p, <2>1, <2>2 DEF IInv
<1>5. CASE StartPlaylistCache \/ StopPlaylistCache \/ Race
  BY <1>5, <1>p DEF StartPlaylistCache, StopPlaylistCache, SetActive, SignalActive, Signal,
       Race, IInv
<1>6. CASE DeleteHandler \/ EndCleaner
  BY <1>6, <1>p DEF DeleteHandler, EndCleaner, Signal, IInv
<1>7. CASE JoinCleaner
  BY <1>7, <1>c, <1>p DEF JoinCleaner, IInv
<1>8. CASE CleanerLoop \/ CleanerWoken \/ CleanerTimeout \/ CleanerFlush
  BY <1>8, <1>p DEF CleanerLoop, CleanerWoken, CleanerTimeout, CleanerFlush, CleanerGoes, IInv
<1>9. CASE CleanerFlushed
  BY <1>9, <1>c, <1>p DEF CleanerFlushed, IInv
<1>10. CASE SetLimits
  BY <1>10, <1>p DEF SetLimits, IInv
<1> QED BY <1>1, <1>2, <1>3, <1>4, <1>5, <1>6, <1>7, <1>8, <1>9, <1>10 DEF Next, CleanerStep

LEMMA Invariant == ASSUME NoTargetRequested PROVE Spec => []IInv
  BY InitIInv, NextIInv, PTL DEF Spec

\* Retrieve, remove, evict and clear: no entry of either cache has a buffer that was
\* freed, and no buffer of a playlist is freed twice, for any redirects, sizes and limits.
THEOREM EntriesLive == ASSUME NoTargetRequested PROVE Spec => []BuffersLive
<1>1. ASSUME IInv PROVE BuffersLive
  <2>1. TypeOK
    <3>1. Range(playlists.heap) \subseteq Urls /\ Range(inits.heap) \subseteq InitUrls
      BY <1>1 DEF IInv, PlaylistInv, Covered, Valid, UrlsOf, Range
    <3>2. umCacheTrackQ \in [Types(InitUrls) -> Seq(InitUrls)]
      <4>1. Seq(Requested) \subseteq Seq(InitUrls)
        BY CacheAssumption
      <4> QED BY <1>1, <4>1 DEF IInv, QueueInv
    <3> QED BY <1>1, <3>1, <3>2 DEF IInv, PlaylistInv, Covered, TypeOK, Valid, UrlsOf
  <2>a. ASSUME NEW kind, NEW s, Valid(kind, s) PROVE Buffers(s) \subseteq DOMAIN s.heap
    BY <2>a DEF Valid, Good, Buffers
  <2>b. ASSUME NEW u \in DOMAIN playlists.cache, ~playlists.cache[u].mDuplicateEntry
        PROVE  u = playlists.heap[playlists.cache[u].mCachedBuffer]
    BY <1>1, <2>b DEF IInv, PlaylistInv, Covered, Valid, Good, Marked
  <2>2. PlaylistBuffersLive
    <3>1. Valid("playlist", playlists)
      BY <1>1 DEF IInv, PlaylistInv, Covered
    <3>2. Buffers(playlists) \subseteq DOMAIN playlists.heap
      BY <2>a, <3>1
    <3> QED BY <2>b, <3>2 DEF PlaylistBuffersLive
  <2>3. InitBuffersLive
    BY <1>1, <2>a DEF IInv, InitBuffersLive
  <2> QED BY <2>1, <2>2, <2>3 DEF BuffersLive
<1> QED BY <1>1, Invariant, PTL

\* Retrieve: what is found under a url is what was downloaded from it or from an url that
\* is redirected to it, through every eviction and overwriting.
THEOREM ContentIsRight == ASSUME NoTargetRequested PROVE Spec => []RightContent
<1>1. ASSUME IInv PROVE RightContent
  <2>1. ASSUME NEW kind, NEW s, Valid(kind, s), NEW u \in DOMAIN s.cache
        PROVE  LET from == s.heap[s.cache[u].mCachedBuffer] IN from = u \/ Effective[from] = u
    BY <2>1 DEF Valid, Good
  <2> QED BY <1>1, <2>1 DEF IInv, PlaylistInv, Covered, RightContent
<1> QED BY <1>1, Invariant, PTL

\* InsertToPlaylistCache, AllocatePlaylistCacheSlot, RemoveFromPlaylistCache: the buffers
\* of the playlists never take more than mCacheStoredSize says, whatever was overwritten,
\* removed unbooked or lost.
THEOREM StoredSizeBounds == Spec => []StoredSizeCovers
<1>1. ASSUME PlaylistInv PROVE StoredSizeCovers
  <2>1. Covered(playlists)
    BY <1>1 DEF PlaylistInv
  <2> QED BY <2>1, StoredSizeIs DEF StoredSizeCovers, Covered, Booked
<1> QED BY <1>1, PlaylistInvariant, PTL

\* No insertion takes a cache further above the limits of the tune than it already is:
\* it stays below them or evicts what it takes.
THEOREM LimitsKept == ASSUME NoTargetRequested PROVE Spec => WithinLimits
<1> DEFINE Kept ==
        /\ StoredSize(playlists') <= StoredSize(playlists)
           \/ mMaxPlaylistCacheSize = Unlimited
           \/ StoredSize(playlists') <= mMaxPlaylistCacheSize
        /\ \A type \in Types(InitUrls) :
              Len(umCacheTrackQ'[type]) <= Len(umCacheTrackQ[type])
              \/ Len(umCacheTrackQ'[type]) <= MaxInitCacheSlot
<1>1. ASSUME IInv, [Next]_vars PROVE [Kept]_vars
  <2> USE <1>1 DEF caches, limits
  <2> SUFFICES Kept
    OBVIOUS
  <2>1. Covered(playlists) /\ StoredSize(playlists) \in Nat
    BY StoredSizeIs DEF IInv, PlaylistInv
  <2>2. \A type \in Types(InitUrls) : Len(umCacheTrackQ[type]) \in Nat
    <3>1. umCacheTrackQ \in [Types(InitUrls) -> Seq(Requested)]
      BY DEF IInv, QueueInv
    <3> QED BY <3>1
  <2>a. playlists' = playlists => StoredSize(playlists') <= StoredSize(playlists)
    BY <2>1
  <2>b. umCacheTrackQ' = umCacheTrackQ =>
          \A type \in Types(InitUrls) : Len(umCacheTrackQ'[type]) <= Len(umCacheTrackQ[type])
    BY <2>2
  <2>c. ASSUME playlists' = ClearPlaylistCache(playlists), umCacheTrackQ' = EmptyQueues
        PROVE  Kept
    <3>1. Covered(playlists') /\ DOMAIN playlists'.heap = {}
      BY <2>1, <2>c, ClearCovered
    <3>2. StoredSize(playlists') = 0
      BY <3>1, StoredSizeIs, EmptyTotal
    <3>3. \A type \in Types(InitUrls) : Len(umCacheTrackQ'[type]) = 0
      BY <2>c DEF EmptyQueues
    <3> QED BY <2>1, <2>2, <3>2, <3>3
  <2>3. ASSUME NEW u \in Urls, NEW live \in BOOLEAN, InsertToPlaylistCache(u, live)
        PROVE  Kept
    <3>1. umCacheTrackQ' = umCacheTrackQ
          /\ (playlists' = playlists \/ playlists' = Inserted(playlists, u))
      BY <2>3 DEF InsertToPlaylistCache
    <3>2. \/ StoredSize(playlists') <= StoredSize(playlists)
          \/ mMaxPlaylistCacheSize = Unlimited
          \/ StoredSize(playlists') <= mMaxPlaylistCacheSize
      BY <2>1, <2>a, <3>1, LimitType, InsertedCovered DEF IInv
    <3> QED BY <2>b, <3>1, <3>2
  <2>4. ASSUME NEW u \in Urls, RemoveFromPlaylistCache(u) PROVE Kept
    <3>1. umCacheTrackQ' = umCacheTrackQ
          /\ StoredSize(playlists') <= StoredSize(playlists)
      BY <2>1, <2>4, RemovedCovered DEF RemoveFromPlaylistCache
    <3> QED BY <2>b, <3>1
  <2>5. ASSUME NEW u \in Requested, InsertToInitFragCache(u) PROVE Kept
    <3>1. playlists' = playlists
      BY <2>5 DEF InsertToInitFragCache
    <3>2. \A type \in Types(InitUrls) :
              \/ Len(umCacheTrackQ'[type]) <= Len(umCacheTrackQ[type])
              \/ Len(umCacheTrackQ'[type]) <= MaxInitCacheSlot
      BY <2>5, InsertInit, CacheAssumption DEF IInv
    <3> QED BY <2>a, <3>1, <3>2
  <2>6. CASE JoinCleaner \/ CleanerFlushed
    BY <2>6, <2>c DEF JoinCleaner, CleanerFlushed
  <2>7. CASE \/ UNCHANGED vars \/ StartPlaylistCache \/ SetLimits \/ StopPlaylistCache \/ Race
             \/ DeleteHandler \/ EndCleaner
             \/ CleanerLoop \/ CleanerWoken \/ CleanerTimeout \/ CleanerFlush
    <3>1. playlists' = playlists /\ umCacheTrackQ' = umCacheTrackQ
      BY <2>7 DEF vars, StartPlaylistCache, StopPlaylistCache, SetActive, SignalActive,
           SetLimits, Race, DeleteHandler, EndCleaner, CleanerLoop, CleanerWoken,
           CleanerTimeout, CleanerFlush, CleanerGoes
    <3> QED BY <2>a, <2>b, <3>1
  <2> QED BY <2>3, <2>4, <2>5, <2>6, <2>7 DEF Next, CleanerStep
<1> QED BY <1>1, Invariant, PTL DEF Spec, WithinLimits

-----------------------------------------------------------------------------
(* The queues of init fragments, whatever is asked for.  Only an entry made *)
(* under the url of the request is marked, and it names the other entry.    *)

MarkedRight(s) ==
    /\ {"cache", "heap"} \subseteq DOMAIN s
    /\ \A u \in DOMAIN s.cache :
          s.cache[u].mDuplicateEntry =>
              s.cache[u].mEffectiveUrl = Effective[u] /\ Effective[u] # u

\* Where the queue of a type holds an url that no other one is redirected to.
QueuedOnce(q, cache, type) ==
    \A i \in 1 .. Len(q) :
        /\ FileType[q[i]] = type
        /\ NotRedirectedTo(q[i]) =>
              q[i] \in cache /\ \A j \in 1 .. Len(q) : q[j] = q[i] => j = i

KeptInv ==
    /\ MarkedRight(inits)
    /\ umCacheTrackQ \in [Types(InitUrls) -> Seq(InitUrls)]
    /\ \A type \in Types(InitUrls) :
          QueuedOnce(umCacheTrackQ[type], DOMAIN inits.cache, type)

\* What the eviction removes: the first url of the queue and one it is redirected to.
LEMMA EvictedMarked ==
    ASSUME NEW s, MarkedRight(s), NEW q, Head(q) \in InitUrls, Head(q) \in DOMAIN s.cache
    PROVE  LET r == RemoveInitFragCacheEntry(q, s)
           IN  /\ r.queue = Tail(q)
               /\ MarkedRight(r.inits)
               /\ \A v \in DOMAIN s.cache \ {Head(q)} :
                     NotRedirectedTo(v) => v \in DOMAIN r.inits.cache
<1> DEFINE h    == Head(q)
           e    == s.cache[h]
           gone == {h} \cup (IF e.mDuplicateEntry THEN {e.mEffectiveUrl} ELSE {})
           t    == [s EXCEPT !.cache = Restrict(@, DOMAIN @ \ gone),
                             !.heap = Restrict(@, DOMAIN @ \ {e.mCachedBuffer})]
<1>1. RemoveInitFragCacheEntry(q, s).queue = Tail(q)
      /\ RemoveInitFragCacheEntry(q, s).inits = t
  BY DEF RemoveInitFragCacheEntry
<1> HIDE DEF h
<1>2. gone \subseteq {h, Effective[h]}
  BY DEF MarkedRight, h
<1> HIDE DEF e, gone
<1>3. DOMAIN t = DOMAIN s /\ t.cache = Restrict(s.cache, DOMAIN s.cache \ gone)
  BY DEF MarkedRight
<1> HIDE DEF t
<1>4. /\ DOMAIN t.cache = DOMAIN s.cache \ gone
      /\ \A v \in DOMAIN t.cache : t.cache[v] = s.cache[v]
  BY <1>3, RestrictIs
<1>5. MarkedRight(t)
  BY <1>3, <1>4 DEF MarkedRight
<1>6. ASSUME NEW v \in DOMAIN s.cache \ {h}, NotRedirectedTo(v) PROVE v \in DOMAIN t.cache
  <2>1. v # Effective[h]
    BY <1>6 DEF NotRedirectedTo, h
  <2> QED BY <1>2, <1>4, <2>1
<1> QED BY <1>1, <1>5, <1>6 DEF h

LEMMA PutMarked ==
    ASSUME NEW s, MarkedRight(s), NEW t, DOMAIN t = DOMAIN s,
           NEW u, NEW e, t.cache = With(s.cache, u, e),
           e.mDuplicateEntry => e.mEffectiveUrl = Effective[u] /\ Effective[u] # u
    PROVE  MarkedRight(t) /\ DOMAIN t.cache = DOMAIN s.cache \cup {u}
<1>1. /\ DOMAIN t.cache = DOMAIN s.cache \cup {u}
      /\ t.cache[u] = e
      /\ \A v \in DOMAIN s.cache \ {u} : t.cache[v] = s.cache[v]
  BY DEF With
<1>2. ASSUME NEW v \in DOMAIN t.cache, t.cache[v].mDuplicateEntry
      PROVE  t.cache[v].mEffectiveUrl = Effective[v] /\ Effective[v] # v
  <2>1. CASE v = u
    BY <1>1, <1>2, <2>1
  <2>2. CASE v # u
    BY <1>1, <1>2, <2>2 DEF MarkedRight
  <2> QED BY <2>1, <2>2
<1> QED BY <1>1, <1>2 DEF MarkedRight

\* What an insertion stores.
LEMMA InsertedMarked ==
    ASSUME NEW s, MarkedRight(s), NEW u \in InitUrls
    PROVE  /\ MarkedRight(WithInitEntry(s, u))
           /\ DOMAIN s.cache \cup {u} \subseteq DOMAIN WithInitEntry(s, u).cache
<1> DEFINE buf == NewBuffer(s)
           f == Fill(s, buf, u)
           e == Entry(buf, u, Effective[u] # u)
           t == Put(f, u, e)
           g == Entry(buf, u, FALSE)
           d == Put(t, Effective[u], g)
<1>1. WithInitEntry(s, u) = IF Effective[u] = u THEN t ELSE d
  BY DEF WithInitEntry
<1>2. /\ e.mDuplicateEntry => e.mEffectiveUrl = Effective[u] /\ Effective[u] # u
      /\ ~g.mDuplicateEntry
  BY DEF Entry
<1>0. {"cache", "heap"} \subseteq DOMAIN s
  BY DEF MarkedRight
<1> HIDE DEF e, g, buf
<1>3. DOMAIN f = DOMAIN s /\ f.cache = s.cache
  BY <1>0, FillFields
<1> HIDE DEF f
<1>a. {"cache", "heap"} \subseteq DOMAIN f
  BY <1>0, <1>3
<1>4. DOMAIN t = DOMAIN f /\ t.cache = With(f.cache, u, e)
  BY <1>a, PutFields
<1> HIDE DEF t
<1>5. MarkedRight(t) /\ DOMAIN t.cache = DOMAIN s.cache \cup {u}
  <2>1. MarkedRight(f)
    BY <1>3 DEF MarkedRight
  <2>2. MarkedRight(t) /\ DOMAIN t.cache = DOMAIN f.cache \cup {u}
    BY <1>2, <1>4, <2>1, PutMarked
  <2> QED BY <1>3, <2>2
<1>b. {"cache", "heap"} \subseteq DOMAIN t
  BY <1>a, <1>4
<1>6. DOMAIN d = DOMAIN t /\ d.cache = With(t.cache, Effective[u], g)
  BY <1>b, PutFields
<1> HIDE DEF d
<1>7. MarkedRight(d) /\ DOMAIN t.cache \subseteq DOMAIN d.cache
  BY <1>2, <1>5, <1>6, PutMarked
<1> QED BY <1>1, <1>5, <1>7

LEMMA InsertKept ==
    ASSUME KeptInv, MaxInitCacheSlot \in Nat \ {0}, NEW u \in InitUrls,
           InsertToInitFragCache(u)
    PROVE  KeptInv'
<1> DEFINE type  == FileType[u]
           old   == umCacheTrackQ[type]
           queue == Append(old, u)
           r     == IF Len(queue) > MaxInitCacheSlot THEN RemoveInitFragCacheEntry(queue, inits)
                    ELSE [queue |-> queue, inits |-> inits]
<1>1. /\ u \notin DOMAIN inits.cache
      /\ umCacheTrackQ' = [umCacheTrackQ EXCEPT ![type] = r.queue]
      /\ inits' = WithInitEntry(r.inits, u)
  BY DEF InsertToInitFragCache
<1>2. type \in Types(InitUrls)
  BY DEF Types
<1>3. old \in Seq(InitUrls) /\ QueuedOnce(old, DOMAIN inits.cache, type)
  BY <1>2 DEF KeptInv
<1>t. FileType[u] = type
  OBVIOUS
<1> HIDE DEF type, old
\* The url is new in its queue, or another one is redirected to it.
<1>4. /\ queue \in Seq(InitUrls) /\ queue # <<>>
      /\ QueuedOnce(queue, DOMAIN inits.cache \cup {u}, type)
  <2>1. /\ queue \in Seq(InitUrls) /\ Len(queue) = Len(old) + 1 /\ Len(old) \in Nat
        /\ queue[Len(old) + 1] = u
        /\ \A i \in 1 .. Len(old) : queue[i] = old[i]
    BY <1>3
  <2>2. \A i \in 1 .. Len(queue) : i \in 1 .. Len(old) \/ i = Len(old) + 1
    BY <2>1
  <2>3. queue # <<>>
    BY <2>1
  <2> HIDE DEF queue
  <2>4. ASSUME NEW i \in 1 .. Len(queue)
        PROVE  /\ FileType[queue[i]] = type
               /\ NotRedirectedTo(queue[i]) =>
                     /\ queue[i] \in DOMAIN inits.cache \cup {u}
                     /\ \A j \in 1 .. Len(queue) : queue[j] = queue[i] => j = i
    BY <1>1, <1>3, <1>t, <2>1, <2>2 DEF QueuedOnce
  <2> QED BY <2>1, <2>3, <2>4 DEF QueuedOnce
<1> HIDE DEF queue
\* So it is after the eviction of the first url, if that one has an entry.
<1>5. /\ r.queue \in Seq(InitUrls)
      /\ MarkedRight(r.inits)
      /\ QueuedOnce(r.queue, DOMAIN r.inits.cache \cup {u}, type)
      /\ \A v \in DOMAIN inits.cache :
            NotRedirectedTo(v) /\ FileType[v] # type => v \in DOMAIN r.inits.cache
  <2>1. CASE r.queue = queue /\ r.inits = inits
    BY <1>4, <2>1 DEF KeptInv
  <2>2. CASE ~(r.queue = queue /\ r.inits = inits)
    <3>1. r = RemoveInitFragCacheEntry(queue, inits) /\ Head(queue) \in DOMAIN inits.cache
      BY <2>2 DEF RemoveInitFragCacheEntry
    <3>2. Head(queue) \in InitUrls /\ FileType[Head(queue)] = type /\ Head(queue) = queue[1]
      BY <1>4 DEF QueuedOnce
    <3>3. /\ r.queue = Tail(queue)
          /\ MarkedRight(r.inits)
          /\ \A v \in DOMAIN inits.cache \ {Head(queue)} :
                NotRedirectedTo(v) => v \in DOMAIN r.inits.cache
      BY <3>1, <3>2, EvictedMarked DEF KeptInv
    <3> HIDE DEF r
    <3>4. /\ Tail(queue) \in Seq(InitUrls) /\ Len(Tail(queue)) = Len(queue) - 1
          /\ Len(queue) \in Nat
          /\ \A i \in 1 .. Len(Tail(queue)) :
                i + 1 \in 1 .. Len(queue) /\ Tail(queue)[i] = queue[i + 1] /\ i + 1 # 1
      BY <1>4
    <3>5. ASSUME NEW i \in 1 .. Len(r.queue)
          PROVE  /\ FileType[r.queue[i]] = type
                 /\ NotRedirectedTo(r.queue[i]) =>
                       /\ r.queue[i] \in DOMAIN r.inits.cache \cup {u}
                       /\ \A j \in 1 .. Len(r.queue) : r.queue[j] = r.queue[i] => j = i
      <4>1. FileType[r.queue[i]] = type /\ r.queue[i] = queue[i + 1]
            /\ i + 1 \in 1 .. Len(queue) /\ 1 \in 1 .. Len(queue)
        BY <1>4, <3>3, <3>4 DEF QueuedOnce
      <4>2. ASSUME NotRedirectedTo(r.queue[i])
            PROVE  /\ r.queue[i] \in DOMAIN r.inits.cache \cup {u}
                   /\ \A j \in 1 .. Len(r.queue) : r.queue[j] = r.queue[i] => j = i
        <5>1. /\ queue[i + 1] \in DOMAIN inits.cache \cup {u}
              /\ \A j \in 1 .. Len(queue) : queue[j] = queue[i + 1] => j = i + 1
          BY <1>4, <4>1, <4>2 DEF QueuedOnce
        <5>2. queue[i + 1] # Head(queue)
          BY <3>2, <3>3, <3>4, <4>1, <5>1
        <5>3. \A j \in 1 .. Len(r.queue) : r.queue[j] = r.queue[i] => j = i
          BY <3>3, <3>4, <4>1, <5>1
        <5> QED BY <3>3, <4>1, <4>2, <5>1, <5>2, <5>3
      <4> QED BY <4>1, <4>2
    <3> QED BY <3>2, <3>3, <3>4, <3>5 DEF QueuedOnce
  <2> QED BY <2>1, <2>2
<1> HIDE DEF r
<1>6. MarkedRight(inits') /\ DOMAIN r.inits.cache \cup {u} \subseteq DOMAIN inits'.cache
  BY <1>1, <1>5, InsertedMarked
<1>7. ASSUME NEW t \in Types(InitUrls)
      PROVE  QueuedOnce(umCacheTrackQ'[t], DOMAIN inits'.cache, t)
  <2>1. CASE t = type
    <3>1. umCacheTrackQ'[t] = r.queue
      BY <1>1, <2>1 DEF KeptInv
    <3> QED BY <1>5, <1>6, <2>1, <3>1 DEF QueuedOnce
  <2>2. CASE t # type
    <3>1. umCacheTrackQ'[t] = umCacheTrackQ[t]
      BY <1>1, <2>2 DEF KeptInv
    <3>2. QueuedOnce(umCacheTrackQ[t], DOMAIN inits.cache, t)
      BY DEF KeptInv
    <3> QED BY <1>5, <1>6, <2>2, <3>1, <3>2 DEF QueuedOnce
  <2> QED BY <2>1, <2>2
<1>8. umCacheTrackQ' \in [Types(InitUrls) -> Seq(InitUrls)]
  BY <1>1, <1>5 DEF KeptInv
<1> QED BY <1>6, <1>7, <1>8 DEF KeptInv

LEMMA ClearKept ==
    ASSUME KeptInv, inits' = ClearInitFragCache, umCacheTrackQ' = EmptyQueues
    PROVE  KeptInv'
<1>1. DOMAIN inits' = DOMAIN inits /\ DOMAIN inits'.cache = {}
  BY EraseFields DEF KeptInv, MarkedRight, ClearInitFragCache
<1>2. MarkedRight(inits')
  BY <1>1 DEF KeptInv, MarkedRight
<1>3. umCacheTrackQ' \in [Types(InitUrls) -> Seq(InitUrls)]
  BY DEF EmptyQueues
<1>4. ASSUME NEW type \in Types(InitUrls)
      PROVE  QueuedOnce(umCacheTrackQ'[type], DOMAIN inits'.cache, type)
  <2>1. Len(umCacheTrackQ'[type]) = 0
    BY DEF EmptyQueues
  <2> QED BY <2>1 DEF QueuedOnce
<1> QED BY <1>2, <1>3, <1>4 DEF KeptInv

SlotType == MaxInitCacheSlot \in {DefaultSlots} \cup Slots

LEMMA SlotTyped == Spec => []SlotType
<1> USE DEF SlotType
<1>1. Init => SlotType
  BY DEF Init
<1>2. ASSUME SlotType, [Next]_vars PROVE SlotType'
  <2>1. SetLimits \/ UNCHANGED MaxInitCacheSlot
    BY <1>2 DEF Next, CleanerStep, vars, limits, InsertToPlaylistCache, RemoveFromPlaylistCache,
       InsertToInitFragCache, StartPlaylistCache, StopPlaylistCache, SetActive, SignalActive,
       Race, DeleteHandler, EndCleaner, JoinCleaner, CleanerLoop, CleanerWoken,
       CleanerTimeout, CleanerFlush, CleanerFlushed, CleanerGoes
  <2> QED BY <1>2, <2>1 DEF SetLimits
<1> QED BY <1>1, <1>2, PTL DEF Spec

LEMMA NextKept ==
    ASSUME SlotType, KeptInv, [Next]_vars
    PROVE  KeptInv'
<1>1. ASSUME NEW u \in Requested, InsertToInitFragCache(u) PROVE KeptInv'
  <2>1. MaxInitCacheSlot \in Nat \ {0} /\ u \in InitUrls
    BY CacheAssumption DEF SlotType
  <2> QED BY <1>1, <2>1, InsertKept
<1>2. CASE JoinCleaner \/ CleanerFlushed
  BY <1>2, ClearKept DEF JoinCleaner, CleanerFlushed
<1>3. CASE UNCHANGED <<inits, umCacheTrackQ>>
  BY <1>3 DEF KeptInv
<1>4. \/ \E u \in Requested : InsertToInitFragCache(u)
      \/ JoinCleaner \/ CleanerFlushed \/ UNCHANGED <<inits, umCacheTrackQ>>
  BY DEF Next, CleanerStep, vars, caches, InsertToPlaylistCache, RemoveFromPlaylistCache,
     StartPlaylistCache, StopPlaylistCache, SetActive, SignalActive, SetLimits,
     Race, DeleteHandler, EndCleaner, CleanerLoop, CleanerWoken,
     CleanerTimeout, CleanerFlush, CleanerGoes
<1> QED BY <1>1, <1>2, <1>3, <1>4

\* InsertToInitFragCache and RemoveInitFragCacheEntry, for any requests: a queued url that
\* no other one is redirected to has its entry and is queued once, so no eviction, redirect
\* or overwriting takes its entry before its turn.
THEOREM QueuesMatchCache == Spec => []QueueIsCache
<1>1. Init => KeptInv
  <2> SUFFICES ASSUME Init PROVE KeptInv
    OBVIOUS
  <2>1. DOMAIN inits = {"cache", "heap"} /\ DOMAIN inits.cache = {}
    BY DEF Init, Nothing
  <2>2. umCacheTrackQ \in [Types(InitUrls) -> Seq(InitUrls)]
    BY DEF Init, EmptyQueues
  <2>3. \A type \in Types(InitUrls) : Len(umCacheTrackQ[type]) = 0
    BY DEF Init, EmptyQueues
  <2> QED BY <2>1, <2>2, <2>3 DEF KeptInv, MarkedRight, QueuedOnce
<1>2. ASSUME SlotType, KeptInv, [Next]_vars PROVE KeptInv'
  BY <1>2, NextKept
<1>3. KeptInv => QueueIsCache
  BY DEF KeptInv, QueuedOnce, QueueIsCache
<1> QED BY <1>1, <1>2, <1>3, SlotTyped, PTL DEF Spec
=============================================================================
