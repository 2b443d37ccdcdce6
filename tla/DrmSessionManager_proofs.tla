----------------------- MODULE DrmSessionManager_proofs -----------------------
(***************************************************************************)
(* Safety of the DRM session manager for any number of slots, key ids,     *)
(* requests and streams.                                                   *)
(***************************************************************************)
EXTENDS DrmSessionManager, FiniteSetTheorems, TLAPS

\* Inside createDrmSession with mDrmSessionLock.
Inside == {"session", "init", "challenge", "token", "license", "process", "crash"}

\* The places of a request that has its session.
Working == {"init", "challenge", "token", "license", "process"}

\* A caller is inside exactly while it holds mDrmSessionLock.
Lock == \A c \in Callers : pc[c] \in Inside <=> mDrmSessionLock = c

\* DASH: the callers are gone before the sessions are cleared, and the manager is inactive
\* only from the end of one stream to the begin of the next.
Quiet ==
    /\ apc \in {"clear", "delete", "stopped"} => \A c \in Callers : pc[c] = "idle"
    /\ apc = "sink" => pc[License] = "idle"
    /\ ~active => apc \in {"sink", "clear", "delete", "stopped"}

\* A slot has the key ids of one content.
Contents ==
    \A s \in Slots : \A k \in cachedKeyIDs[s].data : cachedKeyIDs[s].data = KeySet[k]

\* A request has its slot, and then its session.
HasSession ==
    \A c \in Callers :
        /\ pc[c] \in Working \cup {"session"} => req[c].key \in cachedKeyIDs[req[c].slot].data
        /\ pc[c] \in Working => session[req[c].slot].key \in KeySet[req[c].key]
        /\ pc[c] # "crash"

\* A session belongs to its slot, unless a request is about to replace it.
Belongs ==
    \A s \in Slots :
        \/ session[s].key = "none"
        \/ session[s].key \in cachedKeyIDs[s].data
        \/ \E c \in Callers : pc[c] = "session" /\ req[c].slot = s

\* A slot is marked, or has a session that did not become ready, because its request failed
\* or is on its way; and such a session is the one of a marked slot.
Tainted(s) ==
    \/ cachedKeyIDs[s].failed
    \/ session[s].state \in {"pending", "error"} /\ session[s].key \in cachedKeyIDs[s].data

AtWork(s) == \E c \in Callers : pc[c] \in Working /\ req[c].slot = s

\* While the stream plays, a slot is tainted only if a request for its key ids failed.
Marked ==
    apc \in {"play", "abort", "halt", "join", "sink"} =>
        \A s \in Slots : Tainted(s) =>
            \/ AtWork(s) /\ ~cachedKeyIDs[s].failed
            \/ cachedKeyIDs[s].data \subseteq failedKeys

\* Clearing the sessions of marked slots leaves no tainted slot behind.
Cleared ==
    /\ \A s \in Slots : Tainted(s) => cachedKeyIDs[s].failed \/ AtWork(s)
    /\ apc \in {"clear", "delete"} =>
          \A s \in Slots : s < slotToClear /\ cachedKeyIDs[s].failed => session[s] = NoSession

\* A request is of the stream that plays.
Current == \A c \in Callers : pc[c] # "idle" => req[c].tune = tunes

Failures == Marked /\ Cleared /\ Current /\ ~refusedFresh

Silence == ~config.needsToken => ~noisyStop /\ \A c \in Callers : pc[c] # "token"

-----------------------------------------------------------------------------
(* The choice of a slot                                                      *)

LEMMA LeastIn ==
    ASSUME NEW S \in SUBSET Nat, S # {}
    PROVE  \E m \in S : \A n \in S : m <= n
<1>1. PICK m \in S : \A n \in S : <<n, m>> \notin OpToRel(<, Nat)
  BY WFMin, NatLessThanWellFounded, Zenon
<1>2. \A n \in S : ~(n < m)
  BY <1>1, Zenon DEF OpToRel
<1> QED  BY <1>2

LEMMA FirstIn ==
    ASSUME NEW S \in SUBSET Slots, S # {}
    PROVE  First(S) \in S
<1>1. S \in SUBSET Nat
  BY SlotsAssumption DEF SlotsAssumption, Slots
<1>2. \E m \in S : \A n \in S : m <= n
  BY <1>1, LeastIn
<1> QED  BY <1>2 DEF First

LEMMA OldestIn ==
    ASSUME TypeOK
    PROVE  Oldest \in Slots
<1> DEFINE T == {cachedKeyIDs[s].time : s \in Slots}
           S == {s \in Slots : \A t \in Slots : cachedKeyIDs[s].time <= cachedKeyIDs[t].time}
<1>1. T \in SUBSET Nat /\ T # {}
  BY SlotsAssumption DEF SlotsAssumption, Slots, TypeOK
<1>2. PICK m \in T : \A n \in T : m <= n
  BY <1>1, LeastIn
<1>3. S \in SUBSET Slots /\ S # {}
  BY <1>2
<1> QED  BY <1>3, FirstIn DEF Oldest

LEMMA SelectSlotIn ==
    ASSUME TypeOK, NEW k
    PROVE  /\ SelectSlot(k) \in Slots
           /\ CachedSlots(k) # {} => SelectSlot(k) \in CachedSlots(k)
<1>1. CachedSlots(k) \in SUBSET Slots
  BY DEF CachedSlots
<1>2. CASE CachedSlots(k) # {}
  BY <1>1, <1>2, FirstIn DEF SelectSlot
<1>3. CASE CachedSlots(k) = {}
  BY <1>3, OldestIn DEF SelectSlot
<1> QED  BY <1>2, <1>3

-----------------------------------------------------------------------------
(* Types                                                                    *)

SlotTypes ==
    /\ cachedKeyIDs \in [Slots -> [data : SUBSET Keys, failed : BOOLEAN, time : Nat]]
    /\ failedKeys \subseteq Keys

SessionTypes ==
    /\ session \in [Slots -> {NoSession} \cup
                     [key : Keys, state : {"init", "pending", "ready", "error"}]]
    /\ held \in {NotHeld} \cup
                [slot : Slots, key : Keys, since : SUBSET Keys, live : BOOLEAN]

MutexTypes == sessionMutex \in [Slots -> Callers \cup {Nobody}]

RequestTypes ==
    /\ mDrmSessionLock \in Callers \cup {Nobody}
    /\ pc \in [Callers -> {"idle", "enter"} \cup Inside]
    /\ req \in [Callers -> [key : Keys, slot : Slots, tune : Nat]]
    /\ refusedFresh \in BOOLEAN /\ noisyStop \in BOOLEAN

FlagTypes ==
    /\ config \in Configs
    /\ active \in BOOLEAN /\ curlSessionAbort \in BOOLEAN /\ licenseRequestAbort \in BOOLEAN
    /\ accessToken \in BOOLEAN /\ newTune \in BOOLEAN

PlayerTypes ==
    /\ apc \in {"stopped", "clear", "delete", "play", "abort", "halt", "join", "sink"}
    /\ slotToClear \in 1 .. NSlots + 1
    /\ apc = "delete" => slotToClear \in Slots
    /\ clock \in Nat /\ requests \in Nat /\ tunes \in Nat

LEMMA TypeParts ==
    /\ TypeOK <=> /\ SlotTypes /\ SessionTypes /\ MutexTypes
                  /\ RequestTypes /\ FlagTypes /\ PlayerTypes
    /\ TypeOK' <=> /\ SlotTypes' /\ SessionTypes' /\ MutexTypes'
                   /\ RequestTypes' /\ FlagTypes' /\ PlayerTypes'
BY DEF TypeOK, SlotTypes, SessionTypes, MutexTypes, RequestTypes, FlagTypes, PlayerTypes, Inside

LEMMA TypeInit == Init => TypeOK
<1> SUFFICES ASSUME Init PROVE TypeOK
  OBVIOUS
<1>1. 1 \in Slots /\ 1 \in 1 .. NSlots + 1
  BY SlotsAssumption DEF SlotsAssumption, Slots
<1>2. SlotTypes /\ SessionTypes /\ MutexTypes
  BY DEF Init, SlotTypes, SessionTypes, MutexTypes, FreeSlot
<1>3. RequestTypes
  <2>1. NoRequest \in [key : Keys, slot : Slots, tune : Nat]
    BY <1>1, KeysAssumption DEF KeysAssumption, NoRequest, NewRequest
  <2> QED  BY <2>1 DEF Init, RequestTypes
<1>4. FlagTypes /\ PlayerTypes
  BY <1>1 DEF Init, FlagTypes, PlayerTypes
<1> QED  BY <1>2, <1>3, <1>4, TypeParts

LEMMA ReturnTypes ==
    ASSUME RequestTypes, NEW c \in Callers, NEW failure, NEW stopped,
           Return(c, failure, stopped)
    PROVE  RequestTypes'
<1>1. NoRequest \in [key : Keys, slot : Slots, tune : Nat]
  BY KeysAssumption, SlotsAssumption
     DEF KeysAssumption, SlotsAssumption, NoRequest, NewRequest, Slots
<1> QED  BY <1>1 DEF Return, RequestTypes, Inside

LEMMA GotoTypes ==
    ASSUME RequestTypes, NEW c \in Callers, NEW l \in Inside, Goto(c, l)
    PROVE  RequestTypes'
BY DEF Goto, RequestTypes, Inside, verdicts

LEMMA MarkFailedTypes ==
    ASSUME SlotTypes, RequestTypes, NEW c \in Callers, MarkFailed(c)
    PROVE  SlotTypes'
<1>1. KeySet[req[c].key] \in SUBSET Keys
  BY KeysAssumption DEF KeysAssumption, RequestTypes
<1> QED  BY <1>1 DEF MarkFailed, SlotTypes, RequestTypes

LEMMA DeliverTypes ==
    ASSUME RequestTypes, SessionTypes, NEW c \in Callers, Deliver(c), session' = session
    PROVE  RequestTypes' /\ SessionTypes'
BY ReturnTypes DEF Deliver, RequestTypes, SessionTypes

HeldTypes ==
    held \in {NotHeld} \cup [slot : Slots, key : Keys, since : SUBSET Keys, live : BOOLEAN]

LEMMA DeleteTypes ==
    ASSUME HeldTypes, NEW s \in Slots, DeleteSession(s)
    PROVE  HeldTypes'
<1>1. CASE held.slot # s
  BY <1>1 DEF DeleteSession, HeldTypes
<1>2. CASE held.slot = s
  <2>1. held # NotHeld
    BY <1>2, SlotsAssumption DEF NotHeld, Slots, SlotsAssumption
  <2> QED  BY <1>2, <2>1 DEF DeleteSession, HeldTypes
<1> QED  BY <1>1, <1>2

LEMMA UseSlotTypes ==
    ASSUME TypeOK, NEW c \in Callers, NEW s \in Slots, UseSlot(c, s),
           UNCHANGED <<session, failedKeys>>
    PROVE  SlotTypes' /\ SessionTypes' /\ RequestTypes' /\ clock' \in Nat
<1>1. req[c].key \in Keys
  BY TypeParts DEF RequestTypes
<1>2. KeySet[req[c].key] \in SUBSET Keys
  BY <1>1, KeysAssumption DEF KeysAssumption
<1>3. PICK d \in Ticks :
        /\ clock' = clock + d
        /\ cachedKeyIDs' = [cachedKeyIDs EXCEPT ![s] =
              [data |-> IF CachedSlots(req[c].key) # {} THEN @.data ELSE KeySet[req[c].key],
               failed |-> FALSE, time |-> clock + d]]
  BY DEF UseSlot
<1>4. clock' \in Nat
  BY <1>3, BoundsAssumption, TypeParts DEF BoundsAssumption, PlayerTypes
<1>5. SlotTypes'
  BY <1>2, <1>3, <1>4, TypeParts DEF SlotTypes
<1>6. SessionTypes'
  BY <1>1, TypeParts DEF UseSlot, SessionTypes
<1>7. RequestTypes'
  BY TypeParts DEF UseSlot, RequestTypes, Inside, verdicts
<1> QED  BY <1>4, <1>5, <1>6, <1>7

\* The steps of a caller keep the types.
LEMMA TypeCaller ==
    ASSUME TypeOK, NEW c \in Callers, CallerNext(c) \/ \E k \in Asks[c] : Request(c, k)
    PROVE  TypeOK'
<1>0. /\ SlotTypes /\ SessionTypes /\ MutexTypes /\ RequestTypes /\ FlagTypes /\ PlayerTypes
      /\ req[c].slot \in Slots /\ req[c].key \in Keys
  BY TypeParts DEF RequestTypes
<1>1. ASSUME NEW k \in Asks[c], Request(c, k)
      PROVE  TypeOK'
  <2>1. k \in Keys
    BY AsksAssumption DEF AsksAssumption, Callers
  <2>2. NewRequest(k, tunes) \in [key : Keys, slot : Slots, tune : Nat]
    BY <1>0, <2>1, SlotsAssumption DEF SlotsAssumption, NewRequest, Slots, PlayerTypes
  <2>3. RequestTypes'
    BY <1>0, <1>1, <2>2 DEF Request, RequestTypes, locks, verdicts, Inside
  <2>4. SlotTypes' /\ SessionTypes' /\ MutexTypes' /\ FlagTypes' /\ PlayerTypes'
    BY <1>0, <1>1 DEF Request, SlotTypes, SessionTypes, MutexTypes, FlagTypes, PlayerTypes,
                      slots, locks, aborts, player
  <2> QED  BY <2>3, <2>4, TypeParts
<1>2. CASE CreateDrmSession(c)
  <2>1. MutexTypes' /\ FlagTypes' /\ slotToClear' = slotToClear /\ apc' = apc
        /\ UNCHANGED <<requests, tunes, session, failedKeys>>
    BY <1>0, <1>2 DEF CreateDrmSession, MutexTypes, FlagTypes, aborts, player
  <2>2. CASE /\ Return(c, "unknown", TRUE) \/ Return(c, "refused", FALSE)
             /\ UNCHANGED <<cachedKeyIDs, clock, held>>
    <3>1. RequestTypes'
      BY <1>0, <2>2, ReturnTypes
    <3> QED  BY <1>0, <2>1, <2>2, <3>1, TypeParts DEF SlotTypes, SessionTypes, PlayerTypes
  <2>3. CASE UseSlot(c, SelectSlot(req[c].key))
    <3>1. SlotTypes' /\ SessionTypes' /\ RequestTypes' /\ clock' \in Nat
      BY <2>1, <2>3, SelectSlotIn, UseSlotTypes
    <3> QED  BY <1>0, <2>1, <3>1, TypeParts DEF PlayerTypes
  <2> QED  BY <1>2, <2>2, <2>3 DEF CreateDrmSession
<1>3. CASE GetDrmSession(c)
  <2> DEFINE s == req[c].slot
  <2>1. MutexTypes' /\ FlagTypes' /\ PlayerTypes'
    BY <1>0, <1>3 DEF GetDrmSession, MutexTypes, FlagTypes, PlayerTypes, aborts, player
  <2>2. CASE Deliver(c) /\ UNCHANGED <<slots, failedKeys>>
    BY <1>0, <2>1, <2>2, DeliverTypes, TypeParts DEF SlotTypes, slots
  <2>3. CASE Goto(c, "init") /\ UNCHANGED <<slots, held, failedKeys>>
    BY <1>0, <2>1, <2>3, GotoTypes, TypeParts DEF SlotTypes, SessionTypes, slots, Inside
  <2>4. CASE /\ cachedKeyIDs' = [cachedKeyIDs EXCEPT ![s].failed = TRUE]
             /\ Return(c, "refused", FALSE) /\ UNCHANGED <<session, held, failedKeys>>
    BY <1>0, <2>1, <2>4, ReturnTypes, TypeParts DEF SlotTypes, SessionTypes
  <2>5. CASE /\ session' = [session EXCEPT ![s] = [key |-> req[c].key, state |-> "init"]]
             /\ DeleteSession(s)
             /\ Goto(c, "init") /\ UNCHANGED <<cachedKeyIDs, failedKeys>>
    <3>1. SessionTypes'
      BY <1>0, <2>5, DeleteTypes DEF SessionTypes, HeldTypes
    <3> QED  BY <1>0, <2>1, <2>5, <3>1, GotoTypes, TypeParts DEF SlotTypes, Inside
  <2> QED  BY <1>3, <2>2, <2>3, <2>4, <2>5 DEF GetDrmSession
<1>4. CASE Crash(c)
  BY <1>0, <1>4, GotoTypes, TypeParts
     DEF Crash, SlotTypes, SessionTypes, MutexTypes, FlagTypes, PlayerTypes,
         slots, aborts, player, Inside
<1>5. ASSUME NEW l, NEW state \in {"pending", "ready", "error"}, Uses(c, l),
             SetState(c, state), held' = held
      PROVE  SessionTypes'
  BY <1>0, <1>5 DEF Uses, SetState, SessionTypes
<1>6. ASSUME NEW failure, NEW stopped, Fail(c, failure, stopped)
      PROVE  SlotTypes' /\ RequestTypes'
  BY <1>0, <1>6, ReturnTypes, MarkFailedTypes DEF Fail
<1>7. ReleaseSession(c) => MutexTypes'
  BY <1>0 DEF ReleaseSession, MutexTypes
<1>8. CASE InitializeDrmSession(c)
  <2>1. MutexTypes' /\ FlagTypes' /\ PlayerTypes'
    BY <1>0, <1>8 DEF InitializeDrmSession, MutexTypes, FlagTypes, PlayerTypes, aborts, player
  <2>2. CASE Goto(c, "challenge") /\ UNCHANGED <<slots, failedKeys>>
    BY <1>0, <1>8, <2>1, <2>2, GotoTypes, TypeParts
       DEF InitializeDrmSession, SlotTypes, SessionTypes, slots, Inside
  <2>3. CASE SetState(c, "error") /\ Fail(c, "bind", FALSE)
    BY <1>5, <1>6, <1>8, <2>1, <2>3, TypeParts DEF InitializeDrmSession
  <2> QED  BY <1>8, <2>2, <2>3 DEF InitializeDrmSession
<1>9. CASE GenerateKeyRequest(c)
  <2>1. FlagTypes' /\ PlayerTypes'
    BY <1>0, <1>9 DEF GenerateKeyRequest, FlagTypes, PlayerTypes, aborts, player
  <2>2. SessionTypes'
    BY <1>5, <1>9 DEF GenerateKeyRequest
  <2>3. MutexTypes'
    BY <1>0, <1>9 DEF GenerateKeyRequest, MutexTypes
  <2>4. CASE /\ Goto(c, IF config.needsToken /\ ~accessToken THEN "token" ELSE "license")
             /\ UNCHANGED <<cachedKeyIDs, failedKeys>>
    <3>1. SlotTypes'
      BY <1>0, <2>4 DEF SlotTypes
    <3>2. RequestTypes'
      BY <1>0, <2>4, GotoTypes DEF Inside
    <3> QED BY <2>1, <2>2, <2>3, <3>1, <3>2, TypeParts, Zenon
  <2>5. CASE Fail(c, "challenge", FALSE)
    BY <1>6, <2>1, <2>2, <2>3, <2>5, TypeParts
  <2> QED  BY <1>9, <2>4, <2>5 DEF GenerateKeyRequest
<1>10. CASE GetAccessToken(c)
  <2>1. FlagTypes' /\ PlayerTypes' /\ SessionTypes' /\ MutexTypes'
    <3>1. FlagTypes'
      <4>1. /\ UNCHANGED <<config, active, licenseRequestAbort, newTune>>
            /\ accessToken' = TRUE \/ UNCHANGED accessToken
            /\ curlSessionAbort' = FALSE \/ UNCHANGED curlSessionAbort
        BY <1>10, Zenon DEF GetAccessToken, TransferAborted, aborts, player
      <4> QED BY <1>0, <4>1, Zenon DEF FlagTypes
    <3>2. PlayerTypes'
      BY <1>0, <1>10 DEF GetAccessToken, PlayerTypes, player
    <3>3. SessionTypes'
      BY <1>0, <1>10 DEF GetAccessToken, SessionTypes, slots
    <3>4. UNCHANGED sessionMutex \/ ReleaseSession(c)
      BY <1>10, Zenon DEF GetAccessToken
    <3>5. MutexTypes'
      BY <1>0, <1>7, <3>4 DEF MutexTypes
    <3> QED BY <3>1, <3>2, <3>3, <3>5, Zenon
  <2>2. CASE Goto(c, "license") /\ UNCHANGED <<slots, failedKeys>>
    BY <1>0, <2>1, <2>2, GotoTypes, TypeParts DEF SlotTypes, slots, Inside
  <2>3. CASE \E failure, stopped : Fail(c, failure, stopped)
    BY <1>6, <2>1, <2>3, TypeParts
  <2> QED  BY <1>10, <2>2, <2>3 DEF GetAccessToken
<1>11. CASE GetLicense(c)
  <2>1. FlagTypes' /\ PlayerTypes' /\ SessionTypes' /\ MutexTypes'
    <3>1. FlagTypes'
      <4>1. /\ UNCHANGED <<config, active, licenseRequestAbort, newTune>>
            /\ accessToken' = TRUE \/ UNCHANGED accessToken
            /\ curlSessionAbort' = FALSE \/ UNCHANGED curlSessionAbort
        BY <1>11, Zenon DEF GetLicense, TransferAborted, aborts, player
      <4> QED BY <1>0, <4>1, Zenon DEF FlagTypes
    <3>2. PlayerTypes'
      BY <1>0, <1>11 DEF GetLicense, PlayerTypes, player
    <3>3. SessionTypes'
      BY <1>0, <1>11 DEF GetLicense, SessionTypes, slots
    <3>4. UNCHANGED sessionMutex \/ ReleaseSession(c)
      BY <1>11, Zenon DEF GetLicense
    <3>5. MutexTypes'
      BY <1>0, <1>7, <3>4 DEF MutexTypes
    <3> QED BY <3>1, <3>2, <3>3, <3>5, Zenon
  <2>2. CASE Goto(c, "process") /\ UNCHANGED <<slots, failedKeys>>
    BY <1>0, <2>1, <2>2, GotoTypes, TypeParts DEF SlotTypes, slots, Inside
  <2>3. CASE \E failure, stopped : Fail(c, failure, stopped)
    BY <1>6, <2>1, <2>3, TypeParts
  <2> QED  BY <1>11, <2>2, <2>3 DEF GetLicense
<1>12. CASE ProcessLicenseResponse(c)
  <2>1. MutexTypes' /\ FlagTypes' /\ PlayerTypes'
    BY <1>0, <1>12 DEF ProcessLicenseResponse, MutexTypes, FlagTypes, PlayerTypes, aborts, player
  <2>2. CASE SetState(c, "ready") /\ Deliver(c) /\ UNCHANGED <<cachedKeyIDs, failedKeys>>
    <3>1. RequestTypes'
      BY <1>0, <2>2, ReturnTypes DEF Deliver
    <3>2. SessionTypes'
      BY <1>0, <1>12, <2>2 DEF Deliver, SetState, SessionTypes, ProcessLicenseResponse, Uses
    <3> QED  BY <1>0, <2>1, <2>2, <3>1, <3>2, TypeParts DEF SlotTypes
  <2>3. CASE SetState(c, "error") /\ Fail(c, "key", FALSE) /\ UNCHANGED held
    BY <1>5, <1>6, <1>12, <2>1, <2>3, TypeParts DEF ProcessLicenseResponse
  <2>4. CASE Fail(c, "key", FALSE) /\ UNCHANGED <<session, held>>
    BY <1>0, <1>6, <2>1, <2>4, TypeParts DEF SessionTypes
  <2> QED  BY <1>12, <2>2, <2>3, <2>4 DEF ProcessLicenseResponse
<1> QED  BY <1>1, <1>2, <1>3, <1>4, <1>8, <1>9, <1>10, <1>11, <1>12 DEF CallerNext

\* The player's steps keep the types.
LEMMA TypePlayer ==
    ASSUME TypeOK, PlayerNext \/ Tune \/ Stop \/ Seek
    PROVE  TypeOK'
<1>0. /\ SlotTypes /\ SessionTypes /\ MutexTypes /\ RequestTypes /\ FlagTypes /\ PlayerTypes
      /\ NSlots \in Nat
  BY TypeParts, SlotsAssumption DEF SlotsAssumption
<1>1. RequestTypes' /\ MutexTypes' /\ clock' = clock /\ requests' = requests
      /\ UNCHANGED <<config, accessToken>>
  BY <1>0 DEF PlayerNext, Tune, Stop, Seek, ClearDrmSession, ClearSlot, ClearFailedKeyIds,
              SetLicenseRequestAbort, StopStream, JoinLicenseThread, StopSink, callers, locks,
              verdicts, RequestTypes, MutexTypes
<1>2. FlagTypes'
  BY <1>0, <1>1 DEF PlayerNext, Tune, Stop, Seek, ClearDrmSession, ClearSlot, ClearFailedKeyIds,
              SetLicenseRequestAbort, StopStream, JoinLicenseThread, StopSink, aborts, FlagTypes
<1>3. PlayerTypes'
  BY <1>0, <1>1 DEF PlayerNext, Tune, Stop, Seek, ClearDrmSession, ClearSlot, ClearFailedKeyIds,
              SetLicenseRequestAbort, StopStream, JoinLicenseThread, StopSink, PlayerTypes, Slots
<1>4. SlotTypes'
  <2>1. CASE ClearFailedKeyIds
    BY <1>0, <2>1 DEF ClearFailedKeyIds, SlotTypes, FreeSlot
  <2>2. CASE ~ClearFailedKeyIds
    BY <1>0, <2>2 DEF PlayerNext, Tune, Stop, Seek, ClearDrmSession, ClearSlot,
              SetLicenseRequestAbort, StopStream, JoinLicenseThread, StopSink, SlotTypes, slots
  <2> QED  BY <2>1, <2>2
<1>5. SessionTypes'
  <2>1. CASE ClearSlot
    <3>1. slotToClear \in Slots
      BY <1>0, <2>1 DEF ClearSlot, PlayerTypes
    <3>2. session' = [session EXCEPT ![slotToClear] = NoSession] /\ HeldTypes'
      BY <1>0, <2>1, <3>1, DeleteTypes DEF ClearSlot, SessionTypes, HeldTypes
    <3> QED  BY <1>0, <3>1, <3>2 DEF SessionTypes, HeldTypes
  <2>2. CASE ~ClearSlot
    BY <1>0, <2>2 DEF PlayerNext, Tune, Stop, Seek, ClearDrmSession, ClearFailedKeyIds,
              SetLicenseRequestAbort, StopStream, JoinLicenseThread, StopSink, SessionTypes, slots
  <2> QED  BY <2>1, <2>2
<1> QED  BY <1>1, <1>2, <1>3, <1>4, <1>5, TypeParts

LEMMA TypeStutter == TypeOK /\ UNCHANGED vars => TypeOK'
BY TypeParts DEF vars, slots, locks, aborts, player, verdicts, SlotTypes, SessionTypes,
                 MutexTypes, RequestTypes, FlagTypes, PlayerTypes

\* The types hold in every reachable state, for any number of slots and keys.
THEOREM TypeCorrect == Spec => []TypeOK
<1>1. TypeOK /\ [Next]_vars => TypeOK'
  BY TypeCaller, TypePlayer, TypeStutter DEF Next
<1> QED  BY <1>1, TypeInit, PTL DEF Spec

-----------------------------------------------------------------------------
(* The lock, and the content of a slot                                      *)

LEMMA CallerShape ==
    ASSUME TypeOK, NEW c \in Callers, CallerNext(c)
    PROVE  \/ /\ pc[c] = "enter" /\ mDrmSessionLock = Nobody
              /\ pc' = [pc EXCEPT ![c] = "session"] /\ mDrmSessionLock' = c
           \/ /\ (pc[c] = "enter" /\ mDrmSessionLock = Nobody) \/ pc[c] \in Inside
              /\ pc' = [pc EXCEPT ![c] = "idle"] /\ mDrmSessionLock' = Nobody
           \/ /\ pc[c] \in Inside /\ mDrmSessionLock' = mDrmSessionLock
              /\ \E l \in Inside : pc' = [pc EXCEPT ![c] = l]
<1>1. CASE CreateDrmSession(c)
  BY <1>1 DEF CreateDrmSession, UseSlot, Return
<1>2. CASE GetDrmSession(c)
  BY <1>2 DEF GetDrmSession, Return, Deliver, Goto, Inside
<1>3. CASE Crash(c)
  BY <1>3 DEF Crash, Goto, Inside
<1>4. CASE InitializeDrmSession(c)
  BY <1>4 DEF InitializeDrmSession, Return, Fail, Goto, Inside, Uses
<1>5. CASE GenerateKeyRequest(c)
  BY <1>5 DEF GenerateKeyRequest, Return, Fail, Goto, Inside, Uses
<1>6. CASE GetAccessToken(c)
  BY <1>6 DEF GetAccessToken, Return, Fail, Goto, Inside, Uses
<1>7. CASE GetLicense(c)
  BY <1>7 DEF GetLicense, Return, Fail, Goto, Inside, Uses
<1>8. CASE ProcessLicenseResponse(c)
  BY <1>8 DEF ProcessLicenseResponse, Return, Fail, Deliver, Goto, Inside, Uses
<1> QED  BY <1>1, <1>2, <1>3, <1>4, <1>5, <1>6, <1>7, <1>8 DEF CallerNext

\* The steps of callers leave the player alone, and the player's the callers.
LEMMA CallerFrame ==
    ASSUME NEW c \in Callers, CallerNext(c)
    PROVE  UNCHANGED <<config, active, apc, slotToClear, tunes, newTune>>
BY DEF CallerNext, CreateDrmSession, GetDrmSession, Crash, InitializeDrmSession,
       GenerateKeyRequest, GetAccessToken, GetLicense, ProcessLicenseResponse, player

LEMMA PlayerFrame ==
    ASSUME PlayerNext \/ Tune \/ Stop \/ Seek
    PROVE  UNCHANGED <<config, pc, req, mDrmSessionLock, sessionMutex, refusedFresh, noisyStop>>
BY DEF PlayerNext, Tune, Stop, Seek, ClearDrmSession, ClearSlot, ClearFailedKeyIds,
       SetLicenseRequestAbort, StopStream, JoinLicenseThread, StopSink, callers, locks, verdicts

LEMMA LockStep == TypeOK /\ Lock /\ [Next]_vars => Lock'
<1> SUFFICES ASSUME TypeOK, Lock, [Next]_vars PROVE Lock'
  OBVIOUS
<1>0. pc \in [Callers -> {"idle", "enter"} \cup Inside]
  BY TypeParts DEF RequestTypes
<1>1. ASSUME NEW c \in Callers, CallerNext(c) PROVE Lock'
  BY <1>0, <1>1, CallerShape, CallersAssumption DEF Lock, Inside, Callers, CallersAssumption
<1>2. ASSUME NEW c \in Callers, NEW k, Request(c, k) PROVE Lock'
  BY <1>0, <1>2 DEF Request, Lock, Inside, locks
<1>3. CASE PlayerNext \/ Tune \/ Stop \/ Seek
  BY <1>3, PlayerFrame DEF Lock
<1>4. CASE UNCHANGED vars
  BY <1>4 DEF Lock, vars, locks
<1> QED  BY <1>1, <1>2, <1>3, <1>4 DEF Next

LEMMA Alone ==
    ASSUME Lock, NEW c \in Callers, pc[c] \in Inside, NEW d \in Callers, pc[d] \in Inside
    PROVE  c = d
BY DEF Lock

\* Only the choice of a slot and the clearing of the marks change what a slot is for.
LEMMA DataKept ==
    ASSUME TypeOK, [Next]_vars, NEW s \in Slots,
           ~ClearFailedKeyIds, \A c \in Callers : ~CreateDrmSession(c)
    PROVE  cachedKeyIDs'[s].data = cachedKeyIDs[s].data
<1>0. /\ cachedKeyIDs \in [Slots -> [data : SUBSET Keys, failed : BOOLEAN, time : Nat]]
      /\ \A c \in Callers : req[c].slot \in Slots
  BY TypeParts DEF SlotTypes, RequestTypes
<1>1. ASSUME NEW t \in Slots, cachedKeyIDs' = [cachedKeyIDs EXCEPT ![t].failed = TRUE]
      PROVE  cachedKeyIDs'[s].data = cachedKeyIDs[s].data
  BY <1>0, <1>1
<1>2. ASSUME NEW c \in Callers, CallerNext(c)
      PROVE  cachedKeyIDs'[s].data = cachedKeyIDs[s].data
  <2>1. \/ cachedKeyIDs' = cachedKeyIDs
        \/ cachedKeyIDs' = [cachedKeyIDs EXCEPT ![req[c].slot].failed = TRUE]
    BY <1>2 DEF CallerNext, GetDrmSession, Crash, InitializeDrmSession, GenerateKeyRequest,
                GetAccessToken, GetLicense, ProcessLicenseResponse, Fail, MarkFailed, slots
  <2> QED  BY <1>0, <1>1, <2>1
<1>3. ASSUME NEW c \in Callers, NEW k, Request(c, k)
      PROVE  cachedKeyIDs'[s].data = cachedKeyIDs[s].data
  BY <1>3 DEF Request, slots
<1>4. CASE PlayerNext \/ Tune \/ Stop \/ Seek
  BY <1>4 DEF PlayerNext, Tune, Stop, Seek, ClearDrmSession, ClearSlot, SetLicenseRequestAbort,
              StopStream, JoinLicenseThread, StopSink, slots
<1>5. CASE UNCHANGED vars
  BY <1>5 DEF vars, slots
<1> QED  BY <1>2, <1>3, <1>4, <1>5 DEF Next

LEMMA ContentsStep == TypeOK /\ Contents /\ [Next]_vars => Contents'
<1> SUFFICES ASSUME TypeOK, Contents, [Next]_vars PROVE Contents'
  OBVIOUS
<1>0. cachedKeyIDs \in [Slots -> [data : SUBSET Keys, failed : BOOLEAN, time : Nat]]
  BY TypeParts DEF SlotTypes
<1>1. ASSUME NEW c \in Callers, CreateDrmSession(c) PROVE Contents'
  <2> DEFINE s == SelectSlot(req[c].key)
  <2>1. s \in Slots /\ req[c].key \in Keys
    BY SelectSlotIn, TypeParts DEF RequestTypes
  <2>2. CASE UNCHANGED cachedKeyIDs
    BY <2>2 DEF Contents
  <2>3. CASE UseSlot(c, s)
    <3>1. \A t \in Slots : \/ cachedKeyIDs'[t].data = cachedKeyIDs[t].data
                           \/ cachedKeyIDs'[t].data = KeySet[req[c].key]
      BY <1>0, <2>1, <2>3 DEF UseSlot
    <3>2. \A k \in KeySet[req[c].key] : KeySet[k] = KeySet[req[c].key]
      BY <2>1, KeysAssumption DEF KeysAssumption
    <3> QED  BY <3>1, <3>2 DEF Contents
  <2> QED  BY <1>1, <2>2, <2>3 DEF CreateDrmSession
<1>2. CASE ClearFailedKeyIds
  BY <1>0, <1>2 DEF ClearFailedKeyIds, Contents, FreeSlot
<1>3. CASE ~ClearFailedKeyIds /\ \A c \in Callers : ~CreateDrmSession(c)
  BY <1>3, DataKept DEF Contents
<1> QED  BY <1>1, <1>2, <1>3

\* DASH: the joins of a stop or a seek leave no request behind.
LEMMA QuietStep ==
    ASSUME TypeOK, Quiet, ~config.hls, [Next]_vars
    PROVE  Quiet'
<1>0. pc \in [Callers -> {"idle", "enter"} \cup Inside] /\ active \in BOOLEAN
  BY TypeParts DEF RequestTypes, FlagTypes
<1>1. ASSUME NEW c \in Callers, CallerNext(c) PROVE Quiet'
  <2>1. pc[c] # "idle"
    BY <1>1, CallerShape DEF Inside
  <2>2. apc \notin {"clear", "delete", "stopped"} /\ (apc = "sink" => c # License)
    BY <2>1 DEF Quiet
  <2>3. \A d \in Callers : d # c => pc'[d] = pc[d]
    BY <1>0, <1>1, CallerShape
  <2> QED  BY <1>1, <2>2, <2>3, CallerFrame DEF Quiet, Callers
<1>2. ASSUME NEW c \in Callers, NEW k, Request(c, k) PROVE Quiet'
  BY <1>0, <1>2 DEF Request, Quiet, player, Callers
<1>3. CASE PlayerNext \/ Tune \/ Stop \/ Seek
  BY <1>0, <1>3, PlayerFrame
     DEF Quiet, PlayerNext, Tune, Stop, Seek, ClearDrmSession, ClearSlot, ClearFailedKeyIds,
         SetLicenseRequestAbort, StopStream, JoinLicenseThread, StopSink, Callers
<1>4. CASE UNCHANGED vars
  BY <1>4 DEF Quiet, vars, player
<1> QED  BY <1>1, <1>2, <1>3, <1>4 DEF Next

-----------------------------------------------------------------------------
(* The slot and the session of a request                                    *)

DashInv == Quiet /\ HasSession /\ Belongs /\ Failures

\* What a request inside knows of its slot.
LEMMA Known ==
    ASSUME TypeOK, Contents, HasSession, NEW c \in Callers, pc[c] \in Working \cup {"session"}
    PROVE  /\ req[c].slot \in Slots /\ req[c].key \in Keys
           /\ req[c].key \in cachedKeyIDs[req[c].slot].data
           /\ cachedKeyIDs[req[c].slot].data = KeySet[req[c].key]
BY TypeParts DEF RequestTypes, HasSession, Contents

\* The end of a request.
Ends(c) == pc' = [pc EXCEPT ![c] = "idle"] /\ req' = [req EXCEPT ![c] = NoRequest]

\* The steps of a request that has its session: it goes on, fails or has the license.
LEMMA WorkShape ==
    ASSUME TypeOK, Lock, HasSession, NEW c \in Callers,
           \/ Crash(c) \/ InitializeDrmSession(c) \/ GenerateKeyRequest(c)
           \/ GetAccessToken(c) \/ GetLicense(c) \/ ProcessLicenseResponse(c)
    PROVE  /\ pc[c] \in Working
           /\ \A s \in Slots : /\ session'[s].key = session[s].key
                               /\ s # req[c].slot => session'[s] = session[s]
           /\ refusedFresh' = refusedFresh
           /\ \/ /\ \E l \in Working : pc' = [pc EXCEPT ![c] = l]
                 /\ UNCHANGED <<req, cachedKeyIDs, failedKeys>>
              \/ Ends(c) /\ MarkFailed(c)
              \/ /\ Ends(c) /\ UNCHANGED <<cachedKeyIDs, failedKeys>>
                 /\ session'[req[c].slot].state = "ready"
<1>0. /\ req[c].slot \in Slots /\ req[c].key \in Keys
      /\ session \in [Slots -> {NoSession} \cup
                     [key : Keys, state : {"init", "pending", "ready", "error"}]]
      /\ refusedFresh \in BOOLEAN
  BY TypeParts DEF RequestTypes, SessionTypes
<1>1. ASSUME NEW state, SetState(c, state), session[req[c].slot] # NoSession
      PROVE  /\ \A s \in Slots : /\ session'[s].key = session[s].key
                                 /\ s # req[c].slot => session'[s] = session[s]
             /\ session'[req[c].slot].state = state
  BY <1>0, <1>1 DEF SetState
<1>2. ASSUME NEW failure \in {"none", "bind", "challenge", "token", "license", "key", "selfAbort"},
             NEW stopped, Return(c, failure, stopped)
      PROVE  Ends(c) /\ refusedFresh' = refusedFresh
  BY <1>0, <1>2 DEF Return, Ends
<1>3. ASSUME NEW failure \in {"none", "bind", "challenge", "token", "license", "key", "selfAbort"},
             NEW stopped, Fail(c, failure, stopped)
      PROVE  Ends(c) /\ refusedFresh' = refusedFresh /\ MarkFailed(c)
  BY <1>2, <1>3 DEF Fail
<1>4. ASSUME NEW l \in Working, Goto(c, l)
      PROVE  pc' = [pc EXCEPT ![c] = l] /\ req' = req /\ refusedFresh' = refusedFresh
  BY <1>4 DEF Goto, verdicts
<1>5. ~Crash(c)
  <2>1. SUFFICES ASSUME Crash(c) PROVE FALSE
    OBVIOUS
  <2>2. session[req[c].slot].key \in KeySet[req[c].key] /\ session[req[c].slot].key = "none"
    BY <2>1 DEF Crash, HasSession, Working, NoSession
  <2> QED  BY <1>0, <2>2, KeysAssumption DEF KeysAssumption
<1>6. CASE InitializeDrmSession(c)
  BY <1>1, <1>3, <1>4, <1>6 DEF InitializeDrmSession, Uses, Working, slots
<1>7. CASE GenerateKeyRequest(c)
  BY <1>1, <1>3, <1>4, <1>7 DEF GenerateKeyRequest, Uses, Working
<1>8. CASE GetAccessToken(c)
  BY <1>3, <1>4, <1>8 DEF GetAccessToken, Uses, Working, slots
<1>9. CASE GetLicense(c)
  BY <1>3, <1>4, <1>9 DEF GetLicense, Uses, Working, slots
<1>10. CASE ProcessLicenseResponse(c)
  <2>1. CASE SetState(c, "ready") /\ Deliver(c) /\ UNCHANGED <<cachedKeyIDs, failedKeys>>
    BY <1>1, <1>2, <1>10, <2>1 DEF ProcessLicenseResponse, Deliver, Uses, Working
  <2>2. CASE SetState(c, "error") /\ Fail(c, "key", FALSE)
    BY <1>1, <1>3, <1>10, <2>2 DEF ProcessLicenseResponse, Uses, Working
  <2>3. CASE Fail(c, "key", FALSE) /\ UNCHANGED session
    BY <1>3, <1>10, <2>3 DEF ProcessLicenseResponse, Uses, Working
  <2> QED  BY <1>10, <2>1, <2>2, <2>3 DEF ProcessLicenseResponse
<1> QED  BY <1>5, <1>6, <1>7, <1>8, <1>9, <1>10

\* The hypotheses of the steps below: a caller that is not idle in a stream of DASH.
Dash == TypeOK /\ Lock /\ Contents /\ DashInv /\ ~config.hls

LEMMA Playing ==
    ASSUME Dash, NEW c \in Callers, pc[c] # "idle"
    PROVE  apc \in {"play", "abort", "halt", "join", "sink"} /\ req[c].tune = tunes
BY TypeParts DEF Dash, DashInv, Quiet, Failures, Current, PlayerTypes

LEMMA WorkStep ==
    ASSUME Dash, NEW c \in Callers, CallerNext(c),
           ~CreateDrmSession(c), ~GetDrmSession(c)
    PROVE  HasSession' /\ Belongs' /\ Failures'
<1> DEFINE s == req[c].slot
<1> USE DEF Dash, DashInv
<1>0. /\ pc \in [Callers -> {"idle", "enter"} \cup Inside]
      /\ req \in [Callers -> [key : Keys, slot : Slots, tune : Nat]]
      /\ cachedKeyIDs \in [Slots -> [data : SUBSET Keys, failed : BOOLEAN, time : Nat]]
      /\ session \in [Slots -> {NoSession} \cup
                     [key : Keys, state : {"init", "pending", "ready", "error"}]]
      /\ refusedFresh \in BOOLEAN
  BY TypeParts DEF RequestTypes, SlotTypes, SessionTypes
<1>1. /\ pc[c] \in Working
      /\ \A t \in Slots : /\ session'[t].key = session[t].key
                          /\ t # s => session'[t] = session[t]
      /\ refusedFresh' = refusedFresh
      /\ \/ /\ \E l \in Working : pc' = [pc EXCEPT ![c] = l]
            /\ UNCHANGED <<req, cachedKeyIDs, failedKeys>>
         \/ Ends(c) /\ MarkFailed(c)
         \/ /\ Ends(c) /\ UNCHANGED <<cachedKeyIDs, failedKeys>>
            /\ session'[s].state = "ready"
  BY WorkShape DEF CallerNext
<1>2. \A d \in Callers : d # c => pc[d] \notin Inside /\ pc'[d] = pc[d] /\ req'[d] = req[d]
  BY <1>0, <1>1, Alone DEF Inside, Working, Ends
<1>3. /\ s \in Slots /\ req[c].key \in cachedKeyIDs[s].data
      /\ cachedKeyIDs[s].data = KeySet[req[c].key]
  BY <1>1, Known
<1>4. apc \in {"play", "abort", "halt", "join", "sink"} /\ req[c].tune = tunes
  BY <1>1, Playing DEF Working
<1>5. UNCHANGED <<apc, slotToClear, tunes>>
  BY CallerFrame
<1>6. /\ \A t \in Slots : /\ cachedKeyIDs'[t].data = cachedKeyIDs[t].data
                          /\ t # s => cachedKeyIDs'[t] = cachedKeyIDs[t]
      /\ failedKeys \subseteq failedKeys'
  BY <1>0, <1>1, <1>3, <1>4 DEF MarkFailed
<1>7. HasSession'
  BY <1>0, <1>1, <1>2, <1>3, <1>6 DEF HasSession, Ends, Working, Inside
<1>8. Belongs'
  BY <1>0, <1>1, <1>2, <1>6 DEF Belongs, Ends, Working, Inside
<1>9. \A t \in Slots : t # s => /\ Tainted(t)' = Tainted(t)
                                /\ ~AtWork(t)
  BY <1>1, <1>2, <1>6 DEF Tainted, AtWork, Working, Inside
<1>10. Marked' /\ Cleared'
  <2>1. CASE \E l \in Working : pc' = [pc EXCEPT ![c] = l] /\ UNCHANGED <<req, cachedKeyIDs, failedKeys>>
    <3>1. AtWork(s)'
      BY <1>0, <2>1 DEF AtWork
    <3>2. cachedKeyIDs[s].failed => Tainted(s)
      BY DEF Tainted
    <3> QED  BY <1>3, <1>4, <1>5, <1>9, <2>1, <3>1, <3>2 DEF Failures, Marked, Cleared
  <2>2. CASE Ends(c) /\ MarkFailed(c)
    <3>1. cachedKeyIDs'[s].failed /\ cachedKeyIDs'[s].data \subseteq failedKeys'
      BY <1>0, <1>3, <1>4, <2>2 DEF MarkFailed
    <3> QED  BY <1>4, <1>5, <1>6, <1>9, <3>1 DEF Failures, Marked, Cleared
  <2>3. CASE Ends(c) /\ UNCHANGED <<cachedKeyIDs, failedKeys>> /\ session'[s].state = "ready"
    <3>1. \A t \in Slots : t = s /\ Tainted(t)' => cachedKeyIDs[t].failed /\ Tainted(t)
      BY <2>3 DEF Tainted
    <3> QED  BY <1>4, <1>5, <1>6, <1>9, <2>3, <3>1 DEF Failures, Marked, Cleared
  <2> QED  BY <1>1, <2>1, <2>2, <2>3
<1>11. Current' /\ ~refusedFresh'
  BY <1>0, <1>1, <1>2, <1>4, <1>5 DEF Failures, Current, Ends
<1> QED  BY <1>7, <1>8, <1>10, <1>11 DEF Failures

LEMMA GetStep ==
    ASSUME Dash, NEW c \in Callers, GetDrmSession(c)
    PROVE  HasSession' /\ Belongs' /\ Failures'
<1> DEFINE s == req[c].slot
<1> USE DEF Dash, DashInv
<1>0. /\ pc \in [Callers -> {"idle", "enter"} \cup Inside]
      /\ req \in [Callers -> [key : Keys, slot : Slots, tune : Nat]]
      /\ cachedKeyIDs \in [Slots -> [data : SUBSET Keys, failed : BOOLEAN, time : Nat]]
      /\ session \in [Slots -> {NoSession} \cup
                     [key : Keys, state : {"init", "pending", "ready", "error"}]]
      /\ refusedFresh \in BOOLEAN
      /\ pc[c] = "session"
  BY TypeParts DEF RequestTypes, SlotTypes, SessionTypes, GetDrmSession
<1>1. \A d \in Callers : d # c => pc[d] \notin Inside
  BY <1>0, Alone DEF Inside
<1>2. /\ s \in Slots /\ req[c].key \in cachedKeyIDs[s].data /\ req[c].key \in Keys
      /\ cachedKeyIDs[s].data = KeySet[req[c].key]
  BY <1>0, Known
<1>3. apc \in {"play", "abort", "halt", "join", "sink"} /\ req[c].tune = tunes
  BY <1>0, Playing
<1>4. UNCHANGED <<apc, slotToClear, tunes>>
  BY CallerFrame DEF CallerNext
<1>5. \A t \in Slots : ~AtWork(t)
  BY <1>0, <1>1 DEF AtWork, Working, Inside
<1>6. CASE Deliver(c) /\ UNCHANGED <<slots, failedKeys>> /\ session[s].key \in cachedKeyIDs[s].data
  <2>1. Ends(c) /\ refusedFresh' = refusedFresh
    BY <1>0, <1>6 DEF Deliver, Return, Ends
  <2>2. \A t \in Slots : ~AtWork(t)' /\ Tainted(t)' = Tainted(t)
    BY <1>0, <1>1, <1>6, <2>1 DEF AtWork, Working, Inside, Ends, Tainted, slots
  <2>3. HasSession' /\ Belongs'
    BY <1>0, <1>1, <1>6, <2>1 DEF HasSession, Belongs, Working, Inside, Ends, slots
  <2>4. Marked' /\ Cleared' /\ Current'
    BY <1>0, <1>4, <1>5, <1>6, <2>1, <2>2 DEF Failures, Marked, Cleared, Current, Ends, slots
  <2> QED  BY <2>1, <2>3, <2>4 DEF Failures
<1>7. CASE /\ session[s].key \in cachedKeyIDs[s].data /\ session[s].state \in {"pending", "error"}
           /\ cachedKeyIDs' = [cachedKeyIDs EXCEPT ![s].failed = TRUE]
           /\ Return(c, "refused", FALSE) /\ UNCHANGED <<session, held, failedKeys>>
  <2>1. Tainted(s) /\ cachedKeyIDs[s].data \subseteq failedKeys
    BY <1>2, <1>3, <1>5, <1>7 DEF Tainted, Failures, Marked
  <2>2. Ends(c) /\ ~refusedFresh'
    BY <1>2, <1>7, <2>1 DEF Return, Ends, Failures
  <2>3. \A t \in Slots : /\ cachedKeyIDs'[t].data = cachedKeyIDs[t].data
                         /\ t # s => cachedKeyIDs'[t] = cachedKeyIDs[t]
    BY <1>0, <1>7
  <2>4. \A t \in Slots : ~AtWork(t)' /\ (t # s => Tainted(t)' = Tainted(t))
    BY <1>0, <1>1, <1>7, <2>2, <2>3 DEF AtWork, Working, Inside, Ends, Tainted
  <2>5. HasSession' /\ Belongs'
    BY <1>0, <1>1, <1>7, <2>2, <2>3 DEF HasSession, Belongs, Working, Inside, Ends
  <2>6. cachedKeyIDs'[s].failed
    BY <1>0, <1>2, <1>7
  <2>7. Marked' /\ Cleared'
    BY <1>3, <1>4, <1>5, <1>7, <2>1, <2>3, <2>4, <2>6 DEF Failures, Marked, Cleared
  <2>8. Current'
    BY <1>0, <1>4, <2>2 DEF Failures, Current, Ends
  <2> QED  BY <2>2, <2>5, <2>7, <2>8 DEF Failures
<1>8. CASE Goto(c, "init") /\ UNCHANGED <<slots, failedKeys>> /\ session[s].key \in cachedKeyIDs[s].data
  <2>1. pc' = [pc EXCEPT ![c] = "init"] /\ UNCHANGED <<req, refusedFresh>>
    BY <1>8 DEF Goto, verdicts
  <2>2. \A t \in Slots : Tainted(t)' = Tainted(t)
    BY <1>8 DEF Tainted, slots
  <2>3. HasSession' /\ Belongs'
    BY <1>0, <1>1, <1>2, <1>8, <2>1 DEF HasSession, Belongs, Working, Inside, slots
  <2>4. Marked' /\ Cleared' /\ Current'
    BY <1>0, <1>4, <1>5, <1>8, <2>1, <2>2 DEF Failures, Marked, Cleared, Current, slots
  <2> QED  BY <2>1, <2>3, <2>4 DEF Failures
<1>9. CASE /\ session' = [session EXCEPT ![s] = [key |-> req[c].key, state |-> "init"]]
           /\ Goto(c, "init") /\ UNCHANGED <<cachedKeyIDs, failedKeys>>
  <2>1. pc' = [pc EXCEPT ![c] = "init"] /\ UNCHANGED <<req, refusedFresh>>
    BY <1>9 DEF Goto, verdicts
  <2>2. session'[s].key = req[c].key /\ session'[s].state = "init"
    BY <1>0, <1>2, <1>9
  <2>3. \A t \in Slots : t # s => session'[t] = session[t]
    BY <1>0, <1>9
  <2>4. \A t \in Slots : Tainted(t)' => Tainted(t) /\ (t = s => cachedKeyIDs[t].failed)
    BY <1>9, <2>2, <2>3 DEF Tainted
  <2>5. HasSession' /\ Belongs'
    BY <1>0, <1>1, <1>2, <1>9, <2>1, <2>2, <2>3 DEF HasSession, Belongs, Working, Inside
  <2>6. Marked' /\ Cleared'
    BY <1>3, <1>4, <1>5, <1>9, <2>4 DEF Failures, Marked, Cleared
  <2>7. Current'
    BY <1>0, <1>4, <2>1 DEF Failures, Current
  <2> QED  BY <2>1, <2>5, <2>6, <2>7 DEF Failures
<1> QED  BY <1>6, <1>7, <1>8, <1>9 DEF GetDrmSession

LEMMA CreateKeeps ==
    ASSUME Dash, NEW c \in Callers, CreateDrmSession(c)
    PROVE  HasSession' /\ Belongs' /\ Failures'
<1> DEFINE k == req[c].key
           s == SelectSlot(k)
<1> USE DEF Dash, DashInv
<1>0. /\ pc \in [Callers -> {"idle", "enter"} \cup Inside]
      /\ req \in [Callers -> [key : Keys, slot : Slots, tune : Nat]]
      /\ cachedKeyIDs \in [Slots -> [data : SUBSET Keys, failed : BOOLEAN, time : Nat]]
      /\ session \in [Slots -> {NoSession} \cup
                     [key : Keys, state : {"init", "pending", "ready", "error"}]]
      /\ refusedFresh \in BOOLEAN
      /\ pc[c] = "enter" /\ mDrmSessionLock = Nobody
  BY TypeParts DEF RequestTypes, SlotTypes, SessionTypes, CreateDrmSession
<1>1. \A d \in Callers : pc[d] \notin Inside
  BY <1>0, CallersAssumption DEF Lock, CallersAssumption, Callers
<1>2. apc \in {"play", "abort", "halt", "join", "sink"} /\ req[c].tune = tunes
  BY <1>0, Playing
<1>3. UNCHANGED <<apc, slotToClear, tunes, session, failedKeys>>
  BY CallerFrame DEF CallerNext, CreateDrmSession
<1>4. \A t \in Slots : ~AtWork(t)
  BY <1>1 DEF AtWork, Working, Inside
<1>5. /\ k \in Keys /\ s \in Slots
      /\ CachedSlots(k) # {} => k \in cachedKeyIDs[s].data
  BY <1>0, SelectSlotIn DEF CachedSlots
<1>6. ASSUME NEW failure, NEW stopped, Return(c, failure, stopped), UNCHANGED cachedKeyIDs,
             ~refusedFresh'
      PROVE  HasSession' /\ Belongs' /\ Failures'
  <2>1. Ends(c)
    BY <1>6 DEF Return, Ends
  <2>2. \A t \in Slots : ~AtWork(t)' /\ Tainted(t)' = Tainted(t)
    BY <1>0, <1>1, <1>3, <1>6, <2>1 DEF AtWork, Working, Inside, Ends, Tainted
  <2>3. HasSession' /\ Belongs'
    BY <1>0, <1>1, <1>3, <1>6, <2>1 DEF HasSession, Belongs, Working, Inside, Ends
  <2>4. Marked' /\ Cleared' /\ Current'
    BY <1>0, <1>3, <1>4, <1>6, <2>1, <2>2 DEF Failures, Marked, Cleared, Current, Ends
  <2> QED  BY <1>6, <2>3, <2>4 DEF Failures
<1>7. CASE Return(c, "unknown", TRUE) /\ UNCHANGED cachedKeyIDs
  <2>1. ~refusedFresh'
    BY <1>7 DEF Return, Failures
  <2> QED  BY <1>6, <1>7, <2>1
<1>8. CASE /\ CachedSlots(k) # {} /\ cachedKeyIDs[s].failed
           /\ Return(c, "refused", FALSE) /\ UNCHANGED cachedKeyIDs
  <2>1. k \in failedKeys
    BY <1>2, <1>5, <1>8 DEF Failures, Marked, Tainted
  <2>2. ~refusedFresh'
    BY <1>8, <2>1 DEF Return, Failures
  <2> QED  BY <1>6, <1>8, <2>2
<1>9. CASE UseSlot(c, s) /\ ~(CachedSlots(k) # {} /\ cachedKeyIDs[s].failed)
  <2>1. /\ pc' = [pc EXCEPT ![c] = "session"] /\ req' = [req EXCEPT ![c].slot = s]
        /\ ~refusedFresh'
    BY <1>9 DEF UseSlot, verdicts, Failures
  <2>2. /\ \A t \in Slots : t # s => cachedKeyIDs'[t] = cachedKeyIDs[t]
        /\ ~cachedKeyIDs'[s].failed
        /\ cachedKeyIDs'[s].data =
              IF CachedSlots(k) # {} THEN cachedKeyIDs[s].data ELSE KeySet[k]
    BY <1>0, <1>5, <1>9 DEF UseSlot
  <2>3. req'[c].slot = s /\ req'[c].key = k /\ pc'[c] = "session" /\ req'[c].tune = tunes
        /\ \A d \in Callers : d # c => pc'[d] = pc[d] /\ req'[d] = req[d]
    BY <1>0, <1>2, <1>5, <2>1
  <2>4. k \in cachedKeyIDs'[s].data
    BY <1>5, <2>2, KeysAssumption DEF KeysAssumption
  <2>5. HasSession'
    BY <1>1, <2>3, <2>4 DEF HasSession, Working, Inside
  <2>6. Belongs'
    BY <1>0, <1>1, <1>3, <2>2, <2>3 DEF Belongs, Inside
  <2>7. ASSUME NEW t \in Slots, Tainted(t)'
        PROVE  /\ Tainted(t)
               /\ \/ cachedKeyIDs'[t] = cachedKeyIDs[t]
                  \/ /\ t = s /\ cachedKeyIDs'[t].data = cachedKeyIDs[t].data
                     /\ ~cachedKeyIDs[t].failed
    <3>1. CASE t # s
      BY <1>3, <2>2, <2>7, <3>1 DEF Tainted
    <3>2. CASE t = s /\ CachedSlots(k) # {}
      BY <1>3, <1>9, <2>2, <2>7, <3>2 DEF Tainted
    <3>3. CASE t = s /\ CachedSlots(k) = {}
      <4>1. session[s].key \in KeySet[k]
        BY <1>3, <2>2, <2>7, <3>3 DEF Tainted
      <4>2. session[s].key # "none" /\ k \in KeySet[session[s].key]
        BY <1>5, <4>1, KeysAssumption DEF KeysAssumption
      <4>3. session[s].key \in cachedKeyIDs[s].data
        BY <1>1, <1>5, <4>2 DEF Belongs, Inside
      <4>4. k \in cachedKeyIDs[s].data
        BY <1>5, <4>2, <4>3 DEF Contents
      <4> QED  BY <1>5, <3>3, <4>4 DEF CachedSlots
    <3> QED  BY <3>1, <3>2, <3>3
  <2>8. \A t \in Slots : Tainted(t)' => cachedKeyIDs[t].failed
    BY <1>4, <2>7 DEF Failures, Cleared
  <2>9. Marked' /\ Cleared'
    BY <1>2, <1>3, <1>4, <2>2, <2>7, <2>8 DEF Failures, Marked, Cleared, Tainted
  <2>10. Current'
    BY <1>3, <2>3 DEF Failures, Current
  <2> QED  BY <2>1, <2>5, <2>6, <2>9, <2>10 DEF Failures
<1> QED  BY <1>7, <1>8, <1>9 DEF CreateDrmSession

LEMMA RequestKeeps ==
    ASSUME Dash, NEW c \in Callers, NEW k, Request(c, k)
    PROVE  HasSession' /\ Belongs' /\ Failures'
<1> USE DEF Dash, DashInv
<1>0. /\ pc \in [Callers -> {"idle", "enter"} \cup Inside]
      /\ req \in [Callers -> [key : Keys, slot : Slots, tune : Nat]]
  BY TypeParts DEF RequestTypes
<1>1. /\ pc[c] = "idle" /\ pc' = [pc EXCEPT ![c] = "enter"]
      /\ req' = [req EXCEPT ![c] = NewRequest(k, tunes)]
      /\ UNCHANGED <<cachedKeyIDs, session, apc, slotToClear, tunes, failedKeys, refusedFresh>>
  BY DEF Request, slots, player, verdicts
<1>2. /\ \A d \in Callers : d # c => pc'[d] = pc[d] /\ req'[d] = req[d]
      /\ pc'[c] = "enter" /\ req'[c].tune = tunes
  BY <1>0, <1>1 DEF NewRequest
<1>3. HasSession' /\ Belongs'
  BY <1>1, <1>2 DEF HasSession, Belongs, Working
<1>4. \A t \in Slots : Tainted(t)' = Tainted(t) /\ AtWork(t)' = AtWork(t)
  BY <1>1, <1>2 DEF Tainted, AtWork, Working
<1>5. Marked' /\ Cleared' /\ Current'
  BY <1>1, <1>2, <1>4 DEF Failures, Marked, Cleared, Current
<1> QED  BY <1>1, <1>3, <1>5 DEF Failures

LEMMA PlayerKeeps ==
    ASSUME Dash, PlayerNext \/ Tune \/ Stop \/ Seek
    PROVE  HasSession' /\ Belongs' /\ Failures'
<1> USE DEF Dash, DashInv
<1>0. /\ cachedKeyIDs \in [Slots -> [data : SUBSET Keys, failed : BOOLEAN, time : Nat]]
      /\ session \in [Slots -> {NoSession} \cup
                     [key : Keys, state : {"init", "pending", "ready", "error"}]]
      /\ slotToClear \in 1 .. NSlots + 1 /\ (apc = "delete" => slotToClear \in Slots)
      /\ Slots = 1 .. NSlots /\ NSlots \in Nat
  BY TypeParts, SlotsAssumption DEF SlotTypes, SessionTypes, PlayerTypes, Slots, SlotsAssumption
<1>1. UNCHANGED <<config, pc, req, refusedFresh>>
  BY PlayerFrame
<1>2. \A t \in Slots : AtWork(t)' = AtWork(t)
  BY <1>1 DEF AtWork
<1>3. ASSUME UNCHANGED <<cachedKeyIDs, session, failedKeys>>, tunes' = tunes \/ apc = "sink" \/ apc = "stopped",
             apc \in {"clear", "delete"} \/ apc' \notin {"clear", "delete"} \/ slotToClear' = 1,
             apc' \in {"clear", "delete"} =>
                 \A t \in Slots : t < slotToClear' /\ cachedKeyIDs[t].failed => session[t] = NoSession,
             apc' \in {"play", "abort", "halt", "join", "sink"} =>
                 apc \in {"play", "abort", "halt", "join", "sink"},
             tunes' # tunes => \A c \in Callers : pc[c] = "idle"
      PROVE  HasSession' /\ Belongs' /\ Failures'
  <2>1. HasSession' /\ Belongs'
    BY <1>1, <1>3 DEF HasSession, Belongs
  <2>2. \A t \in Slots : Tainted(t)' = Tainted(t)
    BY <1>3 DEF Tainted
  <2>3. Marked' /\ Cleared'
    BY <1>2, <1>3, <2>2 DEF Failures, Marked, Cleared
  <2>4. Current' /\ ~refusedFresh'
    BY <1>1, <1>3 DEF Failures, Current
  <2> QED  BY <2>1, <2>3, <2>4 DEF Failures
<1>4. CASE Stop \/ SetLicenseRequestAbort \/ Seek \/ StopStream \/ JoinLicenseThread
  BY <1>3, <1>4 DEF Stop, SetLicenseRequestAbort, Seek, StopStream, JoinLicenseThread, slots
<1>5. CASE Tune
  <2>1. \A c \in Callers : pc[c] = "idle"
    BY <1>5 DEF Tune, Quiet
  <2> QED  BY <1>0, <1>3, <1>5, <2>1 DEF Tune, slots
<1>6. CASE StopSink
  <2>1. \A c \in Callers : pc[c] = "idle"
    BY <1>6 DEF StopSink, Quiet, Callers
  <2> QED  BY <1>0, <1>3, <1>6, <2>1 DEF StopSink, slots
<1>7. CASE ClearDrmSession
  <2>1. UNCHANGED <<cachedKeyIDs, session, failedKeys, tunes>> /\ apc = "clear"
        /\ apc' \in {"clear", "delete"}
    BY <1>7 DEF ClearDrmSession, slots
  <2>2. \A t \in Slots : t < slotToClear' /\ cachedKeyIDs[t].failed => session[t] = NoSession
    BY <1>0, <1>7, <2>1 DEF ClearDrmSession, Failures, Cleared
  <2> QED  BY <1>3, <2>1, <2>2
<1>8. CASE ClearSlot
  <2>1. /\ session' = [session EXCEPT ![slotToClear] = NoSession] /\ slotToClear' = slotToClear + 1
        /\ UNCHANGED <<cachedKeyIDs, failedKeys, tunes>> /\ apc = "delete" /\ apc' = "clear"
    BY <1>8 DEF ClearSlot
  <2>2. \A c \in Callers : pc[c] = "idle"
    BY <2>1 DEF Quiet
  <2>3. /\ session'[slotToClear] = NoSession
        /\ \A t \in Slots : t # slotToClear => session'[t] = session[t]
    BY <1>0, <2>1
  <2>4. HasSession'
    BY <1>1, <2>2 DEF HasSession, Working
  <2>5. Belongs'
    BY <1>1, <2>1, <2>3 DEF Belongs, NoSession
  <2>6. \A t \in Slots : Tainted(t)' => Tainted(t)
    BY <2>1, <2>3 DEF Tainted, NoSession
  <2>7. Marked' /\ Cleared'
    BY <1>0, <1>2, <2>1, <2>3, <2>6 DEF Failures, Marked, Cleared
  <2>8. Current' /\ ~refusedFresh'
    BY <1>1, <2>1 DEF Failures, Current
  <2> QED  BY <2>4, <2>5, <2>7, <2>8 DEF Failures
<1>9. CASE ClearFailedKeyIds
  <2>1. /\ cachedKeyIDs' = [t \in Slots |-> IF cachedKeyIDs[t].failed THEN FreeSlot ELSE cachedKeyIDs[t]]
        /\ UNCHANGED <<session, tunes>> /\ apc = "clear" /\ apc' = "play" /\ slotToClear > NSlots
    BY <1>9 DEF ClearFailedKeyIds
  <2>2. \A c \in Callers : pc[c] = "idle"
    BY <2>1 DEF Quiet
  <2>3. \A t \in Slots : cachedKeyIDs[t].failed => session[t] = NoSession
    BY <1>0, <2>1 DEF Failures, Cleared
  <2>4. \A t \in Slots : ~AtWork(t)
    BY <2>2 DEF AtWork, Working
  <2>5. HasSession'
    BY <1>1, <2>2 DEF HasSession, Working
  <2>6. Belongs'
    BY <2>1, <2>2, <2>3 DEF Belongs, NoSession
  <2>7. ASSUME NEW t \in Slots PROVE ~Tainted(t)'
    <3>1. CASE cachedKeyIDs[t].failed
      BY <2>1, <3>1 DEF Tainted, FreeSlot
    <3>2. CASE ~cachedKeyIDs[t].failed
      <4>1. ~Tainted(t)
        BY <2>4, <3>2 DEF Failures, Cleared
      <4> QED  BY <2>1, <3>2, <4>1 DEF Tainted
    <3> QED  BY <3>1, <3>2
  <2>8. Marked' /\ Cleared'
    BY <2>1, <2>7 DEF Marked, Cleared
  <2>9. Current' /\ ~refusedFresh'
    BY <1>1, <2>1 DEF Failures, Current
  <2> QED  BY <2>5, <2>6, <2>8, <2>9 DEF Failures
<1> QED  BY <1>4, <1>5, <1>6, <1>7, <1>8, <1>9 DEF PlayerNext

LEMMA DashStep ==
    ASSUME Dash, [Next]_vars
    PROVE  DashInv'
<1>1. Quiet'
  BY QuietStep DEF Dash, DashInv
<1>2. ASSUME NEW c \in Callers, CallerNext(c) PROVE HasSession' /\ Belongs' /\ Failures'
  BY <1>2, CreateKeeps, GetStep, WorkStep
<1>3. CASE UNCHANGED vars
  <2>1. UNCHANGED <<cachedKeyIDs, session, pc, req, apc, slotToClear, tunes, failedKeys, refusedFresh>>
    BY <1>3 DEF vars, slots, player, verdicts
  <2>2. HasSession' /\ Belongs'
    BY <2>1 DEF Dash, DashInv, HasSession, Belongs
  <2>3. \A t \in Slots : Tainted(t)' = Tainted(t) /\ AtWork(t)' = AtWork(t)
    BY <2>1 DEF Tainted, AtWork
  <2>4. Failures'
    BY <2>1, <2>3 DEF Dash, DashInv, Failures, Marked, Cleared, Current
  <2> QED  BY <1>1, <2>2, <2>4 DEF DashInv
<1> QED  BY <1>1, <1>2, <1>3, RequestKeeps, PlayerKeeps DEF Next, DashInv

-----------------------------------------------------------------------------
(* The theorems                                                             *)

DashSafe == ~config.hls => DashInv /\ Silence

SafeInv == TypeOK /\ Lock /\ Contents /\ DashSafe

\* With no token to fetch, only an abort of Stop or an inactive manager ends a request
\* of the licence thread, and the manager is inactive only when the thread is gone.
LEMMA SilenceStep ==
    ASSUME TypeOK, Lock, Quiet, HasSession, Silence, [Next]_vars
    PROVE  Silence'
<1> SUFFICES ASSUME ~config.needsToken, ~config'.needsToken
             PROVE  ~noisyStop' /\ \A c \in Callers : pc'[c] # "token"
  BY CallerFrame, PlayerFrame DEF Silence, Next, Request, vars
<1>0. /\ pc \in [Callers -> {"idle", "enter"} \cup Inside]
      /\ noisyStop = FALSE /\ \A c \in Callers : pc[c] # "token"
  BY TypeParts DEF RequestTypes, Silence
<1>1. ASSUME NEW c \in Callers, NEW failure, NEW stopped, Return(c, failure, stopped),
             c = License /\ stopped => failure = "selfAbort"
      PROVE  ~noisyStop' /\ \A d \in Callers : pc'[d] # "token"
  BY <1>0, <1>1 DEF Return
<1>2. ASSUME NEW c \in Callers, NEW l \in Inside \ {"token"}, Goto(c, l)
      PROVE  ~noisyStop' /\ \A d \in Callers : pc'[d] # "token"
  BY <1>0, <1>2 DEF Goto, verdicts
<1>3. ASSUME NEW c \in Callers, CallerNext(c)
      PROVE  ~noisyStop' /\ \A d \in Callers : pc'[d] # "token"
  <2>1. CASE CreateDrmSession(c)
    <3>1. ~active => c # License
      BY <2>1 DEF CreateDrmSession, Quiet, Callers
    <3>2. CASE UseSlot(c, SelectSlot(req[c].key))
      BY <1>0, <3>2 DEF UseSlot, verdicts
    <3> QED  BY <1>1, <2>1, <3>1, <3>2 DEF CreateDrmSession
  <2>2. CASE GetDrmSession(c)
    BY <1>1, <1>2, <2>2 DEF GetDrmSession, Deliver, Inside
  <2>3. CASE Crash(c)
    BY <1>2, <2>3 DEF Crash, Inside
  <2>4. CASE InitializeDrmSession(c)
    BY <1>1, <1>2, <2>4 DEF InitializeDrmSession, Fail, Inside
  <2>5. CASE GenerateKeyRequest(c)
    BY <1>1, <1>2, <2>5 DEF GenerateKeyRequest, Fail, Inside
  <2>6. CASE GetAccessToken(c)
    BY <1>0, <2>6 DEF GetAccessToken, Uses
  <2>7. CASE GetLicense(c)
    BY <1>1, <1>2, <2>7 DEF GetLicense, Fail, Inside
  <2>8. CASE ProcessLicenseResponse(c)
    BY <1>1, <2>8 DEF ProcessLicenseResponse, Fail, Deliver
  <2> QED  BY <1>3, <2>1, <2>2, <2>3, <2>4, <2>5, <2>6, <2>7, <2>8 DEF CallerNext
<1>4. ASSUME NEW c \in Callers, NEW k, Request(c, k)
      PROVE  ~noisyStop' /\ \A d \in Callers : pc'[d] # "token"
  BY <1>0, <1>4 DEF Request, verdicts
<1>5. CASE PlayerNext \/ Tune \/ Stop \/ Seek
  BY <1>0, <1>5, PlayerFrame
<1>6. CASE UNCHANGED vars
  BY <1>0, <1>6 DEF vars, verdicts
<1> QED  BY <1>3, <1>4, <1>5, <1>6 DEF Next

LEMMA SafeInit == Init => SafeInv
<1> SUFFICES ASSUME Init PROVE SafeInv
  OBVIOUS
<1>1. TypeOK
  BY TypeInit
<1>2. Lock /\ Contents
  BY CallersAssumption DEF Init, Lock, Contents, Inside, FreeSlot, CallersAssumption, Callers
<1>3. HasSession /\ Belongs /\ Quiet /\ Silence
  BY DEF Init, HasSession, Belongs, Quiet, Silence, Working, NoSession, Callers
<1>4. \A s \in Slots : ~Tainted(s)
  BY DEF Init, Tainted, FreeSlot, NoSession
<1>5. Failures
  BY <1>4 DEF Init, Failures, Marked, Cleared, Current
<1> QED  BY <1>1, <1>2, <1>3, <1>5 DEF SafeInv, DashSafe, DashInv

LEMMA SafeStep == SafeInv /\ [Next]_vars => SafeInv'
<1> SUFFICES ASSUME SafeInv, [Next]_vars PROVE SafeInv'
  OBVIOUS
<1>1. TypeOK'
  BY TypeCaller, TypePlayer, TypeStutter DEF SafeInv, Next
<1>2. Lock' /\ Contents'
  BY LockStep, ContentsStep DEF SafeInv
<1>3. config' = config
  BY CallerFrame, PlayerFrame DEF Next, Request, vars
<1>4. CASE ~config.hls
  <2>1. Dash /\ Silence
    BY <1>4 DEF SafeInv, DashSafe, Dash
  <2>2. DashInv'
    BY <2>1, DashStep
  <2>3. Silence'
    BY <2>1, SilenceStep DEF Dash, DashInv
  <2> QED  BY <1>1, <1>2, <2>2, <2>3 DEF SafeInv, DashSafe
<1> QED  BY <1>1, <1>2, <1>3, <1>4 DEF SafeInv, DashSafe

LEMMA Safe == Spec => []SafeInv
BY SafeInit, SafeStep, PTL DEF Spec

\* getDrmSession, acquireLicense, processLicenseResponse: a request of DASH works on its own
\* session from the first to the last step, although sessionMutex is released in between.
THEOREM SessionStaysInUse == Spec => []SessionInUse
<1>1. SafeInv => SessionInUse
  <2> SUFFICES ASSUME SafeInv, NEW c \in Callers
               PROVE  /\ pc[c] \in {"init", "challenge", "token", "license", "process"} =>
                             session[req[c].slot].key \in KeySet[req[c].key] \/ config.hls
                      /\ pc[c] = "crash" => config.hls
    BY DEF SessionInUse
  <2> QED  BY DEF SafeInv, DashSafe, DashInv, HasSession, Working
<1> QED  BY <1>1, Safe, PTL

\* clearFailedKeyIds: a key is refused without a request only after one for it failed in
\* the stream that plays.
THEOREM RefusedOnlyIfFailed == Spec => []RefusedIfFailed
<1>1. SafeInv => RefusedIfFailed
  BY DEF SafeInv, DashSafe, DashInv, Failures, RefusedIfFailed
<1> QED  BY <1>1, Safe, PTL

\* setLicenseRequestAbort: a request of DASH that Stop ends is silent, with no token to fetch.
THEOREM StoppedIsSilent == Spec => []StopIsSilent
<1>1. SafeInv => StopIsSilent
  BY DEF SafeInv, DashSafe, Silence, StopIsSilent
<1> QED  BY <1>1, Safe, PTL

-----------------------------------------------------------------------------
(* The order of use.  A slot is given to a new content only when all other  *)
(* slots were used later, so the held session is replaced only when as many *)
(* other contents as there are other slots, and the new one, were asked for *)
(* since.  Two uses in one millisecond would leave the choice to the index. *)

Apart == 0 \notin Ticks

\* The slots are in the order of their last use, and no content is in two of them.
Order ==
    /\ \A s \in Slots : cachedKeyIDs[s].time <= clock
    /\ \A s, t \in Slots : s # t =>
          /\ cachedKeyIDs[s].time # cachedKeyIDs[t].time \/ cachedKeyIDs[s].time = 0
          /\ cachedKeyIDs[s].data \cap cachedKeyIDs[t].data = {}

\* The slots are cleared when the decryptor is gone; after a stop it has no session.
Gone ==
    apc \in {"stopped", "clear", "delete"} =>
        pc[Decryptor] = "idle" /\ (newTune => held = NotHeld)

\* The decryptor's request has the last used slot and has no session before it returns.
Serving ==
    LET s == req[Decryptor].slot
        k == req[Decryptor].key
    IN  /\ pc[Decryptor] # "idle" => held = NotHeld
        /\ pc[Decryptor] \in Working \cup {"session"} =>
              /\ k \in cachedKeyIDs[s].data
              /\ ~cachedKeyIDs[s].failed
              /\ cachedKeyIDs[s].time > 0
              /\ \A t \in Slots : cachedKeyIDs[t].time <= cachedKeyIDs[s].time
        /\ pc[Decryptor] \in Working => session[s].key \in KeySet[k]

Others(h) == {KeySet[k] : k \in h.since} \ {KeySet[h.key]}

\* The slot of the held session was not taken, and what was used after it is one of the
\* other contents that were asked for.
Kept(h) ==
    /\ h.live
    /\ cachedKeyIDs[h.slot].data = KeySet[h.key]
    /\ ~cachedKeyIDs[h.slot].failed
    /\ cachedKeyIDs[h.slot].time > 0
    /\ session[h.slot].key \in KeySet[h.key] /\ session[h.slot].state = "ready"
    /\ \A s \in Slots : cachedKeyIDs[s].time > cachedKeyIDs[h.slot].time =>
          cachedKeyIDs[s].data \in Others(h)
    /\ \A c \in Callers : pc[c] \in Working => req[c].slot # h.slot
    /\ ~(apc = "delete" /\ slotToClear = h.slot)

HeldOrdered ==
    held # NotHeld =>
        /\ IsFiniteSet(Others(held))
        /\ NSlots <= Cardinality(Others(held)) \/ Kept(held)

OrderInv == TypeOK /\ Lock /\ Contents /\ Order /\ Gone /\ Serving /\ HeldOrdered

\* The steps of a request between getDrmSession and its end, also in HLS.
LEMMA WorkEffects ==
    ASSUME TypeOK, NEW c \in Callers,
           \/ Crash(c) \/ InitializeDrmSession(c) \/ GenerateKeyRequest(c)
           \/ GetAccessToken(c) \/ GetLicense(c) \/ ProcessLicenseResponse(c)
    PROVE  /\ pc[c] \in Working /\ clock' = clock
           /\ \A s \in Slots :
                 /\ session'[s].key = session[s].key
                 /\ cachedKeyIDs'[s].data = cachedKeyIDs[s].data
                 /\ cachedKeyIDs'[s].time = cachedKeyIDs[s].time
                 /\ s # req[c].slot => /\ session'[s] = session[s]
                                       /\ cachedKeyIDs'[s] = cachedKeyIDs[s]
           /\ \/ /\ \E l \in Working \cup {"crash"} : pc' = [pc EXCEPT ![c] = l]
                 /\ UNCHANGED <<req, cachedKeyIDs, held>>
              \/ Ends(c) /\ held' = held
              \/ /\ Ends(c) /\ UNCHANGED cachedKeyIDs
                 /\ session'[req[c].slot].state = "ready"
                 /\ held' = IF c = Decryptor
                            THEN [slot |-> req[c].slot, key |-> req[c].key, since |-> {},
                                  live |-> TRUE]
                            ELSE held
<1>0. /\ req[c].slot \in Slots /\ req[c].key \in Keys
      /\ session \in [Slots -> {NoSession} \cup
                     [key : Keys, state : {"init", "pending", "ready", "error"}]]
      /\ cachedKeyIDs \in [Slots -> [data : SUBSET Keys, failed : BOOLEAN, time : Nat]]
  BY TypeParts DEF RequestTypes, SessionTypes, SlotTypes
<1> DEFINE SessionsKept == \A s \in Slots : /\ session'[s].key = session[s].key
                                            /\ s # req[c].slot => session'[s] = session[s]
           IdsKept == \A s \in Slots :
                         /\ cachedKeyIDs'[s].data = cachedKeyIDs[s].data
                         /\ cachedKeyIDs'[s].time = cachedKeyIDs[s].time
                         /\ s # req[c].slot => cachedKeyIDs'[s] = cachedKeyIDs[s]
<1>1. ASSUME NEW state, SetState(c, state), session[req[c].slot] # NoSession
      PROVE  SessionsKept /\ session'[req[c].slot].state = state
  BY <1>0, <1>1 DEF SetState
<1>2. ASSUME NEW failure, NEW stopped, Return(c, failure, stopped)
      PROVE  Ends(c)
  BY <1>2 DEF Return, Ends
<1>3. ASSUME NEW failure, NEW stopped, Fail(c, failure, stopped)
      PROVE  Ends(c) /\ IdsKept
  BY <1>0, <1>2, <1>3 DEF Fail, MarkFailed
<1>4. ASSUME NEW l, Goto(c, l)
      PROVE  pc' = [pc EXCEPT ![c] = l] /\ req' = req
  BY <1>4 DEF Goto
<1>5. CASE Crash(c)
  BY <1>4, <1>5 DEF Crash, Working, slots
<1>6. CASE InitializeDrmSession(c)
  BY <1>1, <1>3, <1>4, <1>6 DEF InitializeDrmSession, Uses, Working, slots
<1>7. CASE GenerateKeyRequest(c)
  BY <1>1, <1>3, <1>4, <1>7 DEF GenerateKeyRequest, Uses, Working
<1>8. CASE GetAccessToken(c)
  BY <1>3, <1>4, <1>8 DEF GetAccessToken, Uses, Working, slots
<1>9. CASE GetLicense(c)
  BY <1>3, <1>4, <1>9 DEF GetLicense, Uses, Working, slots
<1>10. CASE ProcessLicenseResponse(c)
  <2>1. CASE SetState(c, "ready") /\ Deliver(c) /\ UNCHANGED <<cachedKeyIDs, failedKeys>>
    BY <1>1, <1>2, <1>10, <2>1 DEF ProcessLicenseResponse, Deliver, Uses, Working
  <2>2. CASE SetState(c, "error") /\ Fail(c, "key", FALSE) /\ UNCHANGED held
    BY <1>1, <1>3, <1>10, <2>2 DEF ProcessLicenseResponse, Uses, Working
  <2>3. CASE Fail(c, "key", FALSE) /\ UNCHANGED <<session, held>>
    BY <1>3, <1>10, <2>3 DEF ProcessLicenseResponse, Uses, Working
  <2> QED  BY <1>10, <2>1, <2>2, <2>3 DEF ProcessLicenseResponse
<1> QED  BY <1>5, <1>6, <1>7, <1>8, <1>9, <1>10

\* A session is delivered to the decryptor in the slot used last: it is kept.
LEMMA DeliveredKept ==
    ASSUME OrderInv, pc[Decryptor] \in Working \cup {"session"},
           LET s == req[Decryptor].slot
           IN  /\ held' = [slot |-> s, key |-> req[Decryptor].key, since |-> {}, live |-> TRUE]
               /\ cachedKeyIDs' = cachedKeyIDs
               /\ session'[s].key \in KeySet[req[Decryptor].key]
               /\ session'[s].state = "ready"
               /\ pc' = [pc EXCEPT ![Decryptor] = "idle"] /\ apc' = apc
    PROVE  HeldOrdered'
<1> DEFINE s == req[Decryptor].slot
           k == req[Decryptor].key
<1>0. /\ s \in Slots /\ k \in Keys
      /\ pc \in [Callers -> {"idle", "enter"} \cup Inside]
      /\ cachedKeyIDs \in [Slots -> [data : SUBSET Keys, failed : BOOLEAN, time : Nat]]
      /\ Decryptor \in Callers
  BY TypeParts DEF OrderInv, RequestTypes, SlotTypes, Callers
<1>1. /\ k \in cachedKeyIDs[s].data /\ ~cachedKeyIDs[s].failed /\ cachedKeyIDs[s].time > 0
      /\ \A t \in Slots : cachedKeyIDs[t].time <= cachedKeyIDs[s].time
  BY DEF OrderInv, Serving
<1>2. cachedKeyIDs[s].data = KeySet[k]
  BY <1>0, <1>1 DEF OrderInv, Contents
<1>3. \A c \in Callers : pc'[c] \notin Working
  BY <1>0, Alone DEF OrderInv, Working, Inside
<1>4. apc' # "delete"
  BY <1>0 DEF OrderInv, Gone, Working
<1>5. \A t \in Slots : ~(cachedKeyIDs[t].time > cachedKeyIDs[s].time)
  BY <1>0, <1>1
<1>6. held'.slot = s /\ held'.key = k /\ held'.since = {} /\ held'.live
  OBVIOUS
<1>7. Others(held') = {}
  BY <1>6 DEF Others
<1>8. IsFiniteSet({})
  BY FS_EmptySet
<1> HIDE DEF s, k
<1>9. Kept(held)'
  BY <1>1, <1>2, <1>3, <1>4, <1>5, <1>6 DEF Kept, s, k
<1> QED  BY <1>7, <1>8, <1>9 DEF HeldOrdered

\* A held session is kept by a step that leaves its slot, and the order of the slots.
LEMMA KeptStays ==
    ASSUME TypeOK, TypeOK', held # NotHeld, held' = held, Kept(held), UNCHANGED <<apc, slotToClear>>,
           LET h == held.slot
           IN  /\ session'[h] = session[h] /\ cachedKeyIDs'[h] = cachedKeyIDs[h]
               /\ \A s \in Slots : /\ cachedKeyIDs'[s].data = cachedKeyIDs[s].data
                                   /\ cachedKeyIDs'[s].time = cachedKeyIDs[s].time
               /\ \A c \in Callers : pc'[c] \in Working => req'[c].slot # h
    PROVE  Kept(held)'
BY DEF Kept

LEMMA HeldSlot == ASSUME TypeOK, held # NotHeld
                  PROVE  held.slot \in Slots /\ held.key \in Keys /\ held.since \in SUBSET Keys
                         /\ held.live \in BOOLEAN
BY TypeParts DEF SessionTypes

LEMMA WorkOrder ==
    ASSUME OrderInv, TypeOK', NEW c \in Callers, CallerNext(c),
           ~CreateDrmSession(c), ~GetDrmSession(c)
    PROVE  Order' /\ Gone' /\ Serving' /\ HeldOrdered'
<1> DEFINE s == req[c].slot
<1> USE DEF OrderInv
<1>0. /\ pc \in [Callers -> {"idle", "enter"} \cup Inside]
      /\ req \in [Callers -> [key : Keys, slot : Slots, tune : Nat]]
      /\ s \in Slots /\ Decryptor \in Callers
  BY TypeParts DEF RequestTypes, Callers
<1>1. /\ pc[c] \in Working /\ clock' = clock
      /\ \A t \in Slots :
            /\ session'[t].key = session[t].key
            /\ cachedKeyIDs'[t].data = cachedKeyIDs[t].data
            /\ cachedKeyIDs'[t].time = cachedKeyIDs[t].time
            /\ t # s => /\ session'[t] = session[t]
                        /\ cachedKeyIDs'[t] = cachedKeyIDs[t]
      /\ \/ /\ \E l \in Working \cup {"crash"} : pc' = [pc EXCEPT ![c] = l]
            /\ UNCHANGED <<req, cachedKeyIDs, held>>
         \/ Ends(c) /\ held' = held
         \/ /\ Ends(c) /\ UNCHANGED cachedKeyIDs
            /\ session'[s].state = "ready"
            /\ held' = IF c = Decryptor
                       THEN [slot |-> s, key |-> req[c].key, since |-> {}, live |-> TRUE]
                       ELSE held
  BY WorkEffects DEF CallerNext
<1>2. \A d \in Callers : d # c => pc[d] \notin Inside /\ pc'[d] = pc[d] /\ req'[d] = req[d]
  BY <1>0, <1>1, Alone DEF Inside, Working, Ends
<1>3. UNCHANGED <<apc, slotToClear, newTune>>
  BY CallerFrame
<1>4. Order'
  BY <1>1 DEF Order
<1>5. pc[c] # "idle"
  BY <1>1 DEF Working
<1>6. CASE c = Decryptor
  <2>1. held = NotHeld /\ apc \notin {"stopped", "clear", "delete"}
    BY <1>5, <1>6 DEF Serving, Gone
  <2>2. Gone'
    BY <1>3, <2>1 DEF Gone
  <2>3. session[s].key \in KeySet[req[c].key]
    BY <1>1, <1>6 DEF Serving
  <2>4. CASE /\ \E l \in Working \cup {"crash"} : pc' = [pc EXCEPT ![c] = l]
             /\ UNCHANGED <<req, cachedKeyIDs, held>>
    <3>1. Serving'
      BY <1>0, <1>1, <1>6, <2>1, <2>3, <2>4 DEF Serving, Working
    <3> QED  BY <1>4, <2>1, <2>2, <2>4, <3>1 DEF HeldOrdered
  <2>5. CASE Ends(c) /\ held' = held
    <3>1. Serving'
      BY <1>0, <1>6, <2>5 DEF Serving, Ends, Working
    <3> QED  BY <1>4, <2>1, <2>2, <2>5, <3>1 DEF HeldOrdered
  <2>6. CASE /\ Ends(c) /\ UNCHANGED cachedKeyIDs /\ session'[s].state = "ready"
             /\ held' = [slot |-> s, key |-> req[c].key, since |-> {}, live |-> TRUE]
    <3>1. Serving'
      BY <1>0, <1>6, <2>6 DEF Serving, Ends, Working
    <3>2. HeldOrdered'
      BY <1>0, <1>1, <1>3, <1>6, <2>3, <2>6, DeliveredKept DEF Ends
    <3> QED  BY <1>4, <2>2, <3>1, <3>2
  <2> QED  BY <1>1, <1>6, <2>4, <2>5, <2>6
<1>7. CASE c # Decryptor
  <2>1. /\ held' = held /\ pc[Decryptor] \notin Inside /\ pc'[Decryptor] = pc[Decryptor]
        /\ req'[Decryptor] = req[Decryptor]
    BY <1>0, <1>1, <1>2, <1>7
  <2>2. Gone' /\ Serving'
    BY <1>3, <2>1 DEF Gone, Serving, Working, Inside
  <2>3. CASE held # NotHeld /\ Kept(held)
    <3>1. held.slot \in Slots /\ held.slot # s
      BY <1>1, <2>3, HeldSlot DEF Kept
    <3>2. \A d \in Callers : pc'[d] \in Working => req'[d].slot # held.slot
      BY <1>0, <1>1, <1>2, <3>1 DEF Ends, Working, Inside
    <3>3. Kept(held)'
      BY <1>1, <1>3, <2>1, <2>3, <3>1, <3>2, KeptStays
    <3> QED  BY <1>4, <2>1, <2>2, <3>3 DEF HeldOrdered
  <2>4. CASE ~(held # NotHeld /\ Kept(held))
    BY <1>4, <2>1, <2>2, <2>4 DEF HeldOrdered
  <2> QED  BY <2>3, <2>4
<1> QED  BY <1>6, <1>7

LEMMA GetOrder ==
    ASSUME OrderInv, TypeOK', NEW c \in Callers, GetDrmSession(c)
    PROVE  Order' /\ Gone' /\ Serving' /\ HeldOrdered'
<1> DEFINE s == req[c].slot
           old == session[s]
<1> USE DEF OrderInv
<1>0. /\ pc \in [Callers -> {"idle", "enter"} \cup Inside]
      /\ req \in [Callers -> [key : Keys, slot : Slots, tune : Nat]]
      /\ cachedKeyIDs \in [Slots -> [data : SUBSET Keys, failed : BOOLEAN, time : Nat]]
      /\ session \in [Slots -> {NoSession} \cup
                     [key : Keys, state : {"init", "pending", "ready", "error"}]]
      /\ s \in Slots /\ req[c].key \in Keys /\ Decryptor \in Callers
      /\ pc[c] = "session" /\ clock' = clock
  BY TypeParts DEF RequestTypes, SlotTypes, SessionTypes, Callers, GetDrmSession
<1>1. \/ /\ old.key \in cachedKeyIDs[s].data /\ old.state = "ready"
         /\ Ends(c) /\ UNCHANGED slots
         /\ held' = IF c = Decryptor
                    THEN [slot |-> s, key |-> req[c].key, since |-> {}, live |-> TRUE]
                    ELSE held
      \/ /\ old.key \in cachedKeyIDs[s].data /\ old.state = "init"
         /\ pc' = [pc EXCEPT ![c] = "init"] /\ UNCHANGED <<slots, req, held>>
      \/ /\ old.key \in cachedKeyIDs[s].data /\ old.state \in {"pending", "error"}
         /\ cachedKeyIDs' = [cachedKeyIDs EXCEPT ![s].failed = TRUE]
         /\ Ends(c) /\ UNCHANGED <<session, held>>
      \/ /\ old.key \notin cachedKeyIDs[s].data
         /\ session' = [session EXCEPT ![s] = [key |-> req[c].key, state |-> "init"]]
         /\ DeleteSession(s)
         /\ pc' = [pc EXCEPT ![c] = "init"] /\ UNCHANGED <<req, cachedKeyIDs>>
  BY DEF GetDrmSession, Deliver, Return, Goto, Ends
<1>2. \A d \in Callers : d # c => pc[d] \notin Inside /\ pc'[d] = pc[d] /\ req'[d] = req[d]
  BY <1>0, <1>1, Alone DEF Inside, Ends
<1>3. UNCHANGED <<apc, slotToClear, newTune>>
  BY CallerFrame DEF CallerNext
<1>4. \A t \in Slots : /\ cachedKeyIDs'[t].data = cachedKeyIDs[t].data
                       /\ cachedKeyIDs'[t].time = cachedKeyIDs[t].time
                       /\ t # s => /\ session'[t] = session[t]
                                   /\ cachedKeyIDs'[t] = cachedKeyIDs[t]
  BY <1>0, <1>1 DEF slots
<1>5. Order'
  BY <1>0, <1>4 DEF Order
<1>k. \A k \in cachedKeyIDs[s].data : cachedKeyIDs[s].data = KeySet[k]
  BY <1>0 DEF Contents
<1>6. CASE c = Decryptor
  <2>1. held = NotHeld /\ apc \notin {"stopped", "clear", "delete"}
        /\ req[c].key \in cachedKeyIDs[s].data /\ cachedKeyIDs[s].data = KeySet[req[c].key]
    BY <1>0, <1>6, <1>k DEF Serving, Gone
  <2>2. Gone'
    BY <1>3, <2>1 DEF Gone
  <2>3. CASE /\ old.key \in cachedKeyIDs[s].data /\ old.state = "ready"
             /\ Ends(c) /\ UNCHANGED slots
             /\ held' = [slot |-> s, key |-> req[c].key, since |-> {}, live |-> TRUE]
    <3>1. Serving'
      BY <1>0, <1>6, <2>3 DEF Serving, Ends, Working
    <3>2. HeldOrdered'
      BY <1>0, <1>3, <1>6, <2>1, <2>3, DeliveredKept DEF Ends, slots
    <3> QED  BY <1>5, <2>2, <3>1, <3>2
  <2>4. CASE /\ old.key \in cachedKeyIDs[s].data
             /\ pc' = [pc EXCEPT ![c] = "init"] /\ UNCHANGED <<slots, req, held>>
    <3>1. Serving'
      BY <1>0, <1>6, <2>1, <2>4 DEF Serving, Working, slots
    <3> QED  BY <1>5, <2>1, <2>2, <2>4, <3>1 DEF HeldOrdered
  <2>5. CASE Ends(c) /\ held' = held
    <3>1. Serving'
      BY <1>0, <1>6, <2>5 DEF Serving, Ends, Working
    <3> QED  BY <1>5, <2>1, <2>2, <2>5, <3>1 DEF HeldOrdered
  <2>6. CASE /\ session' = [session EXCEPT ![s] = [key |-> req[c].key, state |-> "init"]]
             /\ DeleteSession(s)
             /\ pc' = [pc EXCEPT ![c] = "init"] /\ UNCHANGED <<req, cachedKeyIDs>>
    <3>1. held' = held
      <4>1. held.slot # s
        BY <1>0, <2>1, SlotsAssumption DEF NotHeld, Slots, SlotsAssumption
      <4> QED  BY <2>6, <4>1 DEF DeleteSession
    <3>2. session'[s].key \in KeySet[req[c].key]
      BY <1>0, <2>6, KeysAssumption DEF KeysAssumption
    <3>3. Serving'
      BY <1>0, <1>6, <2>1, <2>6, <3>1, <3>2 DEF Serving, Working
    <3> QED  BY <1>5, <2>1, <2>2, <3>1, <3>3 DEF HeldOrdered
  <2> QED  BY <1>1, <1>6, <2>3, <2>4, <2>5, <2>6
<1>7. CASE c # Decryptor
  <2>1. /\ pc[Decryptor] \notin Inside /\ pc'[Decryptor] = pc[Decryptor]
        /\ req'[Decryptor] = req[Decryptor]
    BY <1>0, <1>2, <1>7
  <2>2. held' = held \/ (held # NotHeld /\ held' = [held EXCEPT !.live = FALSE]
                         /\ held.slot = s /\ old.key \notin cachedKeyIDs[s].data)
    <3>1. held.slot = s => held # NotHeld
      BY <1>0, SlotsAssumption DEF NotHeld, Slots, SlotsAssumption
    <3> QED  BY <1>1, <1>7, <3>1 DEF DeleteSession
  <2>3. Gone' /\ Serving'
    <3>1. held = NotHeld => held' = NotHeld
      BY <2>2
    <3> QED  BY <1>3, <2>1, <3>1 DEF Gone, Serving, Working, Inside
  <2>4. CASE held # NotHeld /\ Kept(held)
    <3>1. held.slot \in Slots
      BY <2>4, HeldSlot
    <3>2. held.slot = s => old.key \in cachedKeyIDs[s].data /\ old.state = "ready"
      BY <2>4 DEF Kept
    <3>3. held' = held
      BY <2>2, <3>2
    <3>4. session'[held.slot] = session[held.slot]
          /\ cachedKeyIDs'[held.slot] = cachedKeyIDs[held.slot]
      BY <1>1, <1>4, <3>1, <3>2 DEF slots
    <3>5. \A d \in Callers : pc'[d] \in Working => req'[d].slot # held.slot
      <4>1. \A d \in Callers : d # c => pc'[d] \notin Working
        BY <1>2 DEF Working, Inside
      <4>2. held.slot = s => pc'[c] = "idle"
        BY <1>0, <1>1, <3>2 DEF Ends
      <4>3. pc'[c] # "idle" => req' = req
        BY <1>0, <1>1 DEF Ends
      <4> QED  BY <4>1, <4>2, <4>3 DEF Working
    <3>6. Kept(held)'
      BY <1>3, <1>4, <2>4, <3>3, <3>4, <3>5, KeptStays
    <3> QED  BY <1>5, <2>3, <2>4, <3>3, <3>6 DEF HeldOrdered
  <2>5. CASE held # NotHeld /\ ~Kept(held)
    <3>1. /\ held'.key = held.key /\ held'.since = held.since
      BY <2>2, <2>5, HeldSlot, TypeParts DEF SessionTypes
    <3>2. Others(held') = Others(held)
      BY <3>1 DEF Others
    <3> QED  BY <1>5, <2>3, <2>5, <3>2 DEF HeldOrdered
  <2>6. CASE held = NotHeld
    BY <1>5, <2>2, <2>3, <2>6 DEF HeldOrdered
  <2> QED  BY <2>4, <2>5, <2>6
<1> QED  BY <1>6, <1>7

LEMMA OldestLeast ==
    ASSUME TypeOK
    PROVE  \A t \in Slots : cachedKeyIDs[Oldest].time <= cachedKeyIDs[t].time
<1> DEFINE T == {cachedKeyIDs[s].time : s \in Slots}
           S == {s \in Slots : \A t \in Slots : cachedKeyIDs[s].time <= cachedKeyIDs[t].time}
<1>1. T \in SUBSET Nat /\ T # {}
  BY SlotsAssumption DEF SlotsAssumption, Slots, TypeOK
<1>2. PICK m \in T : \A n \in T : m <= n
  BY <1>1, LeastIn
<1>3. S \in SUBSET Slots /\ S # {}
  BY <1>2
<1>4. Oldest \in S
  BY <1>3, FirstIn DEF Oldest
<1> QED  BY <1>4

\* One content for every slot is as many contents as there are slots.
LEMMA OneForEach ==
    ASSUME NEW F, IsFiniteSet(F), NEW f \in [Slots -> F],
           \A s, t \in Slots : f[s] = f[t] => s = t
    PROVE  NSlots <= Cardinality(F)
<1>1. f \in Injection(Slots, F)
  BY DEF Injection, IsInjective
<1>2. Cardinality(Slots) <= Cardinality(F)
  BY <1>1, FS_Injection
<1>3. Cardinality(Slots) = NSlots
  BY FS_Interval, SlotsAssumption DEF Slots, SlotsAssumption
<1> QED  BY <1>2, <1>3

\* The slot of the held session is the oldest one: every other slot has one of the other
\* contents, and the content that takes its slot is one more.
LEMMA AllTaken ==
    ASSUME TypeOK, Order, NEW h \in Slots, cachedKeyIDs[h].time > 0,
           \A t \in Slots : cachedKeyIDs[h].time <= cachedKeyIDs[t].time,
           NEW F, IsFiniteSet(F), NEW k \in Keys, KeySet[k] \in F, CachedSlots(k) = {},
           NEW since \in SUBSET Keys,
           \A t \in Slots : cachedKeyIDs[t].time > cachedKeyIDs[h].time =>
               cachedKeyIDs[t].data \in F /\ \E l \in since : cachedKeyIDs[t].data = KeySet[l]
    PROVE  NSlots <= Cardinality(F)
<1>0. cachedKeyIDs \in [Slots -> [data : SUBSET Keys, failed : BOOLEAN, time : Nat]]
  BY TypeParts DEF SlotTypes
<1> DEFINE f == [t \in Slots |-> IF t = h THEN KeySet[k] ELSE cachedKeyIDs[t].data]
<1>1. \A t \in Slots : t # h => cachedKeyIDs[t].time > cachedKeyIDs[h].time
  BY <1>0 DEF Order
<1>2. f \in [Slots -> F]
  BY <1>1
<1>3. k \in KeySet[k] /\ \A t \in Slots : k \notin cachedKeyIDs[t].data
  BY KeysAssumption DEF KeysAssumption, CachedSlots
<1>4. \A t \in Slots : t # h => cachedKeyIDs[t].data # {}
  BY <1>1, KeysAssumption DEF KeysAssumption
<1>5. ASSUME NEW s \in Slots, NEW t \in Slots, f[s] = f[t] PROVE s = t
  <2>1. CASE s = h \/ t = h
    BY <1>3, <1>5, <2>1
  <2>2. CASE s # h /\ t # h
    <3>1. cachedKeyIDs[s].data = cachedKeyIDs[t].data /\ cachedKeyIDs[s].data # {}
      BY <1>4, <1>5, <2>2
    <3> QED  BY <3>1 DEF Order
  <2> QED  BY <2>1, <2>2
<1> HIDE DEF f
<1> QED  BY <1>2, <1>5, OneForEach

\* The choice of a slot, by the licence thread beside a held session: the held slot is the
\* last to go.
LEMMA HeldUse ==
    ASSUME Apart, OrderInv, TypeOK', NEW k \in Keys, NEW s, NEW d \in Ticks,
           s = SelectSlot(k), held # NotHeld,
           ~(CachedSlots(k) # {} /\ cachedKeyIDs[s].failed),
           cachedKeyIDs' = [cachedKeyIDs EXCEPT ![s] =
              [data |-> IF CachedSlots(k) # {} THEN @.data ELSE KeySet[k],
               failed |-> FALSE, time |-> clock + d]],
           held' = [held EXCEPT !.since = @ \cup {k}],
           UNCHANGED <<session, apc, slotToClear>>,
           \A c \in Callers : pc'[c] \notin Working
    PROVE  HeldOrdered'
<1> DEFINE h == held.slot
<1> USE DEF OrderInv
<1>0. /\ cachedKeyIDs \in [Slots -> [data : SUBSET Keys, failed : BOOLEAN, time : Nat]]
      /\ h \in Slots /\ held.key \in Keys /\ held.since \in SUBSET Keys
      /\ s \in Slots /\ (CachedSlots(k) # {} => k \in cachedKeyIDs[s].data)
      /\ clock \in Nat /\ d \in Nat /\ d > 0
  BY TypeParts, HeldSlot, SelectSlotIn, BoundsAssumption
     DEF SlotTypes, CachedSlots, PlayerTypes, RequestTypes, FlagTypes, Apart, BoundsAssumption, TypeOK
<1>1. /\ held'.slot = h /\ held'.key = held.key /\ held'.live = held.live
      /\ held'.since = held.since \cup {k}
  BY TypeParts DEF SessionTypes
<1>2. /\ \A t \in Slots : t # s => cachedKeyIDs'[t] = cachedKeyIDs[t]
      /\ cachedKeyIDs'[s].time = clock + d /\ ~cachedKeyIDs'[s].failed
      /\ cachedKeyIDs'[s].data = IF CachedSlots(k) # {} THEN cachedKeyIDs[s].data ELSE KeySet[k]
  BY <1>0
<1>3. cachedKeyIDs'[s].data = KeySet[k]
  BY <1>0, <1>2 DEF Contents
<1>4. /\ IsFiniteSet(Others(held))
      /\ NSlots <= Cardinality(Others(held)) \/ Kept(held)
  BY DEF HeldOrdered
<1>5. Others(held') = IF KeySet[k] = KeySet[held.key] THEN Others(held)
                      ELSE Others(held) \cup {KeySet[k]}
  BY <1>1 DEF Others
<1>6. IsFiniteSet(Others(held')) /\ Cardinality(Others(held)) <= Cardinality(Others(held'))
  <2>1. IsFiniteSet(Others(held) \cup {KeySet[k]})
    BY <1>4, FS_AddElement
  <2>2. IsFiniteSet(Others(held')) /\ Others(held) \in SUBSET Others(held')
    BY <1>4, <1>5, <2>1
  <2> QED  BY <2>2, FS_Subset
<1>7. CASE NSlots <= Cardinality(Others(held))
  <2>1. NSlots <= Cardinality(Others(held'))
    BY <1>4, <1>6, <1>7, FS_CardinalityType, SlotsAssumption DEF SlotsAssumption
  <2> QED  BY <1>6, <2>1 DEF HeldOrdered
<1>8. CASE Kept(held) /\ s = h /\ CachedSlots(k) # {}
  <2>1. KeySet[k] = KeySet[held.key]
    BY <1>0, <1>8 DEF Kept, Contents
  <2>2. \A t \in Slots : ~(cachedKeyIDs'[t].time > cachedKeyIDs'[h].time)
    BY <1>0, <1>2, <1>8 DEF Order
  <2>3. Kept(held)'
    BY <1>0, <1>1, <1>2, <1>3, <1>8, <2>1, <2>2 DEF Kept
  <2> QED  BY <1>6, <2>3 DEF HeldOrdered, Kept
<1>9. CASE Kept(held) /\ s = h /\ CachedSlots(k) = {}
  <2>1. s = Oldest
    BY <1>9 DEF SelectSlot
  <2>2. \A t \in Slots : cachedKeyIDs[h].time <= cachedKeyIDs[t].time
    BY <1>9, <2>1, OldestLeast
  <2>3. k \in KeySet[k] /\ k \notin cachedKeyIDs[h].data /\ cachedKeyIDs[h].data = KeySet[held.key]
    BY <1>0, <1>9, KeysAssumption DEF Kept, CachedSlots, KeysAssumption
  <2>4. Others(held') = Others(held) \cup {KeySet[k]}
    BY <1>5, <2>3
  <2>5. \A t \in Slots : cachedKeyIDs[t].time > cachedKeyIDs[h].time =>
            /\ cachedKeyIDs[t].data \in Others(held')
            /\ \E l \in held.since : cachedKeyIDs[t].data = KeySet[l]
    BY <1>9, <2>4 DEF Kept, Others
  <2>6. cachedKeyIDs[h].time > 0 /\ KeySet[k] \in Others(held')
    BY <1>9, <2>4 DEF Kept
  <2> HIDE DEF h
  <2>7. NSlots <= Cardinality(Others(held'))
    BY <1>0, <1>6, <1>9, <2>2, <2>5, <2>6, AllTaken
  <2> QED  BY <1>6, <2>7 DEF HeldOrdered
<1>10. CASE Kept(held) /\ s # h
  <2>1. KeySet[k] # KeySet[held.key]
    <3>1. k \in KeySet[k] /\ cachedKeyIDs[h].data = KeySet[held.key]
      BY <1>10, KeysAssumption DEF Kept, KeysAssumption
    <3>2. k \notin cachedKeyIDs[h].data
      <4>1. CASE CachedSlots(k) # {}
        BY <1>0, <1>10, <4>1 DEF Order
      <4>2. CASE CachedSlots(k) = {}
        BY <1>0, <4>2 DEF CachedSlots
      <4> QED  BY <4>1, <4>2
    <3> QED  BY <3>1, <3>2
  <2>2. Others(held') = Others(held) \cup {KeySet[k]}
    BY <1>5, <2>1
  <2>3. \A t \in Slots : cachedKeyIDs'[t].time > cachedKeyIDs'[h].time =>
            cachedKeyIDs'[t].data \in Others(held')
    BY <1>0, <1>2, <1>3, <1>10, <2>2 DEF Kept
  <2>4. Kept(held)'
    BY <1>0, <1>1, <1>2, <1>10, <2>3 DEF Kept
  <2> QED  BY <1>6, <2>4 DEF HeldOrdered, Kept
<1> QED  BY <1>4, <1>7, <1>8, <1>9, <1>10

LEMMA UseOrder ==
    ASSUME Apart, OrderInv, TypeOK', NEW c \in Callers, CreateDrmSession(c)
    PROVE  Order' /\ Gone' /\ Serving' /\ HeldOrdered'
<1> DEFINE k == req[c].key
           s == SelectSlot(k)
<1> USE DEF OrderInv
<1>0. /\ pc \in [Callers -> {"idle", "enter"} \cup Inside]
      /\ req \in [Callers -> [key : Keys, slot : Slots, tune : Nat]]
      /\ cachedKeyIDs \in [Slots -> [data : SUBSET Keys, failed : BOOLEAN, time : Nat]]
      /\ clock \in Nat /\ k \in Keys /\ s \in Slots /\ Decryptor \in Callers
      /\ CachedSlots(k) # {} => k \in cachedKeyIDs[s].data
      /\ pc[c] = "enter" /\ mDrmSessionLock = Nobody
  BY TypeParts, SelectSlotIn DEF RequestTypes, SlotTypes, Callers, TypeOK, CreateDrmSession, CachedSlots
<1>1. \A d \in Callers : pc[d] \notin Inside
  BY <1>0, CallersAssumption DEF Lock, CallersAssumption, Callers
<1>2. UNCHANGED <<apc, slotToClear, newTune, session>>
  BY CallerFrame DEF CallerNext, CreateDrmSession
<1>3. c = Decryptor => held = NotHeld /\ apc \notin {"stopped", "clear", "delete"}
  BY <1>0 DEF Serving, Gone
<1>4. CASE Ends(c) /\ UNCHANGED <<cachedKeyIDs, clock, held>>
  <2>1. \A d \in Callers : pc'[d] \notin Inside /\ (d # c => pc'[d] = pc[d] /\ req'[d] = req[d])
    BY <1>0, <1>1, <1>4 DEF Ends, Inside
  <2>2. Order'
    BY <1>4 DEF Order
  <2>3. Gone'
    BY <1>0, <1>2, <1>4 DEF Gone, Ends
  <2>4. pc'[Decryptor] # "idle" => pc'[Decryptor] = pc[Decryptor]
    BY <1>0, <1>4, <2>1 DEF Ends
  <2>5. Serving'
    BY <1>0, <1>4, <2>1, <2>4 DEF Serving, Working, Inside
  <2>6. HeldOrdered'
    BY <1>2, <1>4, <2>1 DEF HeldOrdered, Kept, Working, Inside
  <2> QED  BY <2>2, <2>3, <2>5, <2>6
<1>5. CASE UseSlot(c, s) /\ ~(CachedSlots(k) # {} /\ cachedKeyIDs[s].failed)
  <2>1. PICK d \in Ticks :
           /\ clock' = clock + d
           /\ cachedKeyIDs' = [cachedKeyIDs EXCEPT ![s] =
                [data |-> IF CachedSlots(k) # {} THEN @.data ELSE KeySet[k],
                 failed |-> FALSE, time |-> clock + d]]
    BY <1>5 DEF UseSlot
  <2>2. /\ pc' = [pc EXCEPT ![c] = "session"] /\ req' = [req EXCEPT ![c].slot = s]
        /\ held' = IF held # NotHeld THEN [held EXCEPT !.since = @ \cup {k}] ELSE held
    BY <1>5 DEF UseSlot
  <2>3. d \in Nat /\ d > 0
    BY BoundsAssumption DEF BoundsAssumption, Apart
  <2>4. /\ \A t \in Slots : t # s => cachedKeyIDs'[t] = cachedKeyIDs[t]
        /\ cachedKeyIDs'[s].time = clock + d /\ ~cachedKeyIDs'[s].failed
        /\ cachedKeyIDs'[s].data = IF CachedSlots(k) # {} THEN cachedKeyIDs[s].data ELSE KeySet[k]
    BY <1>0, <2>1
  <2>5. /\ \A e \in Callers : e # c => pc'[e] = pc[e] /\ req'[e] = req[e]
        /\ pc'[c] = "session" /\ req'[c].slot = s /\ req'[c].key = k
    BY <1>0, <2>2
  <2>6. k \in cachedKeyIDs'[s].data
    BY <1>0, <2>4, KeysAssumption DEF KeysAssumption
  <2>7. Order'
    <3>1. \A t \in Slots : cachedKeyIDs'[t].time <= clock' /\ (t # s => cachedKeyIDs'[t].time < clock')
      BY <1>0, <2>1, <2>3, <2>4 DEF Order
    <3>2. \A t \in Slots : t # s => cachedKeyIDs'[t].time # cachedKeyIDs'[s].time
      BY <1>0, <2>1, <2>4, <3>1
    <3>3. ASSUME NEW t \in Slots, t # s
          PROVE  cachedKeyIDs'[t].data \cap cachedKeyIDs'[s].data = {}
      <4>1. CASE CachedSlots(k) # {}
        BY <1>0, <2>4, <3>3, <4>1 DEF Order
      <4>2. CASE CachedSlots(k) = {}
        <5>1. \A l \in KeySet[k] : KeySet[l] = KeySet[k] /\ k \in KeySet[k]
          BY <1>0, KeysAssumption DEF KeysAssumption
        <5>2. \A l \in cachedKeyIDs[t].data : k \notin KeySet[l]
          BY <1>0, <4>2 DEF Contents, CachedSlots
        <5> QED  BY <2>4, <3>3, <4>2, <5>1, <5>2
      <4> QED  BY <4>1, <4>2
    <3> QED  BY <2>4, <3>1, <3>2, <3>3 DEF Order
  <2>8. Gone'
    BY <1>0, <1>2, <1>3, <2>2, <2>5 DEF Gone
  <2>9. Serving'
    <3>1. CASE c = Decryptor
      <4>1. \A t \in Slots : cachedKeyIDs'[t].time <= cachedKeyIDs'[s].time
        BY <1>0, <2>3, <2>4 DEF Order
      <4>2. cachedKeyIDs'[s].time > 0
        BY <1>0, <2>3, <2>4
      <4> QED  BY <1>3, <2>2, <2>4, <2>5, <2>6, <3>1, <4>1, <4>2 DEF Serving, Working
    <3>2. CASE c # Decryptor
      <4>1. pc'[Decryptor] = pc[Decryptor] /\ pc[Decryptor] \notin Inside
        BY <1>0, <1>1, <2>5, <3>2
      <4>2. held = NotHeld => held' = NotHeld
        BY <2>2
      <4> QED  BY <4>1, <4>2 DEF Serving, Working, Inside
    <3> QED  BY <3>1, <3>2
  <2>10. HeldOrdered'
    <3>1. CASE held = NotHeld
      BY <2>2, <3>1 DEF HeldOrdered
    <3>2. CASE held # NotHeld
      <4>1. \A e \in Callers : pc'[e] \notin Working
        BY <1>1, <2>5 DEF Working, Inside
      <4> HIDE DEF s, k
      <4> QED  BY <1>0, <1>2, <1>5, <2>1, <2>2, <3>2, <4>1, HeldUse DEF s
    <3> QED  BY <3>1, <3>2
  <2> QED  BY <2>7, <2>8, <2>9, <2>10
<1> QED  BY <1>4, <1>5 DEF CreateDrmSession, Return, Ends

LEMMA RequestOrder ==
    ASSUME OrderInv, TypeOK', NEW c \in Callers, NEW k, Request(c, k)
    PROVE  Order' /\ Gone' /\ Serving' /\ HeldOrdered'
<1> USE DEF OrderInv
<1>0. /\ pc \in [Callers -> {"idle", "enter"} \cup Inside]
      /\ req \in [Callers -> [key : Keys, slot : Slots, tune : Nat]]
      /\ Decryptor \in Callers
  BY TypeParts DEF RequestTypes, Callers
<1>1. /\ pc[c] = "idle" /\ pc' = [pc EXCEPT ![c] = "enter"]
      /\ req' = [req EXCEPT ![c] = NewRequest(k, tunes)]
      /\ held' = IF c = Decryptor THEN NotHeld ELSE held
      /\ apc = "play" \/ (c = Decryptor /\ apc \in {"abort", "halt", "join"})
      /\ UNCHANGED <<cachedKeyIDs, session, clock, apc, slotToClear, newTune>>
  BY DEF Request, slots, player
<1>2. \A d \in Callers : /\ d # c => pc'[d] = pc[d] /\ req'[d] = req[d]
                         /\ pc'[d] \in Inside => d # c
  BY <1>0, <1>1 DEF Inside
<1>3. Order' /\ Gone'
  BY <1>1 DEF Order, Gone
<1>4. Serving'
  BY <1>0, <1>1, <1>2 DEF Serving, Working, Inside
<1>5. HeldOrdered'
  BY <1>0, <1>1, <1>2 DEF HeldOrdered, Kept, Working, Inside
<1> QED  BY <1>3, <1>4, <1>5

LEMMA PlayerOrder ==
    ASSUME OrderInv, TypeOK', PlayerNext \/ Tune \/ Stop \/ Seek
    PROVE  Order' /\ Gone' /\ Serving' /\ HeldOrdered'
<1> USE DEF OrderInv
<1>0. /\ cachedKeyIDs \in [Slots -> [data : SUBSET Keys, failed : BOOLEAN, time : Nat]]
      /\ session \in [Slots -> {NoSession} \cup
                     [key : Keys, state : {"init", "pending", "ready", "error"}]]
      /\ apc = "delete" => slotToClear \in Slots
      /\ clock \in Nat
  BY TypeParts DEF SlotTypes, SessionTypes, PlayerTypes, TypeOK
<1>1. UNCHANGED <<config, pc, req, clock>>
  BY PlayerFrame DEF callers, PlayerNext, Tune, Stop, Seek, ClearDrmSession, ClearSlot,
         ClearFailedKeyIds, SetLicenseRequestAbort, StopStream, JoinLicenseThread, StopSink
<1>2. CASE Stop \/ SetLicenseRequestAbort \/ Seek \/ StopStream \/ JoinLicenseThread
  BY <1>1, <1>2 DEF Stop, SetLicenseRequestAbort, Seek, StopStream, JoinLicenseThread, slots,
                    Order, Gone, Serving, HeldOrdered, Kept
<1>3. CASE Tune
  BY <1>1, <1>3 DEF Tune, slots, Order, Gone, Serving, HeldOrdered, Kept
<1>4. CASE StopSink
  <2>1. /\ pc[Decryptor] = "idle" /\ held' \in {held, NotHeld} /\ UNCHANGED slots
        /\ apc' # "delete" /\ newTune' = newTune /\ (newTune => held' = NotHeld)
    BY <1>4 DEF StopSink
  <2>2. Order' /\ Gone' /\ Serving'
    BY <1>1, <2>1 DEF Order, Gone, Serving, slots, Working
  <2>3. HeldOrdered'
    BY <1>1, <2>1 DEF HeldOrdered, Kept, slots
  <2> QED  BY <2>2, <2>3
<1>5. CASE ClearDrmSession
  <2>1. apc = "clear" /\ UNCHANGED <<cachedKeyIDs, session, held, newTune>>
        /\ (apc' = "delete" => /\ slotToClear' = slotToClear
                               /\ cachedKeyIDs[slotToClear].failed \/ newTune)
        /\ apc' \in {"clear", "delete"}
    BY <1>5 DEF ClearDrmSession, slots, forceClearSession
  <2>2. Order' /\ Gone' /\ Serving'
    BY <1>1, <2>1 DEF Order, Gone, Serving
  <2>3. held # NotHeld => ~newTune
    BY <2>1 DEF Gone
  <2>4. HeldOrdered'
    BY <1>1, <2>1, <2>3 DEF HeldOrdered, Kept
  <2> QED  BY <2>2, <2>4
<1>6. CASE ClearSlot
  <2>1. /\ apc = "delete" /\ session' = [session EXCEPT ![slotToClear] = NoSession]
        /\ DeleteSession(slotToClear) /\ apc' = "clear"
        /\ UNCHANGED <<cachedKeyIDs, newTune>>
    BY <1>6 DEF ClearSlot
  <2>2. pc[Decryptor] = "idle" /\ (newTune => held = NotHeld)
    BY <2>1 DEF Gone
  <2>3. held = NotHeld => held' = NotHeld
    BY <1>0, <2>1, SlotsAssumption DEF DeleteSession, NotHeld, Slots, SlotsAssumption
  <2>4. Order' /\ Gone' /\ Serving'
    BY <1>1, <2>1, <2>2, <2>3 DEF Order, Gone, Serving, Working
  <2>5. CASE held # NotHeld /\ Kept(held)
    <3>1. held.slot # slotToClear /\ held.slot \in Slots
      BY <2>1, <2>5, HeldSlot DEF Kept
    <3>2. held' = held /\ session'[held.slot] = session[held.slot]
      BY <1>0, <2>1, <3>1 DEF DeleteSession
    <3>3. HeldOrdered'
      BY <1>1, <2>1, <2>5, <3>2 DEF HeldOrdered, Kept
    <3> QED  BY <2>4, <3>3
  <2>6. CASE held # NotHeld /\ ~Kept(held)
    <3>1. held'.key = held.key /\ held'.since = held.since
      BY <2>1, <2>6, TypeParts DEF SessionTypes, DeleteSession
    <3>2. Others(held') = Others(held)
      BY <3>1 DEF Others
    <3> QED  BY <2>4, <2>6, <3>2 DEF HeldOrdered
  <2>7. CASE held = NotHeld
    BY <2>3, <2>4, <2>7 DEF HeldOrdered
  <2> QED  BY <2>5, <2>6, <2>7
<1>7. CASE ClearFailedKeyIds
  <2>1. /\ cachedKeyIDs' = [t \in Slots |-> IF cachedKeyIDs[t].failed THEN FreeSlot ELSE cachedKeyIDs[t]]
        /\ apc = "clear" /\ apc' = "play" /\ UNCHANGED <<session, held, newTune>>
    BY <1>7 DEF ClearFailedKeyIds
  <2>2. pc[Decryptor] = "idle"
    BY <2>1 DEF Gone
  <2>3. \A t \in Slots : \/ cachedKeyIDs'[t] = cachedKeyIDs[t] /\ ~cachedKeyIDs[t].failed
                         \/ cachedKeyIDs'[t] = FreeSlot /\ cachedKeyIDs[t].failed
    BY <2>1
  <2>4. Order'
    BY <1>0, <1>1, <2>3 DEF Order, FreeSlot
  <2>5. Gone' /\ Serving'
    BY <1>1, <2>1, <2>2 DEF Gone, Serving, Working
  <2>6. CASE held # NotHeld /\ Kept(held)
    <3>1. held.slot \in Slots /\ cachedKeyIDs'[held.slot] = cachedKeyIDs[held.slot]
      BY <2>3, <2>6, HeldSlot DEF Kept
    <3>2. \A t \in Slots : cachedKeyIDs'[t].time > cachedKeyIDs'[held.slot].time =>
              cachedKeyIDs'[t].data \in Others(held)
      <4>1. ASSUME NEW t \in Slots, cachedKeyIDs'[t].time > cachedKeyIDs'[held.slot].time
            PROVE  cachedKeyIDs'[t] = cachedKeyIDs[t]
        BY <1>0, <2>3, <2>6, <3>1, <4>1 DEF FreeSlot, Kept
      <4> QED  BY <2>6, <3>1, <4>1 DEF Kept
    <3>3. HeldOrdered'
      BY <1>1, <2>1, <2>6, <3>1, <3>2 DEF HeldOrdered, Kept
    <3> QED  BY <2>4, <2>5, <3>3
  <2>7. CASE ~(held # NotHeld /\ Kept(held))
    BY <2>1, <2>4, <2>5, <2>7 DEF HeldOrdered
  <2> QED  BY <2>6, <2>7
<1> QED  BY <1>2, <1>3, <1>4, <1>5, <1>6, <1>7 DEF PlayerNext

LEMMA OrderInit == Init => OrderInv
<1> SUFFICES ASSUME Init PROVE OrderInv
  OBVIOUS
<1>1. TypeOK /\ Lock /\ Contents
  BY SafeInit DEF SafeInv
<1>2. Order
  BY DEF Init, Order, FreeSlot
<1>3. Gone /\ Serving /\ HeldOrdered
  BY DEF Init, Gone, Serving, HeldOrdered, Working, Callers
<1> QED  BY <1>1, <1>2, <1>3 DEF OrderInv

LEMMA OrderStep == Apart /\ OrderInv /\ [Next]_vars => OrderInv'
<1> SUFFICES ASSUME Apart, OrderInv, [Next]_vars PROVE OrderInv'
  OBVIOUS
<1>1. TypeOK'
  BY TypeCaller, TypePlayer, TypeStutter DEF OrderInv, Next
<1>2. Lock' /\ Contents'
  BY LockStep, ContentsStep DEF OrderInv
<1>3. Order' /\ Gone' /\ Serving' /\ HeldOrdered'
  <2>1. ASSUME NEW c \in Callers, CallerNext(c) PROVE Order' /\ Gone' /\ Serving' /\ HeldOrdered'
    BY <1>1, <2>1, UseOrder, GetOrder, WorkOrder
  <2>2. ASSUME NEW c \in Callers, NEW k, Request(c, k) PROVE Order' /\ Gone' /\ Serving' /\ HeldOrdered'
    BY <1>1, <2>2, RequestOrder
  <2>3. CASE PlayerNext \/ Tune \/ Stop \/ Seek
    BY <1>1, <2>3, PlayerOrder
  <2>4. CASE UNCHANGED vars
    BY <2>4 DEF vars, slots, locks, player, OrderInv, Order, Gone, Serving, HeldOrdered, Kept
  <2> QED  BY <2>1, <2>2, <2>3, <2>4 DEF Next
<1> QED  BY <1>1, <1>2, <1>3 DEF OrderInv

\* getSlotIdForSession and the clearing of slots: as long as two uses are a millisecond
\* apart, the session of the decryptor lives on while fewer other contents than slots are
\* asked for, in DASH and in HLS, whatever fails, is cleared, sought or stopped meanwhile.
THEOREM LastUsedIsKept == ASSUME Apart PROVE Spec => []LastUsedSurvives
<1>1. OrderInv => LastUsedSurvives
  <2> SUFFICES ASSUME OrderInv, held # NotHeld, Cardinality(Others(held)) < NSlots
               PROVE  held.live
    BY DEF LastUsedSurvives, Others
  <2>1. Cardinality(Others(held)) \in Nat /\ (NSlots <= Cardinality(Others(held)) \/ Kept(held))
    BY FS_CardinalityType DEF OrderInv, HeldOrdered
  <2> QED  BY <2>1, SlotsAssumption DEF SlotsAssumption, Kept
<1>2. Apart
  OBVIOUS
<1>3. OrderInv /\ [Next]_vars => OrderInv'
  BY <1>2, OrderStep
<1> QED  BY <1>1, <1>3, OrderInit, PTL DEF Spec
===============================================================================
