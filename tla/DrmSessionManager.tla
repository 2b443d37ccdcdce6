------------------------- MODULE DrmSessionManager -------------------------
(* AampDRMSessionManager: the slots of DRM sessions, the requests of the    *)
(* licence thread and of the decryptor for a session, and the player that   *)
(* begins a stream, seeks and stops beside them.                            *)
(*                                                                          *)
(* A slot has two parts under two mutexes: the cached key ids, their failed *)
(* mark and their time (cachedKeyMutex, held for one step only), and the    *)
(* session (sessionMutex, held over the whole licence request).  The whole  *)
(* of createDrmSession is under mDrmSessionLock; the player's clean-up is    *)
(* not.                                                                     *)
EXTENDS Integers, FiniteSets

CONSTANTS
    NSlots,         \* mMaxDRMSessions
    Keys,           \* the key ids of the contents
    KeySet,         \* drmHelper->getKeys: the key ids that come with a key id
    Asks,           \* caller -> the key ids it asks for
    License,        \* the licence thread, CreateDRMSession
    Decryptor,      \* the decryptor of the pipeline (external)
    Nobody,         \* a mutex without an owner
    Configs,        \* the configurations to look at
    Ticks,          \* the milliseconds that may pass between two requests
    MaxRequests,    \* bounds the requests
    MaxTunes        \* bounds the streams

ASSUME SlotsAssumption == NSlots \in Nat \ {0}
ASSUME KeysAssumption ==
    /\ "none" \notin Keys /\ Keys # {}
    /\ KeySet \in [Keys -> SUBSET Keys]
    /\ \A k \in Keys : k \in KeySet[k] /\ \A l \in KeySet[k] : KeySet[l] = KeySet[k]
ASSUME CallersAssumption == License # Decryptor /\ Nobody \notin {License, Decryptor}
ASSUME AsksAssumption == Asks \in [{License, Decryptor} -> SUBSET Keys]
ASSUME ConfigsAssumption == Configs \subseteq [hls : BOOLEAN, needsToken : BOOLEAN,
                                               setLicenseCaching : BOOLEAN]
ASSUME BoundsAssumption == Ticks \subseteq Nat /\ MaxRequests \in Nat /\ MaxTunes \in Nat

VARIABLES
    config,         \* one of Configs
    cachedKeyIDs,   \* slot -> key ids, failed mark and time
    session,        \* slot -> its session: the key it was made for and its state
    sessionMutex,   \* slot -> who holds it over the licence request
    mDrmSessionLock,
    active,         \* sessionMgrState
    curlSessionAbort,
    licenseRequestAbort,
    accessToken,    \* it is cached
    clock,          \* aamp_GetCurrentTimeMS
    pc,             \* caller -> where it is in createDrmSession
    req,            \* caller -> the key, slot and stream of its request
    requests,
    apc,            \* where the player is
    newTune,        \* the next stream is a new one, not a seek
    slotToClear,    \* the position of clearDrmSession's loop
    tunes,
    held,           \* history: the session the decryptor uses
    failedKeys,     \* history: the keys whose request failed since the stream began
    refusedFresh,   \* history: a key was refused whose request had not failed
    noisyStop       \* history: a request that Stop ended sent an error event

slots == <<cachedKeyIDs, session>>
locks == <<sessionMutex, mDrmSessionLock>>
aborts == <<curlSessionAbort, licenseRequestAbort>>
player == <<apc, newTune, slotToClear, tunes>>
verdicts == <<refusedFresh, noisyStop>>
vars == <<config, slots, locks, active, aborts, accessToken, clock, pc, req, requests,
          player, held, failedKeys, verdicts>>

Slots == 1 .. NSlots
Callers == {License, Decryptor}
NoSession == [key |-> "none", state |-> "none"]
NotHeld == [slot |-> 0, key |-> "none", since |-> {}, live |-> TRUE]
FreeSlot == [data |-> {}, failed |-> FALSE, time |-> 0]

NewRequest(k, tune) ==
    [key |-> k, slot |-> 1, tune |-> tune]

NoRequest == NewRequest(CHOOSE k \in Keys : TRUE, 0)

TypeOK ==
    /\ config \in Configs
    /\ cachedKeyIDs \in [Slots -> [data : SUBSET Keys, failed : BOOLEAN, time : Nat]]
    /\ session \in [Slots -> {NoSession} \cup
                     [key : Keys, state : {"init", "pending", "ready", "error"}]]
    /\ sessionMutex \in [Slots -> Callers \cup {Nobody}]
    /\ mDrmSessionLock \in Callers \cup {Nobody}
    /\ {active, curlSessionAbort, licenseRequestAbort, accessToken, newTune} \subseteq BOOLEAN
    /\ clock \in Nat /\ requests \in Nat /\ tunes \in Nat
    /\ pc \in [Callers -> {"idle", "enter", "session", "init", "challenge", "token",
                           "license", "process", "crash"}]
    /\ req \in [Callers -> [key : Keys, slot : Slots, tune : Nat]]
    /\ apc \in {"stopped", "clear", "delete", "play", "abort", "halt", "join", "sink"}
    /\ slotToClear \in 1 .. NSlots + 1
    /\ apc = "delete" => slotToClear \in Slots
    /\ held \in {NotHeld} \cup
                [slot : Slots, key : Keys, since : SUBSET Keys, live : BOOLEAN]
    /\ failedKeys \subseteq Keys
    /\ {refusedFresh, noisyStop} \subseteq BOOLEAN

Init ==
    /\ config \in Configs
    /\ cachedKeyIDs = [s \in Slots |-> FreeSlot]
    /\ session = [s \in Slots |-> NoSession]
    /\ sessionMutex = [s \in Slots |-> Nobody]
    /\ mDrmSessionLock = Nobody
    /\ active = TRUE
    /\ curlSessionAbort = FALSE /\ licenseRequestAbort = FALSE
    /\ accessToken = FALSE
    /\ clock = 1
    /\ pc = [c \in Callers |-> "idle"]
    /\ req = [c \in Callers |-> NoRequest]
    /\ requests = 0
    /\ apc = "stopped" /\ newTune = TRUE /\ slotToClear = 1 /\ tunes = 0
    /\ held = NotHeld
    /\ failedKeys = {}
    /\ refusedFresh = FALSE /\ noisyStop = FALSE

-----------------------------------------------------------------------------
(* createDrmSession, up to its return                                       *)

\* The return of createDrmSession: with a session, or with the failure of the event that
\* the licence thread then sends, if it is not a self abort.
Return(c, failure, stopped) ==
    /\ pc' = [pc EXCEPT ![c] = "idle"]
    /\ mDrmSessionLock' = Nobody
    /\ req' = [req EXCEPT ![c] = NoRequest]
    /\ refusedFresh' = (refusedFresh \/ (failure = "refused" /\ req[c].tune = tunes
                                          /\ req[c].key \notin failedKeys))
    /\ noisyStop' = (noisyStop \/ (c = License /\ stopped /\ failure # "selfAbort"))

Goto(c, l) == pc' = [pc EXCEPT ![c] = l] /\ UNCHANGED <<mDrmSessionLock, req, verdicts>>

\* cachedKeyIDs[selectedSlot].isFailedKeyId = true
MarkFailed(c) ==
    /\ cachedKeyIDs' = [cachedKeyIDs EXCEPT ![req[c].slot].failed = TRUE]
    /\ failedKeys' = IF req[c].tune = tunes THEN failedKeys \cup KeySet[req[c].key]
                     ELSE failedKeys

Fail(c, failure, stopped) == MarkFailed(c) /\ Return(c, failure, stopped)

\* The decryptor has its session until it asks for the next one.
Deliver(c) ==
    /\ Return(c, "none", FALSE)
    /\ held' = IF c = Decryptor
               THEN [slot |-> req[c].slot, key |-> req[c].key, since |-> {}, live |-> TRUE]
               ELSE held

DeleteSession(s) == held' = IF held.slot = s THEN [held EXCEPT !.live = FALSE] ELSE held

\* The threads that call it: the collector starts the licence thread, the protection
\* event reaches the decryptor.
Request(c, k) ==
    /\ pc[c] = "idle" /\ requests < MaxRequests
    /\ apc = "play" \/ (c = Decryptor /\ apc \in {"abort", "halt", "join"})
    /\ requests' = requests + 1
    /\ req' = [req EXCEPT ![c] = NewRequest(k, tunes)]
    /\ pc' = [pc EXCEPT ![c] = "enter"]
    /\ held' = IF c = Decryptor THEN NotHeld ELSE held
    /\ UNCHANGED <<config, slots, locks, active, aborts, accessToken, clock, player, failedKeys,
                   verdicts>>

CachedSlots(k) == {s \in Slots : k \in cachedKeyIDs[s].data}

First(S) == CHOOSE s \in S : \A t \in S : s <= t

\* mutant: the first slot that is free, else the first one
OldestByIndex ==
    IF \E s \in Slots : cachedKeyIDs[s].time = 0
    THEN First({s \in Slots : cachedKeyIDs[s].time = 0}) ELSE 1

\* The slot with the oldest time, the first of them.
Oldest ==
    First({s \in Slots : \A t \in Slots : cachedKeyIDs[s].time <= cachedKeyIDs[t].time})

SelectSlot(k) == IF CachedSlots(k) # {} THEN First(CachedSlots(k)) ELSE Oldest

\* The time of the slot, and its key ids if the key is new to the cache.
UseSlot(c, s) ==
    \E d \in Ticks :
        /\ clock' = clock + d
        /\ cachedKeyIDs' = [cachedKeyIDs EXCEPT ![s] =
              [data |-> IF CachedSlots(req[c].key) # {} THEN @.data ELSE KeySet[req[c].key],
               failed |-> FALSE, time |-> clock + d]]
        /\ req' = [req EXCEPT ![c].slot = s]
        /\ pc' = [pc EXCEPT ![c] = "session"]
        /\ mDrmSessionLock' = c
        /\ UNCHANGED verdicts
        /\ held' = IF held # NotHeld THEN [held EXCEPT !.since = @ \cup {req[c].key}] ELSE held

\* mDrmSessionLock, the state of the manager, and the slot under cachedKeyMutex.
CreateDrmSession(c) ==
    /\ pc[c] = "enter" /\ mDrmSessionLock = Nobody
    /\ LET s == SelectSlot(req[c].key) IN
       \/ ~active /\ Return(c, "unknown", TRUE) /\ UNCHANGED <<cachedKeyIDs, clock, held>>
       \/ /\ active /\ CachedSlots(req[c].key) # {} /\ cachedKeyIDs[s].failed
          /\ Return(c, "refused", FALSE) /\ UNCHANGED <<cachedKeyIDs, clock, held>>
       \/ /\ active /\ ~(CachedSlots(req[c].key) # {} /\ cachedKeyIDs[s].failed)
          /\ UseSlot(c, s)
    /\ UNCHANGED <<config, session, sessionMutex, active, aborts, accessToken, requests,
                   player, failedKeys>>

\* The rest of getDrmSession, under sessionMutex: the session of the slot is used again
\* when it was made for one of the slot's key ids, else it is replaced.
GetDrmSession(c) ==
    LET s == req[c].slot
        old == session[s]
        same == old.key \in cachedKeyIDs[s].data IN
    /\ pc[c] = "session" /\ sessionMutex[s] = Nobody
    /\ \/ /\ same /\ old.state = "ready"
          /\ Deliver(c) /\ UNCHANGED <<slots, failedKeys>>
       \/ /\ same /\ old.state = "init"
          /\ Goto(c, "init") /\ UNCHANGED <<slots, held, failedKeys>>
       \/ /\ same /\ old.state \in {"pending", "error"}
          /\ cachedKeyIDs' = [cachedKeyIDs EXCEPT ![s].failed = TRUE]
          /\ Return(c, "refused", FALSE) /\ UNCHANGED <<session, held, failedKeys>>
       \/ /\ ~same
          /\ session' = [session EXCEPT ![s] = [key |-> req[c].key, state |-> "init"]]
          /\ DeleteSession(s)
          /\ Goto(c, "init") /\ UNCHANGED <<cachedKeyIDs, failedKeys>>
    /\ UNCHANGED <<config, sessionMutex, active, aborts, accessToken, clock, requests, player>>

\* A step that uses the session of the slot, which may be gone.
Crash(c) ==
    /\ pc[c] \in {"init", "challenge", "token", "license", "process"}
    /\ session[req[c].slot] = NoSession
    /\ Goto(c, "crash")
    /\ UNCHANGED <<config, slots, sessionMutex, active, aborts, accessToken, clock, requests,
                   player, held, failedKeys>>

SetState(c, state) == session' = [session EXCEPT ![req[c].slot].state = state]

Uses(c, l) == pc[c] = l /\ session[req[c].slot] # NoSession

\* initializeDrmSession
InitializeDrmSession(c) ==
    /\ Uses(c, "init") /\ sessionMutex[req[c].slot] = Nobody
    /\ \/ Goto(c, "challenge") /\ UNCHANGED <<slots, failedKeys>>
       \/ SetState(c, "error") /\ Fail(c, "bind", FALSE)
    /\ UNCHANGED <<config, sessionMutex, active, aborts, accessToken, clock, requests,
                   player, held>>

\* acquireLicense takes sessionMutex: the challenge, in time or not.
GenerateKeyRequest(c) ==
    /\ Uses(c, "challenge") /\ sessionMutex[req[c].slot] = Nobody
    /\ \/ /\ SetState(c, "pending")
          /\ sessionMutex' = [sessionMutex EXCEPT ![req[c].slot] = c]
          /\ Goto(c, IF config.needsToken /\ ~accessToken THEN "token" ELSE "license")
          /\ UNCHANGED <<cachedKeyIDs, failedKeys>>
       \/ /\ SetState(c, "error") /\ Fail(c, "challenge", FALSE)
          /\ UNCHANGED sessionMutex
    /\ UNCHANGED <<config, active, aborts, accessToken, clock, requests, player, held>>

\* mutant: the mutex is not released on the way out
ReleaseSessionNot(c) == UNCHANGED sessionMutex

ReleaseSession(c) == sessionMutex' = [sessionMutex EXCEPT ![req[c].slot] = Nobody]

\* progress_callback: the flag of one abort ends one transfer.
TransferAborted == curlSessionAbort /\ curlSessionAbort' = FALSE
                   /\ UNCHANGED licenseRequestAbort

\* The token is fetched, or not: without it a request ends, and says so unless
\* licenseRequestAbort is set.
GetAccessToken(c) ==
    /\ Uses(c, "token")
    /\ \/ accessToken' = TRUE /\ Goto(c, "license")
          /\ UNCHANGED <<slots, sessionMutex, aborts, failedKeys>>
       \/ /\ Fail(c, IF licenseRequestAbort THEN "selfAbort" ELSE "token", FALSE)
          /\ ReleaseSession(c) /\ UNCHANGED <<session, accessToken, aborts>>
       \/ /\ TransferAborted
          /\ Fail(c, IF licenseRequestAbort THEN "selfAbort" ELSE "token", TRUE)
          /\ ReleaseSession(c) /\ UNCHANGED <<session, accessToken>>
    /\ UNCHANGED <<config, active, clock, requests, player, held>>

\* mutant: an aborted transfer is a failed one
GetLicenseUnsilenced(c) ==
    /\ Uses(c, "license")
    /\ \/ /\ ~licenseRequestAbort
          /\ Goto(c, "process") /\ UNCHANGED <<slots, aborts, failedKeys>>
       \/ /\ Fail(c, "license", licenseRequestAbort) /\ UNCHANGED <<session, aborts>>
       \/ TransferAborted /\ Fail(c, "license", TRUE) /\ UNCHANGED session
    /\ ReleaseSession(c)
    /\ UNCHANGED <<config, active, accessToken, clock, requests, player, held>>

\* getLicense and handleLicenseResponse: an aborted request is silent.
GetLicense(c) ==
    /\ Uses(c, "license")
    /\ \/ /\ ~licenseRequestAbort
          /\ Goto(c, "process") /\ UNCHANGED <<slots, aborts, failedKeys>>
       \/ /\ ~licenseRequestAbort
          /\ Fail(c, "license", FALSE) /\ UNCHANGED <<session, aborts>>
       \/ licenseRequestAbort /\ Fail(c, "selfAbort", TRUE) /\ UNCHANGED <<session, aborts>>
       \/ TransferAborted /\ Fail(c, "selfAbort", TRUE) /\ UNCHANGED session
    /\ ReleaseSession(c)
    /\ UNCHANGED <<config, active, accessToken, clock, requests, player, held>>

\* processLicenseResponse and aampDRMProcessKey, after sessionMutex was released: the key
\* is usable, is not, or the CDM refuses the license, which leaves the state pending.
ProcessLicenseResponse(c) ==
    /\ Uses(c, "process")
    /\ \/ SetState(c, "ready") /\ Deliver(c) /\ UNCHANGED <<cachedKeyIDs, failedKeys>>
       \/ SetState(c, "error") /\ Fail(c, "key", FALSE) /\ UNCHANGED held
       \/ Fail(c, "key", FALSE) /\ UNCHANGED <<session, held>>
    /\ UNCHANGED <<config, sessionMutex, active, aborts, accessToken, clock, requests, player>>

-----------------------------------------------------------------------------
(* The player                                                               *)

callers == <<config, accessToken, clock, pc, req, requests, locks, verdicts>>

\* Init of the stream of a tune.
Tune ==
    /\ apc = "stopped" /\ tunes < MaxTunes
    /\ tunes' = tunes + 1
    /\ slotToClear' = 1
    /\ apc' = "clear"
    /\ UNCHANGED <<callers, slots, active, aborts, newTune, held, failedKeys>>

forceClearSession == newTune /\ ~config.setLicenseCaching

\* clearDrmSession looks at the mark of the slot without cachedKeyMutex ...
ClearDrmSession ==
    /\ apc = "clear" /\ slotToClear <= NSlots
    /\ \/ /\ cachedKeyIDs[slotToClear].failed \/ forceClearSession
          /\ apc' = "delete" /\ UNCHANGED slotToClear
       \/ /\ ~(cachedKeyIDs[slotToClear].failed \/ forceClearSession)
          /\ slotToClear' = slotToClear + 1 /\ UNCHANGED apc
    /\ UNCHANGED <<callers, slots, active, aborts, newTune, tunes, held, failedKeys>>

\* ... and deletes its session when it has sessionMutex.
ClearSlot ==
    /\ apc = "delete" /\ sessionMutex[slotToClear] = Nobody
    /\ session' = [session EXCEPT ![slotToClear] = NoSession]
    /\ DeleteSession(slotToClear)
    /\ slotToClear' = slotToClear + 1
    /\ apc' = "clear"
    /\ UNCHANGED <<callers, cachedKeyIDs, active, aborts, newTune, tunes, failedKeys>>

\* mutant: the marks stay
ClearFailedKeyIdsNot ==
    /\ apc = "clear" /\ slotToClear > NSlots
    /\ active' = TRUE /\ curlSessionAbort' = FALSE /\ licenseRequestAbort' = FALSE
    /\ failedKeys' = {}
    /\ apc' = "play"
    /\ UNCHANGED <<callers, slots, newTune, slotToClear, tunes, held>>

\* clearFailedKeyIds, and the manager is active and not aborted.
ClearFailedKeyIds ==
    /\ apc = "clear" /\ slotToClear > NSlots
    /\ cachedKeyIDs' = [s \in Slots |->
          IF cachedKeyIDs[s].failed THEN FreeSlot ELSE cachedKeyIDs[s]]
    /\ active' = TRUE /\ curlSessionAbort' = FALSE /\ licenseRequestAbort' = FALSE
    /\ failedKeys' = {}
    /\ apc' = "play"
    /\ UNCHANGED <<callers, session, newTune, slotToClear, tunes, held>>

\* PrivateInstanceAAMP::Stop, setLicenseRequestAbort: curlSessionAbort ...
Stop ==
    /\ apc = "play"
    /\ newTune' = TRUE
    /\ curlSessionAbort' = TRUE
    /\ apc' = "abort"
    /\ UNCHANGED <<callers, slots, active, licenseRequestAbort, slotToClear, tunes, held,
                   failedKeys>>

\* ... and licenseRequestAbort.
SetLicenseRequestAbort ==
    /\ apc = "abort"
    /\ licenseRequestAbort' = TRUE
    /\ apc' = "halt"
    /\ UNCHANGED <<callers, slots, active, curlSessionAbort, newTune, slotToClear, tunes,
                   held, failedKeys>>

\* A seek stops the stream without an abort.
Seek ==
    /\ apc = "play" /\ tunes < MaxTunes
    /\ newTune' = FALSE
    /\ apc' = "halt"
    /\ UNCHANGED <<callers, slots, active, aborts, slotToClear, tunes, held, failedKeys>>

\* mutant: the licence thread is not waited for
StopStreamUnjoined ==
    /\ apc = "halt"
    /\ apc' = "sink"
    /\ UNCHANGED <<callers, slots, active, aborts, newTune, slotToClear, tunes, held, failedKeys>>

\* Stop of the stream: DASH joins the licence thread and makes the manager inactive; HLS
\* makes it inactive before the join, and does neither for a seek.
StopStream ==
    /\ apc = "halt"
    /\ \/ ~config.hls /\ apc' = "join" /\ UNCHANGED active
       \/ config.hls /\ newTune /\ apc' = "join" /\ active' = FALSE
       \/ config.hls /\ ~newTune /\ apc' = "sink" /\ UNCHANGED active
    /\ UNCHANGED <<callers, slots, aborts, newTune, slotToClear, tunes, held, failedKeys>>

JoinLicenseThread ==
    /\ apc = "join" /\ pc[License] = "idle"
    /\ active' = FALSE
    /\ apc' = "sink"
    /\ UNCHANGED <<callers, slots, aborts, newTune, slotToClear, tunes, held, failedKeys>>

\* The sink is stopped, or flushed for a seek, which the decryptor may outlive.
StopSink ==
    /\ apc = "sink" /\ pc[Decryptor] = "idle"
    /\ \/ newTune /\ apc' = "stopped" /\ held' = NotHeld /\ UNCHANGED <<slotToClear, tunes>>
       \/ /\ ~newTune
          /\ held' \in {held, NotHeld}
          /\ tunes' = tunes + 1 /\ slotToClear' = 1 /\ apc' = "clear"
    /\ UNCHANGED <<callers, slots, active, aborts, newTune, failedKeys>>

-----------------------------------------------------------------------------
CallerNext(c) ==
    \/ CreateDrmSession(c) \/ GetDrmSession(c) \/ Crash(c) \/ InitializeDrmSession(c)
    \/ GenerateKeyRequest(c) \/ GetAccessToken(c) \/ GetLicense(c) \/ ProcessLicenseResponse(c)

\* What the player does once it has begun a tune, a seek or a stop.
PlayerNext ==
    \/ ClearDrmSession \/ ClearSlot \/ ClearFailedKeyIds \/ SetLicenseRequestAbort
    \/ StopStream \/ JoinLicenseThread \/ StopSink

Next ==
    \/ \E c \in Callers : CallerNext(c) \/ \E k \in Asks[c] : Request(c, k)
    \/ PlayerNext \/ Tune \/ Stop \/ Seek

Spec == Init /\ [][Next]_vars

\* Transfers and the CDM have timeouts, so every call of them ends; the threads run.
FairSpec == Spec /\ WF_vars(PlayerNext) /\ \A c \in Callers : WF_vars(CallerNext(c))

-----------------------------------------------------------------------------
(* Properties                                                               *)

\* A request works on the session it was given by getDrmSession, of one of its key ids, and
\* nobody deletes it meanwhile, though sessionMutex is released between the calls and over
\* the answer of the licence server.  A seek of HLS leaves the licence thread running.
SessionInUse ==
    \A c \in Callers :
        /\ pc[c] \in {"init", "challenge", "token", "license", "process"} =>
              session[req[c].slot].key \in KeySet[req[c].key] \/ config.hls
        /\ pc[c] = "crash" => config.hls

\* A key is refused without a licence request only if a request for it failed since the
\* stream began: what clearFailedKeyIds is for.
RefusedIfFailed ==
    ~config.hls => ~refusedFresh

\* The slots are a cache in the order of use: the session of the decryptor lives on while
\* fewer other contents than slots are asked for, whatever fails and is cleared meanwhile.
\* (Of slots of one millisecond the first is taken, whichever was used last: Ticks without
\* 0 keeps the uses apart.)
LastUsedSurvives ==
    held # NotHeld /\ Cardinality({KeySet[k] : k \in held.since} \ {KeySet[held.key]}) < NSlots
        => held.live

\* "so that DRM error event will not be sent by upper layer": a request that Stop ended has
\* the failure that sends none.  With a token to fetch and in HLS there is a way around it.
StopIsSilent ==
    ~config.hls /\ ~config.needsToken => ~noisyStop

\* Every request returns, and every tune, seek and stop gets to its end.
CallsReturn ==
    /\ \A c \in Callers : pc[c] # "idle" ~> (pc[c] = "idle" \/ \E d \in Callers : pc[d] = "crash")
    /\ apc \notin {"play", "stopped"} ~>
           (apc \in {"play", "stopped"} \/ \E d \in Callers : pc[d] = "crash")
=============================================================================
