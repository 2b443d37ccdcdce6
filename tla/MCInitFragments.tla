-------------------------- MODULE MCInitFragments ---------------------------
(* Instance of AampCacheHandler for TLC without playlists, in which every    *)
(* init fragment is asked for, also the one another is redirected to.        *)
EXTENDS AampCacheHandler

\* Video fragments, of which j is redirected to the audio fragment l, and audio fragments.
MCInitUrls == {"i", "j", "k", "l", "b"}
MCEffective == [u \in MCInitUrls |-> IF u = "j" THEN "l" ELSE u]
MCFileType == [u \in MCInitUrls |-> IF u \in {"l", "b"} THEN "audio" ELSE "video"]
MCSize == Nothing
=============================================================================
