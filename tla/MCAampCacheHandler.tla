------------------------- MODULE MCAampCacheHandler -------------------------
EXTENDS AampCacheHandler

\* A manifest that is redirected, video playlists of which one is redirected to the
\* other, and an audio playlist.
MCUrls == {"m", "n", "v", "w", "a"}
\* Init fragments of two types; one is redirected.
MCInitUrls == {"i", "j", "k", "l", "b"}
MCEffective == [u \in MCUrls \cup MCInitUrls |->
    CASE u = "m" -> "n" [] u = "w" -> "v" [] u = "j" -> "l" [] OTHER -> u]
MCFileType == [u \in MCUrls \cup MCInitUrls |->
    CASE u \in {"m", "n"} -> "manifest" [] u \in {"v", "w", "i", "j", "k", "l"} -> "video"
      [] OTHER -> "audio"]
MCSize == [u \in MCUrls |-> CASE u \in {"m", "n", "a"} -> 1 [] u = "v" -> 2 [] OTHER -> 3]

\* No url is asked for that another one is redirected to.
MCRequested == MCInitUrls \ {"l"}
=============================================================================
