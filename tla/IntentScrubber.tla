--------------------------- MODULE IntentScrubber ---------------------------
(***************************************************************************)
(* aegis/scrubber/intent_scrubber.py, class IntentScrubber: a bounded LRU    *)
(* cache of scrub results that several threads share.  The lock covers the   *)
(* lookup and the insertion, not the scrubbing between them, so two threads   *)
(* may miss the cache for one text and both insert it.                        *)
(***************************************************************************)
EXTENDS Sanitizer, SequencesExt, AegisDefaults

CONSTANTS
    Callers,    \* threads that share the scrubber
    Corpora,    \* sets of documents; the threads of a behaviour scrub one of them
    CacheSize   \* cache_size (1024 in the code)

\* __init__ rejects a cache_size below 1.
ASSUME ScrubberAssumption ==
    /\ \A corpus \in Corpora : corpus \subseteq Documents
    /\ CacheSize \in Nat \ {0}

VARIABLES
    texts,      \* the documents the threads scrub, chosen once
    cache,      \* _cache: its entries, the least recently used first
    call,       \* what each thread is doing in scrub
    recent      \* history: the texts last hit or first inserted, newest last

svars == <<texts, cache, call, recent>>

Quiet == [stage |-> "quiet"]
Missed(text) == [stage |-> "missed", text |-> text]
Returned(text, res) == [stage |-> "returned", text |-> text, res |-> res]

Cached == {cache[i].key : i \in 1..Len(cache)}
Position(text) == CHOOSE i \in 1..Len(cache) : cache[i].key = text

\* The last CacheSize distinct texts once text has been used.
Used(text) ==
    LET known == {i \in 1..Len(recent) : recent[i] = text}
        others == IF known = {} THEN recent
                                ELSE RemoveAt(recent, CHOOSE i \in known : TRUE)
        kept == IF Len(others) < CacheSize THEN others ELSE Tail(others)
    IN  Append(kept, text)

SInit ==
    /\ texts \in Corpora
    /\ cache = <<>> /\ call = [th \in Callers |-> Quiet] /\ recent = <<>>

\* Mutant: a hit does not move the entry.
HitInPlace(th, text) ==
    /\ call[th].stage # "missed"
    /\ text \in Cached
    /\ call' = [call EXCEPT ![th] = Returned(text, cache[Position(text)].res)]
    /\ recent' = Used(text)
    /\ UNCHANGED cache

\* scrub is called and _lru_get finds the text: its entry moves to the end.
Hit(th, text) ==
    LET i == Position(text)
    IN  /\ call[th].stage # "missed"
        /\ text \in Cached
        /\ cache' = Append(RemoveAt(cache, i), cache[i])
        /\ call' = [call EXCEPT ![th] = Returned(text, cache[i].res)]
        /\ recent' = Used(text)

\* scrub is called and _lru_get does not find the text.
Miss(th, text) ==
    /\ call[th].stage # "missed"
    /\ text \notin Cached
    /\ call' = [call EXCEPT ![th] = Missed(text)]
    /\ UNCHANGED <<cache, recent>>

\* popitem(last=False)
Trim(s) == IF Len(s) > CacheSize THEN Tail(s) ELSE s

\* Assignment to a key the dictionary holds keeps its place, and the length.
Stored(entry) ==
    IF entry.key \in Cached
    THEN [cache EXCEPT ![Position(entry.key)] = entry]
    ELSE Append(cache, entry)

\* The text is scrubbed outside the lock, then _lru_put inserts the result.
Put(th) ==
    LET text == call[th].text
        res == FastScrub(text)
    IN  /\ call[th].stage = "missed"
        /\ cache' = Trim(Stored([key |-> text, res |-> res]))
        /\ call' = [call EXCEPT ![th] = Returned(text, res)]
        /\ recent' = IF text \in Cached THEN recent ELSE Used(text)

SNext ==
    /\ \E th \in Callers :
          \/ \E text \in texts : Hit(th, text) \/ Miss(th, text)
          \/ Put(th)
    /\ UNCHANGED texts

SSpec == SInit /\ [][SNext]_svars

-----------------------------------------------------------------------------
(* Properties *)

\* What the scrubber hands out, and what it keeps to hand out later.
Answers ==
    {<<call[th].text, call[th].res>> :
        th \in {th \in Callers : call[th].stage = "returned"}}
      \cup {<<cache[i].key, cache[i].res>> : i \in 1..Len(cache)}

\* "Both produce identical cleaning output": with the cache, the pre-filter and
\* the unlocked computation, every answer is what the baseline computes for that
\* very text (intent_scrubber.py:14, 167-170, 182).
ScrubIsReference == \A a \in Answers : a[2] = NaiveScrub(a[1])

\* Bounded memory whatever the threads insert at the same time, with one entry
\* for each text (intent_scrubber.py:197-201).
CacheBounded == Len(cache) <= CacheSize /\ Cardinality(Cached) = Len(cache)

\* Bounded or not, the cache keeps what is in use (intent_scrubber.py:188-201): a
\* text that was hit or first inserted is still cached until CacheSize other
\* texts were.  A second insertion, by a thread that missed too, is no use of the
\* entry and must not cost another text its place.
CacheIsLru == CacheBounded /\ \A i \in 1..Len(recent) : recent[i] \in Cached

Unbroken(doc) == [doc EXCEPT !.across = [i \in DOMAIN doc.across |-> {}]]

\* "Detector signals that must also be removable" (intent_scrubber.py:38-47, 62):
\* once a document below the block threshold is scrubbed, nothing the rules name
\* is left in any line of it.  The compound rules are the hard case: their parts
\* (a credential, a tool name, an address) are not removed.
BandIsRemovable ==
    \A a \in Answers :
        RuleScore(a[1]) < DefaultThresholds.injection_block
          => RuleHits(Unbroken(a[2].text)) = {}

\* A second scrub finds nothing more to remove and the rules never score the
\* scrubbed text higher: the gateway's second inspection judges the final text
\* (gateway.py:171-190).
ScrubIsFinal ==
    \A a \in Answers :
        /\ FastScrub(a[2].text) = ScrubResult(a[2].text, 0)
        /\ RuleScore(a[2].text) <= RuleScore(a[1])
=============================================================================
