------------------------------- MODULE Feeds -------------------------------
(***************************************************************************)
(* The fetchers of outside data (feeds.py).  A call looks in a cache that  *)
(* all share, waits for the rate limit of its source, asks the source, and *)
(* keeps an answer that is no error.  Each wait and each request is an     *)
(* await, so calls of one source interleave.                               *)
(*                                                                         *)
(* An answer is what the source knew at a time, "none" of it for an error. *)
(* Time is in units of half a second.                                      *)
(***************************************************************************)
EXTENDS Integers, FiniteSets, Functions

CONSTANTS Callers,     \* tasks that fetch
          Queries,     \* the arguments of a fetcher
          Gathered,    \* [some callers -> the source each asks]: fetch_multi_source
          FrontPage,   \* the arguments of fetch_hn that are always the same there
          HasKey,      \* the sources whose API key is set
          TTL,         \* _CACHE_TTL
          FdMaxNow, FdMaxCalls \* bounds of the model

FeedSource == {"brave", "rss", "reddit", "hn", "x", "openbb", "polymarket", "kalshi", "metaculus"}

ASSUME FeedsAssumption ==
  /\ HasKey \subseteq {"brave", "x"} /\ TTL \in Nat /\ FdMaxNow \in Nat
  /\ FrontPage \in Queries
  /\ \A c \in DOMAIN Gathered : c \in Callers /\ Gathered[c] \in FeedSource

VARIABLES
  fdNow,
  lastRequest,  \* _last_request_time
  fdCache,      \* _cache: [function and arguments -> time and answer]
  calls,        \* each caller: its step, what it asks, when it may, its answer and when
  merging,      \* fetch_multi_source waits for the callers of Gathered
  fdCalls

feedVars == <<fdNow, lastRequest, fdCache, calls, merging, fdCalls>>

Never == -10
Error == [source |-> "none", query |-> "none", born |-> Never]
Resting == [step |-> "idle", source |-> "none", query |-> "none", due |-> 0, answer |-> Error, at |-> 0]

FeedsInit ==
  /\ fdNow = 0
  /\ lastRequest = [s \in FeedSource |-> Never]
  /\ fdCache = << >>
  /\ calls = [c \in Callers |-> Resting]
  /\ merging = FALSE /\ fdCalls = 0

\* _RATE_LIMITS.
Interval(s) == CASE s = "reddit" -> 4 [] s = "openbb" -> 1 [] OTHER -> 2

\* A bug: the cache's key leaves the arguments out.
BadCacheKey(s, q) == [source |-> s, query |-> "none"]
CacheKey(s, q) == [source |-> s, query |-> q]

\* _cache_get.
CacheGet(key) ==
  IF key \in DOMAIN fdCache /\ fdNow - fdCache[key].at <= TTL THEN {fdCache[key].answer} ELSE {}

\* What is too old is dropped when it is looked at.
Expired(key) == key \in DOMAIN fdCache /\ fdNow - fdCache[key].at > TTL

CacheSet(key, answer) ==
  [x \in DOMAIN fdCache \cup {key} |-> IF x = key THEN [at |-> fdNow, answer |-> answer] ELSE fdCache[x]]

\* _rate_limit: the time of the last request is read before the wait.
Due(s) == IF fdNow - lastRequest[s] < Interval(s) THEN lastRequest[s] + Interval(s) ELSE fdNow

\* A fetcher up to its first request.  refused: it answers with an error before
\* anything else; answers come from the cache, or the call waits.
Asks(c, s, q, refused) ==
  LET asked == [Resting EXCEPT !.source = s, !.query = q]
      key == CacheKey(s, q)
  IN  IF refused THEN [asked EXCEPT !.step = "done"]
      ELSE IF CacheGet(key) # {}
           THEN [asked EXCEPT !.step = "done", !.answer = CHOOSE a \in CacheGet(key) : TRUE, !.at = fdNow]
           ELSE [asked EXCEPT !.step = "waits", !.due = Due(s)]

Looked(refused, s, q) ==
  IF ~refused /\ Expired(CacheKey(s, q)) THEN Restrict(fdCache, DOMAIN fdCache \ {CacheKey(s, q)}) ELSE fdCache

Call(c, s, q, refused) ==
  /\ calls[c].step = "idle" /\ fdCalls < FdMaxCalls
  /\ calls' = [calls EXCEPT ![c] = Asks(c, s, q, refused)]
  /\ fdCache' = Looked(refused, s, q)
  /\ fdCalls' = fdCalls + 1
  /\ UNCHANGED <<fdNow, lastRequest, merging>>

\* The fetchers.
BraveSearch(c, q) == Call(c, "brave", q, "brave" \notin HasKey)
FetchRss(c, q) == Call(c, "rss", q, FALSE)
FetchReddit(c, q) == Call(c, "reddit", q, FALSE)
FetchHn(c, q) == Call(c, "hn", q, FALSE)
FetchX(c, q) == Call(c, "x", q, "x" \notin HasKey)
\* Only some types of data have an endpoint.
FetchOpenbb(c, q) == \E known \in BOOLEAN : Call(c, "openbb", q, ~known)
FetchPolymarket(c, q) == Call(c, "polymarket", q, FALSE)
FetchKalshi(c, q) == Call(c, "kalshi", q, FALSE)
FetchMetaculus(c, q) == Call(c, "metaculus", q, FALSE)

\* The wait is over: the time is set and the request sent.
Sends(c) ==
  /\ calls[c].step = "waits" /\ fdNow >= calls[c].due
  /\ lastRequest' = [lastRequest EXCEPT ![calls[c].source] = fdNow]
  /\ calls' = [calls EXCEPT ![c].step = "sent"]
  /\ UNCHANGED <<fdNow, fdCache, merging, fdCalls>>

\* Two fetchers ask twice: for the stories of a list, for the user's posts; the
\* second is not limited.
Sends2(c) ==
  /\ calls[c].step = "sent" /\ calls[c].source \in {"hn", "x"}
  /\ calls' = [calls EXCEPT ![c].step = "sent2"]
  /\ UNCHANGED <<fdNow, lastRequest, fdCache, merging, fdCalls>>

\* The source answers, which is kept, or fails, which is not.
Answered(c) ==
  /\ calls[c].step = IF calls[c].source \in {"hn", "x"} THEN "sent2" ELSE "sent"
  /\ LET answer == [source |-> calls[c].source, query |-> calls[c].query, born |-> fdNow]
     IN  /\ calls' = [calls EXCEPT ![c].step = "done", ![c].answer = answer, ![c].at = fdNow]
         /\ fdCache' = CacheSet(CacheKey(calls[c].source, calls[c].query), answer)
  /\ UNCHANGED <<fdNow, lastRequest, merging, fdCalls>>

Fails(c) ==
  /\ calls[c].step \in {"sent", "sent2"}
  /\ calls' = [calls EXCEPT ![c].step = "done"]
  /\ UNCHANGED <<fdNow, lastRequest, fdCache, merging, fdCalls>>

Returns(c) ==
  /\ calls[c].step = "done" /\ ~(merging /\ c \in DOMAIN Gathered)
  /\ calls' = [calls EXCEPT ![c] = Resting]
  /\ UNCHANGED <<fdNow, lastRequest, fdCache, merging, fdCalls>>

\* fetch_multi_source: a call for each of its sources, gathered, from which the
\* answers are merged when all have answered.  What hn is asked leaves the query out.
FetchMultiSource(q) ==
  LET group == DOMAIN Gathered
      asked(c) == IF Gathered[c] = "hn" THEN FrontPage ELSE q
      refused(c) == Gathered[c] = "brave" /\ "brave" \notin HasKey
  IN  /\ ~merging /\ \A c \in group : calls[c].step = "idle"
      /\ fdCalls + Cardinality(group) <= FdMaxCalls
      /\ fdCalls' = fdCalls + Cardinality(group)
      /\ merging' = TRUE
      /\ calls' = [c \in Callers |-> IF c \in group THEN Asks(c, Gathered[c], asked(c), refused(c)) ELSE calls[c]]
      /\ fdCache' = Restrict(fdCache, {k \in DOMAIN fdCache :
                       ~\E c \in group : k = CacheKey(Gathered[c], asked(c)) /\ ~refused(c) /\ Expired(k)})
      /\ UNCHANGED <<fdNow, lastRequest>>

Merges ==
  /\ merging /\ \A c \in DOMAIN Gathered : calls[c].step = "done"
  /\ calls' = [c \in Callers |-> IF c \in DOMAIN Gathered THEN Resting ELSE calls[c]]
  /\ merging' = FALSE
  /\ UNCHANGED <<fdNow, lastRequest, fdCache, fdCalls>>

\* Time does not pass over a wait that ends.
FeedTick ==
  /\ fdNow < FdMaxNow
  /\ \A c \in Callers : calls[c].step = "waits" => calls[c].due > fdNow
  /\ fdNow' = fdNow + 1
  /\ UNCHANGED <<lastRequest, fdCache, calls, merging, fdCalls>>
FeedsNext ==
  \/ \E c \in Callers :
       \/ \E q \in Queries :
            \/ BraveSearch(c, q) \/ FetchRss(c, q) \/ FetchReddit(c, q) \/ FetchHn(c, q)
            \/ FetchX(c, q) \/ FetchOpenbb(c, q) \/ FetchPolymarket(c, q)
            \/ FetchKalshi(c, q) \/ FetchMetaculus(c, q)
       \/ Sends(c) \/ Sends2(c) \/ Answered(c) \/ Fails(c) \/ Returns(c)
  \/ (\E q \in Queries : FetchMultiSource(q)) \/ Merges
  \/ FeedTick

----------------------------------------------------------------------------
\* Whoever asks, and whoever asked before or asks meanwhile, is answered with an
\* error or with what that source said to that query, and what the cache keeps
\* was said no longer ago than it may be kept; an error is never kept.
AnswersAreOwn ==
  /\ \A c \in Callers :
       LET a == calls[c].answer IN
         calls[c].step = "done" /\ a # Error =>
           /\ a.source = calls[c].source /\ a.query = calls[c].query
           /\ calls[c].at - a.born <= TTL
  /\ \A key \in DOMAIN fdCache : fdCache[key].answer # Error
=============================================================================
