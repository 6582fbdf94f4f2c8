------------------------------ MODULE ImageRequests ------------------------------
(***************************************************************************)
(* The worker's image requests (background/image-request-manager.ts):      *)
(* requests that share one fetch in flight, the completed images, bounded  *)
(* by number and by bytes, the failures that let a speculative request be  *)
(* skipped, and the answers of speculative probes.                         *)
(*                                                                         *)
(* A cache is a JavaScript Map: a sequence of entries, oldest insertion    *)
(* first.  Display images and originals have the same budget, hence the    *)
(* same keys; only an original does without the completed images.          *)
(***************************************************************************)
EXTENDS Integers, Sequences, FiniteSets, SequencesExt, Arrays

CONSTANTS
  ImageCalls,   \* requests that may overlap
  ImageKeys,    \* getInflightKey: url, budget and referrer, "none" without one
  Contexts,     \* contextKey of a probe
  BudgetOf,     \* the bytes of the "thumbnail" and of the "display" budget
  Sizes,        \* bytes of an image
  MaxImages,    \* MAX_COMPLETED_GET_CACHE_ENTRIES
  MaxImageBytes,\* MAX_COMPLETED_GET_CACHE_BYTES
  MaxSkips,     \* MAX_SKIPPABLE_FAILURE_CACHE_ENTRIES
  MaxProbes,    \* MAX_SPECULATIVE_PROBE_CACHE_ENTRIES
  Ttl,          \* SPECULATIVE_CACHE_TTL_MS
  LastTime      \* bound: the clock stops here

Budgets == {"thumbnail", "display"}
ASSUME ImageKeysAssumption ==
  ImageKeys \subseteq [url: {k.url : k \in ImageKeys}, budget: Budgets, referrer: {k.referrer : k \in ImageKeys}]
ASSUME BudgetAssumption == BudgetOf \in [Budgets -> Nat]
ASSUME SizesAssumption == Sizes \subseteq Nat
ASSUME CacheBoundsAssumption ==
  /\ {MaxImages, MaxImageBytes, MaxSkips, MaxProbes} \subseteq Nat \ {0}
  /\ {Ttl, LastTime} \subseteq Nat

VARIABLES
  completed,  \* completedGetCache
  cacheBytes, \* completedGetCacheBytes, kept by hand
  skips,      \* skippableFailureCache
  probes,     \* speculativeProbeCache
  flights,    \* getInflight: fetches, with what their starter does with the result
  imageCall,
  now

imVars == <<completed, cacheBytes, skips, probes, flights, imageCall, now>>

ProbeKeys ==
  [context: Contexts, method: {"get", "head"}, key: {k \in ImageKeys : k.budget = "display"}]
ImageRequest ==
  [name: {"fetch"}, key: ImageKeys, speculative: BOOLEAN, original: {FALSE}]
    \cup [name: {"fetch"}, key: {k \in ImageKeys : k.budget = "display" /\ k.referrer = "none"},
          speculative: {FALSE}, original: {TRUE}]

NoImageCall == [pc |-> "none"]

ImTypeOK ==
  /\ completed \in Seq([key: ImageKeys, bytes: Sizes]) /\ cacheBytes \in Nat
  /\ skips \in Seq([key: ImageKeys, at: 0..LastTime]) /\ Len(skips) <= MaxSkips
  /\ probes \in Seq([key: ProbeKeys, at: 0..LastTime]) /\ Len(probes) <= MaxProbes
  /\ flights \subseteq [key: ImageKeys, speculative: BOOLEAN, original: BOOLEAN]
  /\ imageCall \in [ImageCalls ->
       {NoImageCall} \cup [pc: {"await"}, key: ImageKeys]
         \cup [pc: {"probe"}, key: ImageKeys, probe: ProbeKeys]
         \cup [pc: {"head", "probed"}, probe: ProbeKeys]]
  /\ now \in 0..LastTime

ImInit ==
  /\ completed = <<>> /\ cacheBytes = 0 /\ skips = <<>> /\ probes = <<>> /\ flights = {}
  /\ imageCall = [c \in ImageCalls |-> NoImageCall]
  /\ now = 0

-------------------------------------------------------------------------------
(* The caches                                                              *)

Without(cache, key) == Filter(cache, LAMBDA e : e.key # key)
EntryOf(cache, key) == {e \in ToSet(cache) : e.key = key}
Fresh(e) == now - e.at <= Ttl
Renewed(cache, key) == Without(cache, key) \o Filter(cache, LAMBDA e : e.key = key)
Latest(cache, n) == SubSeq(cache, IF Len(cache) > n THEN Len(cache) - n + 1 ELSE 1, Len(cache))

\* An insertion drops the expired entries of both caches, then the oldest.
FreshOf(cache) == Filter(cache, Fresh)
WithSkip(key) == Latest(FreshOf(Append(Without(skips, key), [key |-> key, at |-> now])), MaxSkips)
WithProbe(key) == Latest(FreshOf(Append(Without(probes, key), [key |-> key, at |-> now])), MaxProbes)

RememberFailure(key) == skips' = WithSkip(key) /\ probes' = FreshOf(probes)

\* An image fetched for the same url, within the budget; a request without a
\* referrer takes one fetched with any.
Serves(e, key) ==
  /\ e.key.url = key.url
  /\ key.referrer = "none" \/ e.key.referrer = key.referrer
  /\ e.bytes <= BudgetOf[key.budget]
IsCompleted(key) == \E e \in ToSet(completed) : Serves(e, key)

\* The exact image stays where it is; the first compatible one becomes the newest.
AfterServing(key) ==
  IF EntryOf(completed, key) # {} THEN completed
  ELSE Renewed(completed, completed[CHOOSE i \in DOMAIN completed :
         /\ Serves(completed[i], key)
         /\ \A j \in 1..(i - 1) : ~Serves(completed[j], key)].key)

BytesOf(entries) == Total([i \in DOMAIN entries |-> entries[i].bytes])

\* Mutant: an evicted image stays on the account.
WithCompletedUnpaid(key, bytes) ==
  LET grown == Append(Without(completed, key), [key |-> key, bytes |-> bytes])
      dropped == CHOOSE n \in 0..Len(grown) :
                   /\ Len(grown) - n <= MaxImages /\ BytesOf(SubSeq(grown, n + 1, Len(grown))) <= MaxImageBytes
                   /\ \A m \in 0..(n - 1) : \/ Len(grown) - m > MaxImages
                                             \/ BytesOf(SubSeq(grown, m + 1, Len(grown))) > MaxImageBytes
  IN [images |-> SubSeq(grown, dropped + 1, Len(grown)),
      account |-> cacheBytes - BytesOf(Filter(completed, LAMBDA e : e.key = key)) + bytes]

\* rememberCompletedGet: the old image of the key is taken off the account, the new
\* one put on it, and the oldest evicted until both bounds hold.
WithCompleted(key, bytes) ==
  LET base == cacheBytes - BytesOf(Filter(completed, LAMBDA e : e.key = key))
      grown == Append(Without(completed, key), [key |-> key, bytes |-> bytes])
      Account(dropped) == base + bytes - BytesOf(SubSeq(grown, 1, dropped))
      dropped == CHOOSE n \in 0..Len(grown) :
                   /\ Len(grown) - n <= MaxImages /\ Account(n) <= MaxImageBytes
                   /\ \A m \in 0..(n - 1) : Len(grown) - m > MaxImages \/ Account(m) > MaxImageBytes
  IN [images |-> SubSeq(grown, dropped + 1, Len(grown)), account |-> Account(dropped)]

-------------------------------------------------------------------------------
(* A request and its policy run without a break up to the fetch.           *)

Goes(c, call) == imageCall' = [imageCall EXCEPT ![c] = call]

\* Policy: a speculative request is skipped while a failure is fresh.
Skippable(key, speculative) ==
  /\ speculative /\ ~IsCompleted(key)
  /\ \E e \in EntryOf(skips, key) : Fresh(e)

\* What a look at the policy leaves of the failures: expired ones are dropped.
AfterPolicy(key, speculative) ==
  IF ~speculative \/ IsCompleted(key) THEN skips
  ELSE IF \A e \in EntryOf(skips, key) : Fresh(e) THEN Renewed(skips, key)
  ELSE Without(skips, key)

Looks(key, speculative) == skips' = AfterPolicy(key, speculative)

\* Mutant: an original does not join the fetch of a display image.
FetchBytesApart(c, key, speculative, original, waiting, answered) ==
  LET served == ~original /\ (EntryOf(completed, key) # {} \/ IsCompleted(key))
      skipped == Skippable(key, speculative)
  IN /\ Looks(key, speculative)
     /\ completed' = IF ~skipped /\ served THEN AfterServing(key) ELSE completed
     /\ flights' = IF skipped \/ served THEN flights
                   ELSE flights \cup {[key |-> key, speculative |-> speculative, original |-> original]}
     /\ Goes(c, IF skipped \/ served THEN answered ELSE waiting)

\* fetchBytes: skipped, served, joined to a fetch in flight, or fetched; the call
\* then is at "waiting", or at "answered" at once.
FetchBytes(c, key, speculative, original, waiting, answered) ==
  LET served == ~original /\ (EntryOf(completed, key) # {} \/ IsCompleted(key))
      skipped == Skippable(key, speculative)
  IN /\ Looks(key, speculative)
     /\ completed' = IF ~skipped /\ served THEN AfterServing(key) ELSE completed
     /\ flights' = IF skipped \/ served \/ \E f \in flights : f.key = key THEN flights
                   ELSE flights \cup {[key |-> key, speculative |-> speculative, original |-> original]}
     /\ Goes(c, IF skipped \/ served THEN answered ELSE waiting)

Fetch(c, r) ==
  /\ imageCall[c] = NoImageCall
  /\ FetchBytes(c, r.key, r.speculative, r.original, [pc |-> "await", key |-> r.key], NoImageCall)
  /\ UNCHANGED <<cacheBytes, probes, now>>

CheckPolicy(key) ==
  /\ key.budget = "display"
  /\ Looks(key, TRUE)
  /\ UNCHANGED <<completed, cacheBytes, probes, flights, imageCall, now>>

\* The shared fetch ends and its starter remembers the outcome.
FetchEnds(f) ==
  /\ flights' = flights \ {f}
  /\ imageCall' = [c \in ImageCalls |->
       CASE imageCall[c].pc = "await" /\ imageCall[c].key = f.key -> NoImageCall
         [] imageCall[c].pc = "probe" /\ imageCall[c].key = f.key ->
              [pc |-> "probed", probe |-> imageCall[c].probe]
         [] OTHER -> imageCall[c]]
  /\ \/ \E bytes \in {b \in Sizes : b <= BudgetOf[f.key.budget]} :
          LET cache == WithCompleted(f.key, bytes)
          IN /\ completed' = IF f.original THEN completed ELSE cache.images
             /\ cacheBytes' = IF f.original THEN cacheBytes ELSE cache.account
             /\ UNCHANGED <<skips, probes>>
     \/ /\ IF f.speculative THEN RememberFailure(f.key) ELSE UNCHANGED <<skips, probes>>
        /\ UNCHANGED <<completed, cacheBytes>>
  /\ UNCHANGED now

-------------------------------------------------------------------------------
(* Speculative probes                                                      *)

\* A remembered answer, of any outcome, is given again and becomes the newest.
ProbeKnown(p) ==
  /\ \E e \in EntryOf(probes, p) : Fresh(e)
  /\ probes' = Renewed(probes, p)
  /\ UNCHANGED <<completed, cacheBytes, skips, flights, imageCall, now>>

Probe(c, p) ==
  /\ imageCall[c] = NoImageCall
  /\ \A e \in EntryOf(probes, p) : ~Fresh(e)
  /\ probes' = Without(probes, p)
  /\ IF p.method = "head"
     THEN /\ Goes(c, [pc |-> "head", probe |-> p])
          /\ UNCHANGED <<completed, skips, flights>>
     ELSE FetchBytes(c, p.key, TRUE, FALSE,
                     [pc |-> "probe", key |-> p.key, probe |-> p], [pc |-> "probed", probe |-> p])
  /\ UNCHANGED <<cacheBytes, now>>

\* The probe has its answer, or gives up waiting; its fetch goes on.
ProbeEnds(c) ==
  /\ imageCall[c].pc \in {"probe", "probed"}
  /\ probes' = WithProbe(imageCall[c].probe) /\ skips' = FreshOf(skips)
  /\ Goes(c, NoImageCall)
  /\ UNCHANGED <<completed, cacheBytes, flights, now>>

\* Of a HEAD request a status of 400, 404 or 410 lets later requests be skipped.
HeadEnds(c) ==
  LET p == imageCall[c].probe
  IN /\ imageCall[c].pc = "head"
     /\ probes' = WithProbe(p)
     /\ skips' \in {FreshOf(skips), WithSkip(p.key)}
     /\ Goes(c, NoImageCall)
     /\ UNCHANGED <<completed, cacheBytes, flights, now>>

\* The probes of one context, or of all, are forgotten.
ClearProbes(contexts) ==
  /\ probes' = Filter(probes, LAMBDA e : e.key.context \notin contexts)
  /\ UNCHANGED <<completed, cacheBytes, skips, flights, imageCall, now>>

ImTick ==
  /\ now < LastTime /\ now' = now + 1
  /\ UNCHANGED <<completed, cacheBytes, skips, probes, flights, imageCall>>

ImNext ==
  \/ \E c \in ImageCalls : \/ \E r \in ImageRequest : Fetch(c, r)
                           \/ \E p \in ProbeKeys : Probe(c, p)
                           \/ ProbeEnds(c) \/ HeadEnds(c)
  \/ \E p \in ProbeKeys : ProbeKnown(p)
  \/ \E k \in ImageKeys : CheckPolicy(k)
  \/ \E f \in flights : FetchEnds(f)
  \/ ClearProbes(Contexts) \/ \E x \in Contexts : ClearProbes({x})
  \/ ImTick

ImSpec == ImInit /\ [][ImNext]_imVars

-------------------------------------------------------------------------------
(* Properties                                                              *)

\* The account kept by hand is what the images weigh, and both bounds hold, after
\* any mix of insertions, replacements and evictions.
CacheAddsUp ==
  /\ cacheBytes = BytesOf(completed)
  /\ Len(completed) <= MaxImages /\ cacheBytes <= MaxImageBytes
  /\ \A i, j \in DOMAIN completed : completed[i].key = completed[j].key => i = j

\* Who awaits an image has a fetch in flight, and a key has one fetch at most: no
\* call is forgotten and none fetches what another is fetching.
AwaitedIsFetched ==
  /\ \A c \in ImageCalls :
       imageCall[c].pc \in {"await", "probe"} => \E f \in flights : f.key = imageCall[c].key
  /\ \A f, g \in flights : f.key = g.key => f = g
===============================================================================
