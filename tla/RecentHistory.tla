------------------------------ MODULE RecentHistory ------------------------------
(***************************************************************************)
(* The recents of a browser session (background/recent-history-cache.ts    *)
(* and its handlers): a cache in the worker, written whole to the session  *)
(* storage after every change, and read back once by the next worker.      *)
(* Handlers await the cache and the settings before they change it, and    *)
(* the promotion of overflowing recents to bookmarks awaits every save.    *)
(*                                                                         *)
(* An item stands for its id and its url; a site is what its pages share.  *)
(***************************************************************************)
EXTENDS Integers, Sequences, FiniteSets, SequencesExt, Arrays

CONSTANTS
  HistoryCalls,  \* handlers that may overlap
  Pages, Sites,
  SiteOf,        \* the site of each page
  Items,
  Policies,      \* the settings the user chooses from
  Scopes,        \* of "page", "site" and "all", those the panel asks for
  MaxViews,      \* bound: additions to the history
  MaxWrites,     \* bound: writes that are chained
  MaxWriteFaults \* bound: storage operations that fail

ASSUME SitesAssumption == SiteOf \in [Pages -> Sites]
ASSUME PoliciesAssumption ==
  /\ Policies # {}
  /\ \A s \in Policies : /\ s.overflow \in {"drop-oldest", "keep-session", "auto-pin"}
                         /\ s.limit \in Nat \ {0}
                         /\ s.retained \in Nat /\ s.retained >= s.limit
ASSUME ScopesAssumption == Scopes \subseteq {"page", "site", "all"}
ASSUME HistoryBoundsAssumption == MaxViews \in Nat /\ MaxWrites \in Nat /\ MaxWriteFaults \in Nat

VARIABLES
  bySite,    \* the worker's recents of each site, newest first
  sequence,  \* the worker's counter of views
  hydrated,
  writes,    \* snapshots whose writes are chained
  stored,    \* the session storage
  settings,  \* the local settings
  historyCall,
  pinned,    \* items that have a bookmark
  missed,    \* the last write, or the read of this worker, failed
  writeFaults

rhVars ==
  <<bySite, sequence, hydrated, writes, stored, settings, historyCall, pinned, missed, writeFaults>>

Entries == [item: Items, page: Pages, sequence: 1..MaxViews, pinned: BOOLEAN]
Histories == [sequence: 0..MaxViews, bySite: [Sites -> Seq(Entries)]]

HistoryRequests ==
  [name: {"add"}, page: Pages, item: Items, scope: Scopes]
    \cup [name: {"remove"}, page: Pages, item: Items, scope: Scopes]
    \cup [name: {"update"}, item: Items]

AtRest == [pc |-> "idle"]

RhTypeOK ==
  /\ [sequence |-> sequence, bySite |-> bySite] \in Histories
  /\ stored \in Histories
  /\ writes \in Seq(Histories) /\ Len(writes) <= MaxWrites
  /\ {hydrated, missed} \subseteq BOOLEAN
  /\ settings \in Policies
  /\ historyCall \in [HistoryCalls ->
       {AtRest}
         \cup [pc: {"change"}, request: HistoryRequests, policy: Policies]
         \cup [pc: {"promote"}, request: HistoryRequests, candidates: Seq(Entries), remove: SUBSET Items]
         \cup [pc: {"prune"}, policy: Policies]]
  /\ pinned \subseteq Items
  /\ writeFaults \in 0..MaxWriteFaults

Empty == [s \in Sites |-> <<>>]

RhInit ==
  /\ bySite = Empty /\ sequence = 0 /\ hydrated = FALSE
  /\ writes = <<>> /\ stored = [sequence |-> 0, bySite |-> Empty]
  /\ settings \in Policies
  /\ historyCall = [c \in HistoryCalls |-> AtRest]
  /\ pinned = {} /\ missed = FALSE /\ writeFaults = 0

-------------------------------------------------------------------------------
First(entries, n) == SubSeq(entries, 1, IF Len(entries) < n THEN Len(entries) ELSE n)

\* Auto-pin keeps one more: the recent whose bookmark is being saved.
RetainedLimit(policy) ==
  CASE policy.overflow = "drop-oldest" -> policy.limit
    [] policy.overflow = "keep-session" -> policy.retained
    [] policy.overflow = "auto-pin" -> policy.retained + 1

\* Of equal items the newest stays.
UniqueEntries(entries) ==
  {e \in entries : \A d \in entries : d.item = e.item => d.sequence <= e.sequence}

\* Views are numbered once, so that the numbers sort the entries.
Newest(entries) ==
  LET views == {e.sequence : e \in entries}
      count == Cardinality(views)
  IN [n \in 1..count |-> CHOOSE e \in entries : e.sequence = Nth(views, count + 1 - n)]

EntriesFor(recents, page, scope) ==
  LET site == recents[SiteOf[page]]
  IN CASE scope = "site" -> site
       [] scope = "page" -> Filter(site, LAMBDA e : e.page = page)
       [] scope = "all" -> Newest(UniqueEntries(UNION {ToSet(recents[s]) : s \in Sites}))

\* Change the recents and chain the write of the snapshot.
SetHistory(recents, count) ==
  /\ Len(writes) < MaxWrites
  /\ bySite' = recents
  /\ sequence' = count
  /\ writes' = Append(writes, [sequence |-> count, bySite |-> recents])

RhAt(c, call) == historyCall' = [historyCall EXCEPT ![c] = call]

-------------------------------------------------------------------------------
\* Mutant: a handler does not wait for the cache.
HistoryUnready(c, request) ==
  /\ historyCall[c] = AtRest
  /\ request.name = "update" => request.item \in pinned
  /\ RhAt(c, [pc |-> "change", request |-> request, policy |-> settings])
  /\ UNCHANGED <<bySite, sequence, hydrated, writes, stored, settings, pinned, missed, writeFaults>>

\* A message arrives and its handler, having awaited the cache, reads the settings.
\* The panel marks a recent only when it has a bookmark.
History(c, request) ==
  /\ hydrated /\ historyCall[c] = AtRest
  /\ request.name = "update" => request.item \in pinned
  /\ RhAt(c, [pc |-> "change", request |-> request, policy |-> settings])
  /\ UNCHANGED <<bySite, sequence, hydrated, writes, stored, settings, pinned, missed, writeFaults>>

AddRecent(c) ==
  LET request == historyCall[c].request
      policy == historyCall[c].policy
      site == SiteOf[request.page]
      entry == [item |-> request.item, page |-> request.page, sequence |-> sequence + 1, pinned |-> FALSE]
      others == Filter(bySite[site], LAMBDA e : e.item # request.item)
      next == [bySite EXCEPT ![site] = First(<<entry>> \o others, RetainedLimit(policy))]
      visible == EntriesFor(next, request.page, request.scope)
      overflow == SubSeq(visible, policy.limit + 1, Len(visible))
  IN /\ historyCall[c].pc = "change" /\ request.name = "add"
     /\ sequence < MaxViews
     /\ SetHistory(next, sequence + 1)
     /\ IF policy.overflow = "auto-pin" /\ overflow # <<>>
        THEN RhAt(c, [pc |-> "promote", request |-> request, candidates |-> overflow, remove |-> {}])
        ELSE RhAt(c, AtRest)
     /\ UNCHANGED <<hydrated, stored, settings, pinned, missed, writeFaults>>

\* The oldest overflowing recent gets its bookmark, has one, or keeps its place.
Promote(c) ==
  LET call == historyCall[c]
      candidate == Last(call.candidates)
      Next(remove) == RhAt(c, [call EXCEPT !.candidates = Front(@), !.remove = remove])
  IN /\ call.pc = "promote" /\ call.candidates # <<>>
     /\ \/ /\ candidate.pinned \/ candidate.item \in pinned
           /\ Next(call.remove \cup {candidate.item})
           /\ UNCHANGED pinned
        \/ /\ ~candidate.pinned /\ candidate.item \notin pinned
           /\ pinned' = pinned \cup {candidate.item}
           /\ Next(call.remove \cup {candidate.item})
        \/ /\ ~candidate.pinned /\ candidate.item \notin pinned  \* not durable, or the save fails
           /\ Next(call.remove)
           /\ UNCHANGED pinned
     /\ UNCHANGED <<bySite, sequence, hydrated, writes, stored, settings, missed, writeFaults>>

\* removeItems: the promoted recents leave the site, or every site.
RemovePromoted(c) ==
  LET call == historyCall[c]
      Leaves(s) == call.request.scope = "all" \/ s = SiteOf[call.request.page]
  IN /\ call.pc = "promote" /\ call.candidates = <<>>
     /\ IF call.remove = {} THEN UNCHANGED <<bySite, sequence, writes>>
        ELSE SetHistory([s \in Sites |->
               IF Leaves(s) THEN Filter(bySite[s], LAMBDA e : e.item \notin call.remove)
                            ELSE bySite[s]], sequence)
     /\ RhAt(c, AtRest)
     /\ UNCHANGED <<hydrated, stored, settings, pinned, missed, writeFaults>>

RemoveRecent(c) ==
  LET request == historyCall[c].request
      Stays(s, e) == \/ e.item # request.item
                     \/ request.scope # "all" /\ s # SiteOf[request.page]
                     \/ request.scope = "page" /\ e.page # request.page
  IN /\ historyCall[c].pc = "change" /\ request.name = "remove"
     /\ SetHistory([s \in Sites |-> Filter(bySite[s], LAMBDA e : Stays(s, e))], sequence)
     /\ RhAt(c, AtRest)
     /\ UNCHANGED <<hydrated, stored, settings, pinned, missed, writeFaults>>

\* The panel marks the recent it has pinned, at the first site that has it.
UpdateRecent(c) ==
  LET item == historyCall[c].request.item
      Has(s) == \E i \in DOMAIN bySite[s] : bySite[s][i].item = item
      Marked(entries) == [i \in DOMAIN entries |->
                            IF entries[i].item = item THEN [entries[i] EXCEPT !.pinned = TRUE] ELSE entries[i]]
  IN /\ historyCall[c].pc = "change" /\ historyCall[c].request.name = "update"
     /\ \/ \E s \in Sites : Has(s) /\ SetHistory([bySite EXCEPT ![s] = Marked(@)], sequence)
        \/ /\ \A s \in Sites : ~Has(s)
           /\ UNCHANGED <<bySite, sequence, writes>>
     /\ RhAt(c, AtRest)
     /\ UNCHANGED <<hydrated, stored, settings, pinned, missed, writeFaults>>

\* New settings are stored, and then prune the recents.
SaveSettings(c, policy) ==
  /\ hydrated /\ historyCall[c] = AtRest
  /\ settings' = policy
  /\ RhAt(c, [pc |-> "prune", policy |-> policy])
  /\ UNCHANGED <<bySite, sequence, hydrated, writes, stored, pinned, missed, writeFaults>>

PruneForSettings(c) ==
  /\ historyCall[c].pc = "prune"
  /\ SetHistory([s \in Sites |-> First(bySite[s], RetainedLimit(historyCall[c].policy))], sequence)
  /\ RhAt(c, AtRest)
  /\ UNCHANGED <<hydrated, stored, settings, pinned, missed, writeFaults>>

\* Mutant: the counter of views begins again.
HydrateRecounted ==
  /\ ~hydrated /\ hydrated' = TRUE
  /\ bySite' = stored.bySite
  /\ UNCHANGED <<sequence, writes, stored, settings, historyCall, pinned, missed, writeFaults>>

\* The worker reads the storage once; if it cannot, it starts afresh.
Hydrate ==
  /\ ~hydrated /\ hydrated' = TRUE
  /\ \/ /\ sequence' = stored.sequence
        /\ bySite' = [s \in Sites |-> IF stored.bySite[s] = <<>> THEN bySite[s] ELSE stored.bySite[s]]
        /\ UNCHANGED <<missed, writeFaults>>
     \/ /\ writeFaults < MaxWriteFaults /\ writeFaults' = writeFaults + 1
        /\ missed' = TRUE
        /\ UNCHANGED <<sequence, bySite>>
  /\ UNCHANGED <<writes, stored, settings, historyCall, pinned>>

WriteEnds ==
  /\ writes # <<>> /\ writes' = Tail(writes)
  /\ \/ /\ stored' = Head(writes) /\ missed' = FALSE
        /\ UNCHANGED writeFaults
     \/ /\ writeFaults < MaxWriteFaults /\ writeFaults' = writeFaults + 1
        /\ missed' = TRUE
        /\ UNCHANGED stored
  /\ UNCHANGED <<bySite, sequence, hydrated, settings, historyCall, pinned>>

\* The user pins an item from the panel.
Pin(item) ==
  /\ item \notin pinned /\ pinned' = pinned \cup {item}
  /\ UNCHANGED <<bySite, sequence, hydrated, writes, stored, settings, historyCall, missed, writeFaults>>

\* The browser stops the worker: the calls and the writes still chained are gone.
RhWorkerStops ==
  /\ bySite' = Empty /\ sequence' = 0 /\ hydrated' = FALSE /\ writes' = <<>>
  /\ historyCall' = [c \in HistoryCalls |-> AtRest]
  /\ missed' = FALSE
  /\ UNCHANGED <<stored, settings, pinned, writeFaults>>

RhNext ==
  \/ \E c \in {d \in HistoryCalls : historyCall[d] = AtRest} :
       \/ \E r \in HistoryRequests : History(c, r)
       \/ \E p \in Policies : SaveSettings(c, p)
  \/ \E c \in HistoryCalls :
       \/ AddRecent(c) \/ Promote(c) \/ RemovePromoted(c)
       \/ RemoveRecent(c) \/ UpdateRecent(c) \/ PruneForSettings(c)
  \/ \E i \in Items : Pin(i)
  \/ Hydrate \/ WriteEnds \/ RhWorkerStops

RhSpec == RhInit /\ [][RhNext]_rhVars

-------------------------------------------------------------------------------
(* Properties                                                              *)

\* What the next worker would read is what this one has, once its writes are done:
\* neither hydration nor a write may leave the storage behind or overtake it.
StoredIsLatest ==
  hydrated /\ writes = <<>> /\ ~missed => stored = [sequence |-> sequence, bySite |-> bySite]

\* Views are ordered, across sites and workers: newest first at each site, no view
\* numbered twice, no item twice at a site.
ViewsAreOrdered ==
  /\ \A s \in Sites : \A i, j \in DOMAIN bySite[s] :
       i < j => /\ bySite[s][i].sequence > bySite[s][j].sequence
                /\ bySite[s][i].item # bySite[s][j].item
  /\ \A s, t \in Sites : \A i \in DOMAIN bySite[s], j \in DOMAIN bySite[t] :
       bySite[s][i].sequence = bySite[t][j].sequence => s = t /\ i = j
===============================================================================
