--------------------------- MODULE BufferedNavigation ---------------------------
(***************************************************************************)
(* Previous and next over a buffered window of images                      *)
(* (ui/panel/buffered-navigation-controller.ts with its reducer and the    *)
(* lifecycle of its blobs): the window preloads the neighbours of a cursor *)
(* by a probe and a decoding fetch each; a step seeks along them, parks on *)
(* a neighbour that is not decided yet, and shows the image it lands on.   *)
(* The user may go to another url, change the radius or close the panel    *)
(* while answers are under way.                                            *)
(*                                                                         *)
(* A url is a position on the trail of the included fields, so an index of *)
(* the window stands for the url that many bumps from its base.  An action *)
(* is what the code does between two answers: it ends with every           *)
(* continuation the answer has made ready.                                 *)
(***************************************************************************)
EXTENDS Integers, Sequences, FiniteSets, SequencesExt, FiniteSetsExt, Arrays

CONSTANTS
  Urls,       \* the urls the user may go to
  Radii,      \* the radii the user may set; 0 turns the window off
  Trails,     \* what may be along the trail: the urls whose failure or success the
              \* request policy knows, whose probe fails, whose image does not decode
  MinSkips,   \* the least skip budget, 8 in the code
  HeadLimit,  \* probes and fetches that preload at a time, 10 and 4 in the code
  GetLimit,
  MaxRuns,    \* bounds: windows, the user's presses and changes, decoded images
  MaxInputs,
  MaxBlobs

ASSUME NavigationAssumption ==
  /\ Urls \subseteq Int /\ Urls # {} /\ Radii \subseteq 0..5 /\ Radii # {}
  /\ \A t \in Trails : t.failed \cup t.known \cup t.absent \cup t.broken \subseteq Int
  /\ {MinSkips, HeadLimit, GetLimit} \subseteq Nat \ {0}
  /\ {MaxRuns, MaxInputs, MaxBlobs} \subseteq Nat

VARIABLES
  trail,    \* what is along the trail
  nav,      \* the window, or Closed
  run,      \* the windows there have been
  requests, \* probes and fetches that have not ended
  queues,    \* indices whose request waits for a slot
  display,  \* the blob on display with its url, or {}
  live,     \* decoded blobs that are not revoked
  step,     \* the press that is being served
  shown,    \* the url of the panel
  radius,   \* the setting
  inputs,
  decoded

bnVars == <<trail, nav, run, requests, queues, display, live, step, shown, radius, inputs, decoded>>

Closed == <<>>
NoSeek == [dir |-> 0, remaining |-> 0]
Resting == [pc |-> "idle"]
Nothing == [kind |-> "none", index |-> 0, run |-> 0, twin |-> 0]
Kinds == {"head", "get"}
EmptyEntry == [manifest |-> "UNKNOWN", image |-> "UNKNOWN", url |-> {}, blob |-> {}]

\* The image of the page itself: no blob, never revoked.
Anchor(url) == [url |-> url, serial |-> 0]

Identity(r) == [kind |-> r.kind, index |-> r.index, run |-> r.run, twin |-> r.twin]
Serials == 0..MaxBlobs
Identities == [kind: Kinds, index: Int, run: 1..MaxRuns, twin: Nat]

BnTypeOK ==
  /\ trail \in Trails /\ shown \in Int /\ radius \in Radii /\ run \in 0..MaxRuns
  /\ nav # Closed =>
       /\ {nav.base, nav.cursor} \subseteq Int /\ nav.radius \in Radii
       /\ nav.cursor \in DOMAIN nav.entry /\ nav.blocked \subseteq Int
       /\ \A i \in DOMAIN nav.entry :
            /\ nav.entry[i].manifest \in {"UNKNOWN", "HEAD_PENDING", "PRESENT", "FAILED_HEAD"}
            /\ nav.entry[i].image \in {"UNKNOWN", "GET_PENDING", "OK", "FAILED_GET"}
            /\ nav.entry[i].blob # {} <=> nav.entry[i].image = "OK"
  /\ \A r \in requests :
       /\ Identity(r) \in Identities /\ r.pc \in {"queued", "policy", "probe", "fetch"}
       /\ {r.advance, r.follow, r.tracked, r.settled} \subseteq BOOLEAN
  /\ \A k \in Kinds : ToSet(queues[k]) = {r.index : r \in {q \in requests : q.pc = "queued" /\ q.kind = k}}
  /\ live \subseteq [url: Int, serial: Serials] /\ \A d \in display : d.blob.serial \in Serials
  /\ step.pc \in {"idle", "seeking", "parked", "probed", "resolved"}
  /\ inputs \in 0..MaxInputs /\ decoded \in 0..MaxBlobs

BnInit ==
  /\ trail \in Trails
  /\ nav = Closed /\ run = 0 /\ requests = {} /\ queues = [k \in Kinds |-> <<>>]
  /\ display = {} /\ live = {} /\ step = Resting
  /\ shown \in Urls /\ radius \in Radii
  /\ inputs = 0 /\ decoded = 0

-------------------------------------------------------------------------------
(* The reducer                                                             *)

ProbeK(bufferN) == Max({2 * bufferN, MinSkips})

EntryAt(n, i) == IF i \in DOMAIN n.entry THEN n.entry[i] ELSE EmptyEntry

\* No code marks an end of the trail.
Bucket(n, i) ==
  LET e == EntryAt(n, i)
  IN IF e.manifest = "FAILED_HEAD" \/ (e.manifest = "PRESENT" /\ e.image = "FAILED_GET") THEN "SKIPPABLE"
     ELSE IF e.manifest = "PRESENT" /\ e.image = "OK" THEN "LANDABLE" ELSE "WALL"

SetIndex(n, i, e) ==
  [n EXCEPT !.entry = [j \in DOMAIN @ \cup {i} |-> IF j = i THEN e ELSE @[j]]]

SetManifest(n, i, status, url) ==
  SetIndex(n, i, IF status = "PRESENT"
                 THEN [EntryAt(n, i) EXCEPT !.manifest = status, !.url = {url}]
                 ELSE [EntryAt(n, i) EXCEPT !.manifest = status, !.image = "UNKNOWN", !.blob = {}])

SetImage(n, i, status, blob) == SetIndex(n, i, [EntryAt(n, i) EXCEPT !.image = status, !.blob = blob])

\* The place that many bumps along the seek, and the bumps that land.
Along(n, k) == n.cursor + n.seek.dir * k
Landings(n, k) == {j \in 1..k : Bucket(n, Along(n, j)) = "LANDABLE"}

\* A seek stops before what is not decided, when it has landed as often as asked, and
\* after ProbeK failures in a row.
Stops(n, k) ==
  \/ Bucket(n, Along(n, k)) = "WALL"
  \/ Cardinality(Landings(n, k)) = n.seek.remaining
  \/ /\ k >= ProbeK(n.radius)
     /\ \A j \in (k - ProbeK(n.radius) + 1)..k : Bucket(n, Along(n, j)) = "SKIPPABLE"

\* The window holds finitely many indices, so a seek stops beyond them at the latest.
AdvanceSeek(n) ==
  LET stop == CHOOSE k \in 1..(Cardinality(DOMAIN n.entry) + 1) :
                Stops(n, k) /\ \A j \in 1..(k - 1) : ~Stops(n, j)
      landings == Landings(n, stop)
      moved == [n EXCEPT !.cursor = IF landings = {} THEN @ ELSE Along(n, Max(landings))]
  IN IF n.seek = NoSeek THEN n
     ELSE IF Bucket(n, Along(n, stop)) = "WALL"
          THEN [moved EXCEPT !.seek.remaining = @ - Cardinality(landings), !.blocked = {Along(n, stop)}]
     ELSE [moved EXCEPT !.seek = NoSeek, !.blocked = {}]

Seek(n, dir) ==
  LET remaining == IF n.seek.dir = dir THEN Min({n.seek.remaining + 1, ProbeK(n.radius)}) ELSE 1
  IN AdvanceSeek([n EXCEPT !.seek = [dir |-> dir, remaining |-> remaining]])

-------------------------------------------------------------------------------
(* Requests.  w is what the controller keeps: the window, its run, the     *)
(* requests, their queues, the display and the blobs.                      *)

Kept == [nav |-> nav, run |-> run, requests |-> requests, queues |-> queues, display |-> display, live |-> live]

Becomes(w) ==
  /\ w.run <= MaxRuns
  /\ nav' = w.nav /\ run' = w.run /\ requests' = w.requests
  /\ queues' = w.queues /\ display' = w.display /\ live' = w.live

Current(w, r) == w.nav # Closed /\ r.run = w.run

\* headInflight and getInflight, headQueued and getQueued: by their index.
Inflight(w, kind) == {r \in w.requests : r.kind = kind /\ r.tracked}
RequestsAt(rs, i) == {r \in rs : r.index = i}
Queued(w, kind) == {r \in w.requests : r.kind = kind /\ r.pc = "queued"}

Alter(w, old, new) == [w EXCEPT !.requests = (@ \ old) \cup new]
Untracked(rs) == {[r EXCEPT !.tracked = FALSE] : r \in rs}

Fetching(n, indices) ==
  [n EXCEPT !.entry = [i \in DOMAIN @ \cup indices |->
     IF i \in indices THEN [EntryAt(n, i) EXCEPT !.image = "GET_PENDING", !.blob = {}] ELSE @[i]]]

StartRequests(w, kind, indices) ==
  LET begun == {r \in Queued(w, kind) : r.index \in indices}
      at == {r.index : r \in begun}
      before == {r \in Inflight(w, kind) : r.index \in at}
      started == {[r EXCEPT !.pc = IF kind = "head" THEN "policy" ELSE "fetch", !.tracked = TRUE] : r \in begun}
      next == Alter(w, begun \cup before, started \cup Untracked(before))
  IN IF kind = "head" \/ at = {} THEN next ELSE [next EXCEPT !.nav = Fetching(@, at)]

\* An index is in a queue once, so the slots that are free go to its first indices.
Drain(w, kind) ==
  LET limit == IF kind = "head" THEN HeadLimit ELSE GetLimit
      free == Max({0, Min({limit - Cardinality(Inflight(w, kind)), Len(w.queues[kind])})})
  IN StartRequests([w EXCEPT !.queues[kind] = SubSeq(@, free + 1, Len(@))], kind,
                   ToSet(SubSeq(w.queues[kind], 1, free)))

\* Mutant: what the user waits for starts when there is a slot.
PromoteRequestInTurn(w, kind, i) == Drain(w, kind)

\* What the user waits for starts at once, whatever the limit.
PromoteRequest(w, kind, i) ==
  StartRequests([w EXCEPT !.queues[kind] = Filter(@, LAMBDA j : j # i)], kind, {i})

\* Nearest to the cursor first, and of two that are as near the lower one.
Nearness(n, i) == IF i > n.cursor THEN 2 * (i - n.cursor) + 1 ELSE 2 * (n.cursor - i)
Sorted(n, indices) ==
  LET keys == {Nearness(n, i) : i \in ToSet(indices)}
  IN [k \in 1..Cardinality(keys) |-> CHOOSE i \in ToSet(indices) : Nearness(n, i) = Nth(keys, k)]

NewRequest(w, kind, i, advance, follow) ==
  LET url == IF kind = "get" /\ EntryAt(w.nav, i).url # {} THEN CHOOSE u \in EntryAt(w.nav, i).url : TRUE
             ELSE w.nav.base + i
      same == {r \in w.requests : r.kind = kind /\ r.index = i /\ r.run = w.run}
      twin == CHOOSE t \in 0..Cardinality(same) : \A r \in same : r.twin # t
  IN [kind |-> kind, index |-> i, run |-> w.run, twin |-> twin, pc |-> "queued", url |-> url,
      advance |-> advance, follow |-> follow, tracked |-> FALSE, settled |-> FALSE]

Enqueue(w, kind, i, advance, follow) ==
  LET next == [Alter(w, {}, {NewRequest(w, kind, i, advance, follow)}) EXCEPT
                 !.queues = [k \in Kinds |-> Sorted(w.nav, IF k = kind THEN Append(@[k], i) ELSE @[k])]]
  IN IF advance THEN PromoteRequest(next, kind, i) ELSE Drain(next, kind)

\* Join the request in flight or in the queue, or make one.
Demand(w, kind, i, advance, follow) ==
  LET known == RequestsAt(Inflight(w, kind), i)
      waiting == RequestsAt(Queued(w, kind), i)
      Joined(rs) == {[r EXCEPT !.advance = @ \/ advance, !.follow = @ \/ follow] : r \in rs}
  IN IF known # {} THEN Alter(w, known, Joined(known))
     ELSE IF waiting # {}
          THEN LET next == Alter(w, waiting, Joined(waiting))
               IN IF advance THEN PromoteRequest(next, kind, i) ELSE next
     ELSE Enqueue(w, kind, i, advance, follow)

ProbeIndex(w, i, advance, follow) ==
  IF EntryAt(w.nav, i).manifest \in {"PRESENT", "FAILED_HEAD"} THEN w
  ELSE Demand(w, "head", i, advance, follow)

GetIndex(w, i, advance) ==
  IF EntryAt(w.nav, i).image \in {"OK", "FAILED_GET"} THEN w ELSE Demand(w, "get", i, advance, FALSE)

Wanted(n, i) == EntryAt(n, i).manifest = "PRESENT" /\ EntryAt(n, i).image \notin {"OK", "FAILED_GET"}

\* The preload's resolveIndex: a probe, and the fetch that follows it.
ResolveIndex(w, i) ==
  IF Bucket(w.nav, i) # "WALL" THEN w
  ELSE IF Wanted(w.nav, i) THEN GetIndex(w, i, FALSE)
  ELSE ProbeIndex(w, i, FALSE, TRUE)

Ask(w, i, fetching) == IF fetching THEN ResolveIndex(w, i) ELSE ProbeIndex(w, i, FALSE, FALSE)

\* A loop that asks for one index after the other.
AskEach(w, indices, fetching) ==
  LET asked[k \in 0..Len(indices)] == IF k = 0 THEN w ELSE Ask(asked[k - 1], indices[k], fetching)
  IN asked[Len(indices)]

Window(n) == (n.cursor - n.radius)..(n.cursor + n.radius)

\* The window without its cursor, in ascending order.
Neighbours(n) ==
  [k \in 1..(2 * n.radius) |-> n.cursor + (IF k <= n.radius THEN k - n.radius - 1 ELSE k - n.radius)]

BlobsOf(n) == UNION {n.entry[i].blob : i \in DOMAIN n.entry}

SchedulePreloads(w) ==
  LET out == DOMAIN w.nav.entry \ Window(w.nav)
      kept == [w EXCEPT !.nav.entry = [i \in DOMAIN @ \ out |-> @[i]],
                        !.live = @ \ UNION {w.nav.entry[i].blob : i \in out}]
  IN IF w.nav = Closed THEN w
     ELSE AskEach(kept, Neighbours(kept.nav), TRUE)

-------------------------------------------------------------------------------
(* Windows                                                                 *)

ClearQueues(w) ==
  [w EXCEPT !.requests = {r \in @ : r.pc # "queued"}, !.queues = [k \in Kinds |-> <<>>]]

\* What is in flight is settled for those who wait, and goes on to its end.
CancelInflight(w) ==
  [w EXCEPT !.requests = {IF r.tracked THEN [r EXCEPT !.tracked = FALSE, !.settled = TRUE] ELSE r : r \in @}]

Replace(w, preserve) ==
  LET inWindow == IF w.nav # Closed THEN BlobsOf(w.nav) ELSE {}
      gone == IF preserve THEN inWindow \ {x.blob : x \in w.display}
                          ELSE inWindow \cup {x.blob : x \in w.display}
  IN CancelInflight(ClearQueues(
       [w EXCEPT !.run = @ + 1, !.nav = Closed, !.live = @ \ gone,
                 !.display = IF preserve THEN @ ELSE {}]))

Opened(url, blob) ==
  [base |-> url, radius |-> radius, cursor |-> 0, seek |-> NoSeek, blocked |-> {},
   entry |-> [i \in {0} |-> [manifest |-> "PRESENT", image |-> "OK", url |-> {url}, blob |-> {blob}]]]

Ensure(w, url) ==
  LET n == w.nav
      same == {i \in DOMAIN n.entry : n.entry[i].url = {url}}
      i == CHOOSE j \in same : TRUE
      matching == {x \in w.display : x.url = url}
      blob == IF matching # {} THEN (CHOOSE x \in matching : TRUE).blob ELSE Anchor(url)
  IN IF n # Closed /\ n.radius = radius /\ same # {}
     THEN SchedulePreloads(
            IF n.cursor = i THEN w
            ELSE ClearQueues([w EXCEPT !.nav.cursor = i, !.nav.seek = NoSeek, !.nav.blocked = {}]))
     ELSE IF n # Closed /\ n.radius = radius /\ n.base = url THEN w
     ELSE SchedulePreloads([Replace(w, matching # {}) EXCEPT !.nav = Opened(url, blob)])

\* A press that waits for a request goes on when that request is settled.
Released(settled) ==
  IF step.pc = "parked" /\ \E r \in settled : Identity(r) = step.waits
  THEN [step EXCEPT !.pc = IF step.waits.kind = "head" THEN "probed" ELSE "resolved"]
  ELSE step

\* Nothing else happens while a continuation is ready.
Unpressed == step.pc \in {"idle", "parked"}

\* What the panel calls leaves w, with some requests settled.
Called(w) ==
  /\ Unpressed /\ Becomes(w)
  /\ step' = Released({r \in w.requests : r.settled})

Prime ==
  /\ Called(IF radius = 0 THEN Replace(Kept, TRUE) ELSE Ensure(Kept, shown))
  /\ UNCHANGED <<shown, radius, inputs, decoded>>

Refresh == Called(SchedulePreloads(Kept)) /\ UNCHANGED <<shown, radius, inputs, decoded>>

Dispose == Called(Replace(Kept, FALSE)) /\ UNCHANGED <<shown, radius, inputs, decoded>>

\* The user goes to another url, by an edit or the candidate scan.
Show(url) ==
  /\ Unpressed /\ url # shown /\ shown' = url
  /\ inputs < MaxInputs /\ inputs' = inputs + 1
  /\ UNCHANGED <<nav, run, requests, queues, display, live, step, radius, decoded>>

SetRadius(n) ==
  /\ Unpressed /\ n # radius /\ radius' = n
  /\ inputs < MaxInputs /\ inputs' = inputs + 1
  /\ UNCHANGED <<nav, run, requests, queues, display, live, step, shown, decoded>>

-------------------------------------------------------------------------------
(* Answers                                                                 *)

\* A request has ended: its entry in flight goes, whoever's it is; a slot is free;
\* then whoever waited for it goes on.
EndRequest(w, r) ==
  LET held == RequestsAt(Inflight(w, r.kind), r.index)
      next == Drain(Alter(w, held \cup {r}, Untracked(held \ {r})), r.kind)
  IN IF ~r.settled /\ r.follow /\ next.nav # Closed /\ Wanted(next.nav, r.index)
     THEN GetIndex(next, r.index, FALSE) ELSE next

Ends(w, r) ==
  /\ Unpressed /\ Becomes(EndRequest(w, r))
  /\ step' = IF r.settled THEN step ELSE Released({r})
  /\ UNCHANGED <<shown, radius, inputs>>

\* The window takes the answer, and the seek goes on if a press waits for it.
Taken(n, r) == IF r.advance THEN AdvanceSeek(n) ELSE n

Marked(r, status) ==
  [Kept EXCEPT !.nav = Taken(SetManifest(@, r.index, status, r.url), r)]

\* The policy knows the answer, or the url has to be probed.
PolicyAnswers(r) ==
  LET probing == Alter(Kept, {r}, {[r EXCEPT !.pc = "probe"]})
  IN /\ r.pc = "policy" /\ UNCHANGED decoded
     /\ \/ ~Current(Kept, r) /\ Ends(Kept, r)
        \/ Current(Kept, r) /\ r.url \in trail.failed /\ Ends(Marked(r, "FAILED_HEAD"), r)
        \/ Current(Kept, r) /\ r.url \in trail.known /\ Ends(Marked(r, "PRESENT"), r)
        \/ /\ Current(Kept, r) /\ r.url \notin trail.failed \cup trail.known
           /\ Unpressed
           /\ Becomes([probing EXCEPT !.nav = SetManifest(@, r.index, "HEAD_PENDING", r.url)])
           /\ UNCHANGED <<step, shown, radius, inputs>>

ProbeAnswers(r) ==
  LET status == IF r.url \in trail.absent THEN "FAILED_HEAD" ELSE "PRESENT"
  IN /\ r.pc = "probe" /\ UNCHANGED decoded
     /\ Ends(IF Current(Kept, r) THEN Marked(r, status) ELSE Kept, r)

Decoded(r) == [url |-> r.url, serial |-> decoded + 1]

WithImage(r) ==
  [Kept EXCEPT !.nav = Taken(IF r.url \in trail.broken THEN SetImage(@, r.index, "FAILED_GET", {})
                             ELSE SetImage(@, r.index, "OK", {Decoded(r)}), r),
               !.live = IF r.url \in trail.broken THEN @ ELSE @ \cup {Decoded(r)}]

Fetched(r) ==
  /\ r.pc = "fetch"
  /\ IF r.url \in trail.broken THEN UNCHANGED decoded
     ELSE decoded < MaxBlobs /\ decoded' = decoded + 1

\* Mutant: the window that asked may be gone, as long as there is one.
FetchAnswersAnyRun(r) == Fetched(r) /\ Ends(IF nav # Closed THEN WithImage(r) ELSE Kept, r)

\* The blob of a window that is gone is revoked at once.
FetchAnswers(r) == Fetched(r) /\ Ends(IF Current(Kept, r) THEN WithImage(r) ELSE Kept, r)

-------------------------------------------------------------------------------
(* A press                                                                 *)

Press(dir) ==
  LET w == Ensure(Kept, shown)
  IN /\ step = Resting /\ radius > 0
     /\ inputs < MaxInputs /\ inputs' = inputs + 1
     /\ Becomes([w EXCEPT !.nav = Seek(@, dir)])
     /\ step' = [pc |-> "seeking", dir |-> dir, run |-> w.run, from |-> w.nav.cursor, attempt |-> 0,
                 waits |-> Nothing]
     /\ UNCHANGED <<shown, radius, decoded>>

Landed ==
  /\ nav.cursor # step.from
  /\ nav.entry[nav.cursor].image = "OK" /\ nav.entry[nav.cursor].url # {}

Attempts == step.attempt <= ProbeK(nav.radius) + 1

\* The page takes the image, or refuses it: another projection has begun.
Land ==
  LET e == nav.entry[nav.cursor]
      url == CHOOSE u \in e.url : TRUE
      blob == CHOOSE b \in e.blob : TRUE
  IN /\ step.pc = "seeking" /\ Attempts /\ Landed
     /\ \/ /\ shown' = url
           /\ Becomes(SchedulePreloads([Kept EXCEPT !.display =
                        IF blob.serial = 0 THEN {} ELSE {[url |-> url, blob |-> blob]}]))
        \/ Becomes(SchedulePreloads(Kept)) /\ UNCHANGED shown
     /\ step' = Resting
     /\ UNCHANGED <<radius, inputs, decoded>>

GiveUp ==
  /\ step.pc = "seeking"
  /\ \/ ~Attempts /\ UNCHANGED <<nav, run, requests, queues, display, live>>
     \/ Attempts /\ ~Landed /\ nav.blocked = {} /\ Becomes(SchedulePreloads(Kept))
  /\ step' = Resting
  /\ UNCHANGED <<shown, radius, inputs, decoded>>

\* Wait for the request that w has of an index.
Park(w, kind, i) ==
  /\ Becomes(w)
  /\ step' = [step EXCEPT !.pc = "parked", !.waits =
               Identity(CHOOSE r \in RequestsAt(Inflight(w, kind) \cup Queued(w, kind), i) : TRUE)]
  /\ UNCHANGED <<shown, radius, inputs, decoded>>

\* Blocked: probe the rest of the skip budget, and wait for this index.
Await ==
  LET i == CHOOSE j \in nav.blocked : TRUE
      ahead == [offset \in 1..ProbeK(nav.radius) |-> i + step.dir * offset]
      warmed == AskEach(Kept, ahead, FALSE)
  IN /\ step.pc = "seeking" /\ Attempts /\ ~Landed /\ nav.blocked # {}
     /\ \/ Wanted(nav, i) /\ Park(GetIndex(warmed, i, TRUE), "get", i)
        \/ ~Wanted(nav, i) /\ Park(ProbeIndex(warmed, i, TRUE, FALSE), "head", i)

\* The probe is settled: fetch what is there, in whatever window there is now.
Probed ==
  /\ step.pc = "probed"
  /\ \/ /\ nav # Closed /\ Wanted(nav, step.waits.index)
        /\ Park(GetIndex(Kept, step.waits.index, TRUE), "get", step.waits.index)
     \/ /\ nav # Closed => ~Wanted(nav, step.waits.index)
        /\ step' = [step EXCEPT !.pc = "resolved"]
        /\ UNCHANGED <<nav, run, requests, queues, display, live, shown, radius, inputs, decoded>>

\* The index is decided: seek on, unless the window is another.
Resume ==
  /\ step.pc = "resolved"
  /\ \/ /\ Current(Kept, step)
        /\ nav' = AdvanceSeek(nav)
        /\ step' = [step EXCEPT !.pc = "seeking", !.attempt = @ + 1]
     \/ ~Current(Kept, step) /\ step' = Resting /\ UNCHANGED nav
  /\ UNCHANGED <<run, requests, queues, display, live, shown, radius, inputs, decoded>>

BnNext ==
  /\ UNCHANGED trail
  /\ \/ Prime \/ Refresh \/ Dispose
     \/ \E url \in Urls : Show(url)
     \/ \E n \in Radii : SetRadius(n)
     \/ \E r \in requests : PolicyAnswers(r) \/ ProbeAnswers(r) \/ FetchAnswers(r)
     \/ \E dir \in {-1, 1} : Press(dir)
     \/ Land \/ GiveUp \/ Await \/ Probed \/ Resume

BnSpec == BnInit /\ [][BnNext]_bnVars

-------------------------------------------------------------------------------
(* Properties                                                              *)

\* The window holds at each index the url and the image of that many bumps from its
\* base: an answer to a request of an earlier window, of another base, never gets
\* into it (isCurrentRun after every await of startHeadProbe and startGet).
WindowIsOfBase ==
  nav # Closed => \A i \in DOMAIN nav.entry :
    /\ nav.entry[i].url \subseteq {nav.base + i}
    /\ \A b \in nav.entry[i].blob : b.url = nav.base + i

\* A press that waits is waiting for a request that is under way and will wake it:
\* it never stands in the queue behind what is only preloaded, nor waits for what a
\* new window has settled (promoteQueuedHeadProbe, promoteQueuedGet, cancelInflight).
ParkedIsInFlight ==
  step.pc = "parked" =>
    \E r \in requests : Identity(r) = step.waits /\ r.pc # "queued" /\ ~r.settled

\* "One press steps them ALL together into a single combined URL, the same result as
\* clicking each field's +/- once" (parsed-field-navigation-controller.ts): it starts
\* from the url of the panel.  Violated: ensure keeps a window of the same base
\* whose cursor is elsewhere once index 0 is evicted.
StepsFromShown == step.pc = "seeking" /\ step.attempt = 0 => nav.base + step.from = shown
===============================================================================
