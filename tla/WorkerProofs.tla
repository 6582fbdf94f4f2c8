------------------------------ MODULE WorkerProofs ------------------------------
(***************************************************************************)
(* Proofs about what the service worker keeps.                             *)
(*                                                                         *)
(* The dispatcher: its types, that every route is true of its journal, and *)
(* that a journal is continued through its own provider.                   *)
(*                                                                         *)
(* The key session: its types, and that a lock and the last activity       *)
(* outlive the worker.  Both properties speak of the quiet states, where   *)
(* the record is what every storage operation has left.  The invariant     *)
(* speaks of every state, of the record that will be left (Final) and of   *)
(* the one that each restore will read (WillFind).                         *)
(***************************************************************************)
EXTENDS InteropRuntime, KeySession, TLAPS

-------------------------------------------------------------------------------
(* The dispatcher                                                          *)

DispatchType ==
  [pc: {"recover", "route", "start", "work", "clear"}, action: Actions,
   selection: Selections \cup {"none"}, prefs: Preferences]

InFlight(d) == dispatch[d] # Idle

\* The selected provider is that of the active route, where that is known.
Follows(p) == Active(p).provider # "unknown" => p.provider = Active(p).provider

\* A record of preferences, stored or copied, is true and names ids given out.
CopySound(p) ==
  /\ p \in Preferences
  /\ TrueOf(p)
  /\ Follows(p)
  /\ \A o \in Operations : p.route[o].id <= used

CopiesSound == CopySound(prefs) /\ \A d \in Dispatches : InFlight(d) => CopySound(dispatch[d].prefs)

\* Dispatches have a selection unless they choose a provider or an operation.
SelectionGiven ==
  \A d \in Dispatches : InFlight(d) =>
    (dispatch[d].selection = "none" <=> dispatch[d].action.name \in {"select-provider", "set-operation"})

\* The route of a journal that is still to be queued is the same in every copy.
SameRoute(p, o, r) == \A x \in Operations : p.route[x].id = r.id => x = o /\ p.route[x] = r

Starting(d) == dispatch[d].pc = "start"

StartSound(x) ==
  LET r == Active(x.prefs)
      o == x.prefs.operation
  IN /\ r.id \in Ids /\ r.provider = x.prefs.provider /\ r.selection = x.selection
     /\ x.selection \in Selections
     /\ journal[r.id] = NoJournal
     /\ SameRoute(prefs, o, r)
     /\ \A e \in Dispatches : InFlight(e) => SameRoute(dispatch[e].prefs, o, r)

StartsAlone ==
  /\ \A d \in Dispatches : Starting(d) => StartSound(dispatch[d])
  /\ \A d, e \in Dispatches :
       d # e /\ Starting(d) /\ Starting(e) => Active(dispatch[d].prefs).id # Active(dispatch[e].prefs).id

\* A journal that is worked on is there, and its provider is the selected one.
WorkSound ==
  \A d \in Dispatches : dispatch[d].pc = "work" =>
    LET n == Active(dispatch[d].prefs).id
    IN n \in Ids /\ journal[n].phase # "none" /\ journal[n].provider = dispatch[d].prefs.provider

UnusedIsNone == \A n \in Ids : n > used => journal[n] = NoJournal

RuntimeInv ==
  RtTypeOK /\ CopiesSound /\ SelectionGiven /\ StartsAlone /\ WorkSound /\ UnusedIsNone

-------------------------------------------------------------------------------
(* The preferences                                                         *)

LEMMA OperationNames == Operations = {"move", "sync"}
  BY DEF Operations

LEMMA RouteFacts ==
  ASSUME NEW p \in Preferences, NEW o \in Operations
  PROVE  /\ p.route[o] \in Routes \cup {NoRoute}
         /\ p.route[o].id \in Nat
         /\ p.route[o].id # 0 => p.route[o].id \in Ids /\ p.route[o] \in Routes
         /\ p.route[o].id = 0 => p.route[o] = NoRoute
         /\ p.operation \in Operations /\ p.provider \in RouteProviders
         /\ p.provider # "unknown"
  BY MaxJournalsAssumption, RouteProvidersAssumption DEF Preferences, Routes, NoRoute, Ids

LEMMA JournalFacts ==
  ASSUME RtTypeOK, NEW n \in Ids
  PROVE  /\ journal[n] \in Journals
         /\ journal[n].phase = "none" <=> journal[n] = NoJournal
         /\ journal[n].phase # "none" =>
              /\ journal[n].operation \in Operations /\ journal[n].provider \in RouteProviders
              /\ journal[n].selection \in Selections /\ journal[n].provider # "unknown"
  BY RouteProvidersAssumption DEF RtTypeOK, Journals, NoJournal

LEMMA RecoveredSound ==
  ASSUME RtTypeOK, NEW p, CopySound(p)
  PROVE  /\ CopySound(Recovered(p))
         /\ \A o \in Operations : Recovered(p).route[o].id = p.route[o].id
         /\ \A o \in Operations :
              p.route[o].id # 0 /\ journal[p.route[o].id].phase = "none" => Recovered(p).route[o] = p.route[o]
  <1> DEFINE n == p.route["sync"].id
             j == journal[n].provider
             q == [p EXCEPT !.route["sync"].provider = j, !.provider = IF p.operation = "sync" THEN j ELSE @]
  <1>1. CASE n = 0 \/ journal[n].phase = "none"
    BY <1>1 DEF Recovered
  <1>2. CASE ~(n = 0 \/ journal[n].phase = "none")
    <2>1. p \in Preferences /\ "sync" \in Operations /\ "move" \in Operations
      BY DEF CopySound, Operations
    <2>2. n \in Ids /\ p.route["sync"] \in Routes
      BY <1>2, <2>1, RouteFacts
    <2>3. j \in RouteProviders /\ j # "unknown"
      BY <1>2, <2>2, JournalFacts
    <2>4. Recovered(p) = q
      BY <1>2 DEF Recovered
    <2>5. q.route = [p.route EXCEPT !["sync"].provider = j]
      BY <2>1 DEF Preferences
    <2>6. /\ q.operation = p.operation
          /\ q.provider = IF p.operation = "sync" THEN j ELSE p.provider
          /\ q.route["move"] = p.route["move"]
          /\ q.route["sync"] = [p.route["sync"] EXCEPT !.provider = j]
      BY <2>1, <2>5 DEF Preferences
    <2>7. [p.route["sync"] EXCEPT !.provider = j] \in Routes
      BY <2>2, <2>3 DEF Routes
    <2>8. q.route["sync"].id = n /\ q.route["sync"].provider = j
          /\ q.route["sync"].selection = p.route["sync"].selection
      BY <2>2, <2>6 DEF Routes
    <2>9. q \in Preferences
      BY <2>1, <2>3, <2>5, <2>6, <2>7 DEF Preferences
    <2>10. TrueOf(q)
      BY <2>6, <2>8, OperationNames DEF TrueOf, CopySound
    <2>11. Follows(q)
      BY <2>1, <2>3, <2>6, <2>8, RouteFacts, OperationNames DEF Follows, Active, CopySound
    <2> QED
      BY <1>2, <2>4, <2>6, <2>8, <2>9, <2>10, <2>11, OperationNames DEF CopySound
  <1> QED
    BY <1>1, <1>2

\* A copy made from another one drops a route or keeps its id, and changes no route
\* whose journal is not there.
Kin(q, p) ==
  \A o \in Operations :
    \/ q.route[o] = NoRoute
    \/ /\ q.route[o].id = p.route[o].id
       /\ journal[p.route[o].id].phase = "none" => q.route[o] = p.route[o]

LEMMA KinRecovered ==
  ASSUME RtTypeOK, NEW p, CopySound(p)
  PROVE  CopySound(Recovered(p)) /\ Kin(Recovered(p), p)
  <1>1. p \in Preferences
    BY DEF CopySound
  <1>2. \A o \in Operations : p.route[o].id = 0 => Recovered(p).route[o] = NoRoute
    <2> SUFFICES ASSUME NEW o \in Operations, p.route[o].id = 0 PROVE Recovered(p).route[o] = NoRoute
      OBVIOUS
    <2>1. Recovered(p) \in Preferences /\ Recovered(p).route[o].id = 0
      BY RecoveredSound DEF CopySound
    <2> QED
      BY <2>1, RouteFacts
  <1> QED
    BY <1>1, <1>2, RecoveredSound DEF Kin

LEMMA KinProvider ==
  ASSUME NEW p, CopySound(p), NEW x \in RouteProviders, HasActive(p) => Active(p).provider = x
  PROVE  LET q == [p EXCEPT !.provider = x] IN CopySound(q) /\ Kin(q, p)
  <1> DEFINE q == [p EXCEPT !.provider = x]
  <1>1. p \in Preferences
    BY DEF CopySound
  <1>2. q \in Preferences /\ q.route = p.route /\ q.operation = p.operation /\ q.provider = x
    BY <1>1 DEF Preferences
  <1>3. p.operation \in Operations
    BY <1>1, RouteFacts, OperationNames
  <1>4. ~HasActive(p) => Active(p).provider = "unknown"
    BY <1>1, <1>3, RouteFacts DEF Active, HasActive, NoRoute
  <1> HIDE DEF q
  <1>5. Follows(q)
    BY <1>2, <1>4 DEF Follows, Active, HasActive
  <1> QED
    BY <1>2, <1>5 DEF CopySound, TrueOf, Kin, q

LEMMA KinOperation ==
  ASSUME NEW p, CopySound(p), NEW o \in Operations
  PROVE  CopySound(WithOperation(p, o)) /\ Kin(WithOperation(p, o), p)
  <1> DEFINE q == WithOperation(p, o)
             r == p.route[o].provider
  <1>1. p \in Preferences /\ r \in RouteProviders \cup {"unknown"}
    BY RouteFacts DEF CopySound, Routes, NoRoute
  <1>2. /\ q \in Preferences /\ q.route = p.route /\ q.operation = o
        /\ q.provider = IF r = "unknown" THEN p.provider ELSE r
    BY <1>1 DEF Preferences, WithOperation
  <1>3. Follows(q)
    BY <1>2 DEF Follows, Active
  <1> HIDE DEF q
  <1> QED
    BY <1>2, <1>3 DEF CopySound, TrueOf, Kin, q

LEMMA KinCleared ==
  ASSUME RtTypeOK, NEW p, CopySound(p)
  PROVE  CopySound(Cleared(p)) /\ Kin(Cleared(p), p)
  <1> DEFINE q == Cleared(p)
  <1>1. p \in Preferences /\ p.operation \in Operations
    BY RouteFacts, OperationNames DEF CopySound
  <1>2. /\ q \in Preferences /\ q.operation = p.operation /\ q.provider = p.provider
        /\ q.route = [p.route EXCEPT ![p.operation] = NoRoute]
    BY <1>1 DEF Preferences, Cleared
  <1>3. \A x \in Operations : q.route[x] = IF x = p.operation THEN NoRoute ELSE p.route[x]
    BY <1>1, <1>2 DEF Preferences
  <1>4. Follows(q)
    BY <1>1, <1>2, <1>3 DEF Follows, Active, NoRoute
  <1>5. NoRoute.id = 0
    BY DEF NoRoute
  <1>6. 0 <= used
    BY MaxJournalsAssumption DEF RtTypeOK
  <1> HIDE DEF q
  <1>8. TrueOf(q)
    BY <1>3, <1>5 DEF TrueOf, CopySound
  <1> QED
    BY <1>2, <1>3, <1>4, <1>5, <1>6, <1>8 DEF CopySound, Kin, q

LEMMA KinSelf == ASSUME NEW p PROVE Kin(p, p)
  BY DEF Kin

-------------------------------------------------------------------------------
(* Steps that give out no id and queue no journal                          *)

\* Journals that are there keep all but their phase, and none appears.
JournalKept ==
  /\ journal' \in [Ids -> Journals]
  /\ \A n \in Ids :
       IF journal[n].phase = "none" THEN journal'[n] = journal[n]
       ELSE /\ journal'[n].operation = journal[n].operation
            /\ journal'[n].provider = journal[n].provider
            /\ journal'[n].selection = journal[n].selection
            /\ journal'[n].phase # "none"

\* q is sound and made from a copy.
FromCopy(q) ==
  /\ CopySound(q)
  /\ Kin(q, prefs) \/ \E e \in Dispatches : InFlight(e) /\ Kin(q, dispatch[e].prefs)

LEMMA FromCopies ==
  ASSUME CopiesSound
  PROVE  FromCopy(prefs) /\ \A e \in Dispatches : InFlight(e) => FromCopy(dispatch[e].prefs)
  BY KinSelf DEF CopiesSound, FromCopy

LEMMA FromDispatch ==
  ASSUME NEW e \in Dispatches, InFlight(e), NEW q, CopySound(q), Kin(q, dispatch[e].prefs)
  PROVE  FromCopy(q)
  BY DEF FromCopy

LEMMA SoundKept ==
  ASSUME RtTypeOK, JournalKept, used' = used, NEW p, CopySound(p)
  PROVE  CopySound(p)'
  <1>1. \A o \in Operations : p.route[o].id # 0 => p.route[o].id \in Ids
    BY RouteFacts DEF CopySound
  <1>2. TrueOf(p)'
    BY <1>1 DEF CopySound, TrueOf, JournalKept
  <1> QED
    BY <1>2 DEF CopySound, Follows, Active, Preferences, Routes, NoRoute, Ids, Operations

LEMMA SameRouteKept ==
  ASSUME NEW r, r.id \in Ids, journal[r.id] = NoJournal, NEW o,
         SameRoute(prefs, o, r), \A e \in Dispatches : InFlight(e) => SameRoute(dispatch[e].prefs, o, r),
         NEW q, FromCopy(q)
  PROVE  SameRoute(q, o, r)
  <1>1. ASSUME NEW p, SameRoute(p, o, r), Kin(q, p) PROVE SameRoute(q, o, r)
    <2> SUFFICES ASSUME NEW x \in Operations, q.route[x].id = r.id PROVE x = o /\ q.route[x] = r
      BY DEF SameRoute
    <2>1. q.route[x] # NoRoute
      BY DEF NoRoute, Ids
    <2>2. /\ q.route[x].id = p.route[x].id
          /\ journal[p.route[x].id].phase = "none" => q.route[x] = p.route[x]
      BY <1>1, <2>1 DEF Kin
    <2> QED
      BY <1>1, <2>2 DEF SameRoute, NoJournal
  <1> QED
    BY <1>1 DEF FromCopy

\* What such a step has to show: the copies it makes are made from copies.
LEMMA QuietStep ==
  ASSUME RuntimeInv, used' = used, JournalKept, FromCopy(prefs'),
         dispatch' \in [Dispatches -> {Idle} \cup DispatchType],
         \A e \in Dispatches :
           \/ dispatch'[e] = dispatch[e] \/ dispatch'[e] = Idle
           \/ /\ FromCopy(dispatch'[e].prefs)
              /\ dispatch'[e].pc # "start"
              /\ dispatch'[e].selection = "none"
                   <=> dispatch'[e].action.name \in {"select-provider", "set-operation"}
              /\ dispatch'[e].pc = "work" =>
                   LET n == Active(dispatch'[e].prefs).id
                   IN n \in Ids /\ journal[n].phase # "none" /\ journal[n].provider = dispatch'[e].prefs.provider
  PROVE  RuntimeInv'
  <1> USE DEF RuntimeInv
  <1>1. \A e \in Dispatches : InFlight(e)' => FromCopy(dispatch'[e].prefs)
    BY FromCopies DEF InFlight
  <1>2. CopiesSound'
    BY <1>1, SoundKept DEF CopiesSound, FromCopy
  <1>3. RtTypeOK'
    BY <1>2 DEF RtTypeOK, CopiesSound, CopySound, JournalKept, DispatchType
  <1>4. SelectionGiven'
    BY DEF SelectionGiven, InFlight
  <1>5. \A e \in Dispatches : Starting(e)' => Starting(e) /\ dispatch'[e] = dispatch[e]
    BY DEF Starting, Idle
  <1>6. StartsAlone'
    <2>1. ASSUME NEW x, StartSound(x) PROVE StartSound(x)'
      <3> DEFINE r == Active(x.prefs)
                 o == x.prefs.operation
      <3>1. /\ r.id \in Ids /\ journal[r.id] = NoJournal /\ SameRoute(prefs, o, r)
            /\ \A e \in Dispatches : InFlight(e) => SameRoute(dispatch[e].prefs, o, r)
        BY <2>1 DEF StartSound
      <3>2. journal'[r.id] = NoJournal
        BY <3>1 DEF JournalKept, NoJournal
      <3>3. \A q : FromCopy(q) => SameRoute(q, o, r)
        BY <3>1, SameRouteKept
      <3>4. \A e \in Dispatches : InFlight(e)' => SameRoute(dispatch'[e].prefs, o, r)
        BY <1>1, <3>3
      <3>5. SameRoute(prefs', o, r)
        BY <3>3
      <3> QED
        BY <2>1, <3>2, <3>4, <3>5 DEF StartSound, SameRoute, Active, Ids
    <2> QED
      BY <1>5, <2>1 DEF StartsAlone, Active
  <1>7. WorkSound'
    <2> SUFFICES ASSUME NEW e \in Dispatches, dispatch'[e].pc = "work"
                 PROVE  LET n == Active(dispatch'[e].prefs).id
                        IN n \in Ids /\ journal'[n].phase # "none" /\ journal'[n].provider = dispatch'[e].prefs.provider
      BY DEF WorkSound, Ids, Active
    <2>1. LET n == Active(dispatch'[e].prefs).id
          IN n \in Ids /\ journal[n].phase # "none" /\ journal[n].provider = dispatch'[e].prefs.provider
      BY DEF WorkSound, Idle
    <2> QED
      BY <2>1 DEF JournalKept
  <1>8. UnusedIsNone'
    BY DEF UnusedIsNone, JournalKept, NoJournal, Ids
  <1> QED
    BY <1>2, <1>3, <1>4, <1>6, <1>7, <1>8

-------------------------------------------------------------------------------
(* The actions                                                             *)

\* What the invariant says of one dispatch.
LEMMA DispatchFacts ==
  ASSUME RuntimeInv, NEW d \in Dispatches, dispatch[d].pc # "idle"
  PROVE  /\ InFlight(d) /\ dispatch[d] \in DispatchType
         /\ CopySound(dispatch[d].prefs) /\ dispatch[d].prefs \in Preferences
         /\ dispatch[d].prefs.operation \in Operations
         /\ Active(dispatch[d].prefs).id # 0 => Active(dispatch[d].prefs).id \in Ids
         /\ dispatch[d].action.name \notin {"select-provider", "set-operation"} => dispatch[d].selection \in Selections
  <1>1. InFlight(d)
    BY DEF InFlight, Idle
  <1>2. dispatch[d] \in DispatchType /\ CopySound(dispatch[d].prefs)
    BY <1>1 DEF RuntimeInv, RtTypeOK, CopiesSound, InFlight, DispatchType
  <1>3. dispatch[d].prefs \in Preferences /\ dispatch[d].prefs.operation \in Operations
    BY <1>2, RouteFacts, OperationNames DEF CopySound
  <1>4. Active(dispatch[d].prefs).id # 0 => Active(dispatch[d].prefs).id \in Ids
    BY <1>3, RouteFacts DEF Active
  <1>5. dispatch[d].action.name \notin {"select-provider", "set-operation"} => dispatch[d].selection \in Selections
    BY <1>1, <1>2 DEF RuntimeInv, SelectionGiven, DispatchType
  <1> QED
    BY <1>1, <1>2, <1>3, <1>4, <1>5

\* A step that keeps the journals, ends d, and stores what is made from a copy.
LEMMA Saved ==
  ASSUME RuntimeInv, NEW d \in Dispatches, FromCopy(prefs'), Return(d), UNCHANGED <<journal, used>>
  PROVE  RuntimeInv'
  <1>1. JournalKept
    BY JournalFacts DEF RuntimeInv, RtTypeOK, JournalKept
  <1>2. dispatch' \in [Dispatches -> {Idle} \cup DispatchType]
        /\ \A e \in Dispatches : dispatch'[e] = dispatch[e] \/ dispatch'[e] = Idle
    BY DEF Return, RuntimeInv, RtTypeOK, DispatchType
  <1> QED
    BY <1>1, <1>2, QuietStep

\* A step that keeps the preferences and moves d, its journals' phases, or both.
LEMMA Moved ==
  ASSUME RuntimeInv, NEW d \in Dispatches, dispatch[d].pc # "idle", JournalKept, UNCHANGED <<prefs, used>>,
         NEW pc \in {"route", "work", "clear"}, Goto(d, pc) \/ Return(d),
         pc = "work" => LET n == Active(dispatch[d].prefs).id
                        IN n \in Ids /\ journal[n].phase # "none" /\ journal[n].provider = dispatch[d].prefs.provider
  PROVE  RuntimeInv'
  <1>1. FromCopy(prefs') /\ FromCopy(dispatch[d].prefs)
    BY FromCopies, DispatchFacts DEF RuntimeInv
  <1>2. dispatch[d] \in DispatchType /\ InFlight(d) /\ dispatch \in [Dispatches -> {Idle} \cup DispatchType]
    BY DispatchFacts DEF RuntimeInv, RtTypeOK, DispatchType
  <1>3. CASE Return(d)
    BY <1>1, <1>2, <1>3, QuietStep DEF Return
  <1>4. CASE Goto(d, pc)
    <2> DEFINE x == [dispatch[d] EXCEPT !.pc = pc]
    <2>1. dispatch' = [dispatch EXCEPT ![d] = x]
      BY <1>2, <1>4 DEF Goto
    <2>2. /\ x \in DispatchType /\ x.pc = pc /\ x.prefs = dispatch[d].prefs
          /\ x.selection = dispatch[d].selection /\ x.action = dispatch[d].action
      BY <1>2 DEF DispatchType
    <2>3. dispatch[d].selection = "none" <=> dispatch[d].action.name \in {"select-provider", "set-operation"}
      BY <1>2 DEF RuntimeInv, SelectionGiven
    <2> HIDE DEF x
    <2>4. /\ dispatch' \in [Dispatches -> {Idle} \cup DispatchType]
          /\ dispatch'[d] = x /\ \A e \in Dispatches : e # d => dispatch'[e] = dispatch[e]
      BY <1>2, <2>1, <2>2
    <2> QED
      BY <1>1, <2>2, <2>3, <2>4, QuietStep
  <1> QED
    BY <1>3, <1>4

LEMMA DispatchKeeps ==
  ASSUME RuntimeInv, NEW d \in Dispatches, NEW a \in Actions, NEW s \in Selections \cup {"none"}, Dispatch(d, a, s)
  PROVE  RuntimeInv'
  <1> DEFINE x == [pc |-> IF Recovered(prefs) = prefs THEN "route" ELSE "recover",
                   action |-> a, selection |-> s, prefs |-> prefs]
  <1>1. JournalKept /\ UNCHANGED used
    BY JournalFacts DEF Dispatch, RuntimeInv, RtTypeOK, JournalKept
  <1>2. FromCopy(prefs') /\ FromCopy(prefs)
    BY FromCopies DEF Dispatch, RuntimeInv
  <1>3. prefs \in Preferences /\ dispatch \in [Dispatches -> {Idle} \cup DispatchType]
    BY DEF RuntimeInv, RtTypeOK, DispatchType
  <1>4. x \in DispatchType /\ x.prefs = prefs /\ x.pc \in {"route", "recover"} /\ x.selection = s /\ x.action = a
    BY <1>3 DEF DispatchType
  <1>5. dispatch' = [dispatch EXCEPT ![d] = x] /\ (s = "none" <=> a.name \in {"select-provider", "set-operation"})
    BY DEF Dispatch
  <1> HIDE DEF x
  <1>6. /\ dispatch' \in [Dispatches -> {Idle} \cup DispatchType]
        /\ dispatch'[d] = x /\ \A e \in Dispatches : e # d => dispatch'[e] = dispatch[e]
    BY <1>3, <1>4, <1>5
  <1> QED
    BY <1>1, <1>2, <1>4, <1>5, <1>6, QuietStep

LEMMA RecoverKeeps ==
  ASSUME RuntimeInv, NEW d \in Dispatches, RecoverPreferences(d)
  PROVE  RuntimeInv'
  <1> DEFINE p == Recovered(dispatch[d].prefs)
             x == [dispatch[d] EXCEPT !.pc = "route", !.prefs = p]
  <1>1. /\ dispatch[d].pc = "recover" /\ prefs' = p /\ UNCHANGED <<journal, used>>
        /\ dispatch' = [dispatch EXCEPT ![d].pc = "route", ![d].prefs = p]
    BY DEF RecoverPreferences, Save
  <1>2. JournalKept
    BY <1>1, JournalFacts DEF RuntimeInv, RtTypeOK, JournalKept
  <1>3. InFlight(d) /\ dispatch[d] \in DispatchType /\ CopySound(dispatch[d].prefs)
    BY <1>1, DispatchFacts
  <1>4. FromCopy(p) /\ p \in Preferences
    BY <1>3, KinRecovered, FromDispatch DEF RuntimeInv, CopySound
  <1>5. dispatch[d].selection = "none" <=> dispatch[d].action.name \in {"select-provider", "set-operation"}
    BY <1>3 DEF RuntimeInv, SelectionGiven
  <1>6. dispatch \in [Dispatches -> {Idle} \cup DispatchType]
    BY DEF RuntimeInv, RtTypeOK, DispatchType
  <1> HIDE DEF p
  <1>7. dispatch' = [dispatch EXCEPT ![d] = x]
    BY <1>1, <1>6
  <1>8. /\ x \in DispatchType /\ x.pc = "route" /\ x.prefs = p
        /\ x.selection = dispatch[d].selection /\ x.action = dispatch[d].action
    BY <1>3, <1>4 DEF DispatchType
  <1> HIDE DEF x
  <1>9. /\ dispatch' \in [Dispatches -> {Idle} \cup DispatchType]
        /\ dispatch'[d] = x /\ \A e \in Dispatches : e # d => dispatch'[e] = dispatch[e]
    BY <1>6, <1>7, <1>8
  <1> QED
    BY <1>1, <1>2, <1>4, <1>5, <1>8, <1>9, QuietStep

LEMMA SelectKeeps ==
  ASSUME RuntimeInv, NEW d \in Dispatches, SelectProvider(d)
  PROVE  RuntimeInv'
  <1> DEFINE p == dispatch[d].prefs
             x == dispatch[d].action.provider
  <1>1. /\ dispatch[d].pc = "route" /\ dispatch[d].action.name = "select-provider"
        /\ HasActive(p) => Active(p).provider = x
        /\ prefs' = [p EXCEPT !.provider = x] /\ Return(d) /\ UNCHANGED <<journal, used>>
    BY DEF SelectProvider, Save
  <1>2. InFlight(d) /\ dispatch[d] \in DispatchType /\ CopySound(p)
    BY <1>1, DispatchFacts
  <1>3. x \in RouteProviders
    BY <1>1, <1>2 DEF DispatchType, Actions
  <1>4. FromCopy(prefs')
    BY <1>1, <1>2, <1>3, KinProvider, FromDispatch
  <1> QED
    BY <1>1, <1>4, Saved

LEMMA OperationKeeps ==
  ASSUME RuntimeInv, NEW d \in Dispatches, SetOperation(d)
  PROVE  RuntimeInv'
  <1> DEFINE o == dispatch[d].action.operation
  <1>1. /\ dispatch[d].pc = "route" /\ dispatch[d].action.name = "set-operation"
        /\ prefs' = WithOperation(dispatch[d].prefs, o) /\ Return(d) /\ UNCHANGED <<journal, used>>
    BY DEF SetOperation, Save
  <1>2. InFlight(d) /\ dispatch[d] \in DispatchType /\ CopySound(dispatch[d].prefs)
    BY <1>1, DispatchFacts
  <1>3. o \in Operations
    BY <1>1, <1>2 DEF DispatchType, Actions
  <1>4. FromCopy(prefs')
    BY <1>1, <1>2, <1>3, KinOperation, FromDispatch
  <1> QED
    BY <1>1, <1>4, Saved

LEMMA ClearKeeps ==
  ASSUME RuntimeInv, NEW d \in Dispatches, ClearRoute(d)
  PROVE  RuntimeInv'
  <1>1. /\ dispatch[d].pc = "clear" /\ prefs' = Cleared(dispatch[d].prefs)
        /\ Return(d) /\ UNCHANGED <<journal, used>>
    BY DEF ClearRoute, Save
  <1>2. InFlight(d) /\ CopySound(dispatch[d].prefs)
    BY <1>1, DispatchFacts
  <1>3. FromCopy(prefs')
    BY <1>1, <1>2, KinCleared, FromDispatch DEF RuntimeInv
  <1> QED
    BY <1>1, <1>3, Saved

\* A journal that is there may change its phase.
LEMMA PhaseChange ==
  ASSUME RtTypeOK, NEW n \in Ids, journal[n].phase # "none",
         NEW phase \in {"running", "paused", "cancelled", "completed"},
         journal' = [journal EXCEPT ![n].phase = phase]
  PROVE  JournalKept
  <1>1. journal[n] \in [operation: Operations, provider: RouteProviders, selection: Selections,
                        phase: {"running", "paused", "cancelled", "completed"}]
    BY DEF RtTypeOK, Journals, NoJournal
  <1>2. [journal[n] EXCEPT !.phase = phase] \in Journals
    BY <1>1 DEF Journals
  <1>3. journal \in [Ids -> Journals]
    BY DEF RtTypeOK
  <1>4. journal' \in [Ids -> Journals]
    BY <1>2, <1>3
  <1> QED
    BY <1>1, <1>3, <1>4 DEF JournalKept

LEMMA StutterKept == RtTypeOK /\ UNCHANGED journal => JournalKept
  BY JournalFacts DEF RtTypeOK, JournalKept

LEMMA ControlKeeps ==
  ASSUME RuntimeInv, NEW d \in Dispatches, ControlSync(d)
  PROVE  RuntimeInv'
  <1> DEFINE n == Active(dispatch[d].prefs).id
             name == dispatch[d].action.name
             phase == IF name = "cancel" THEN "cancelled" ELSE "paused"
  <1>1. /\ dispatch[d].pc = "route" /\ n # 0 /\ UNCHANGED <<prefs, used>>
        /\ IF journal[n].phase = "none" \/ (name = "pause" /\ journal[n].phase = "cancelled")
           THEN Return(d) /\ UNCHANGED journal
           ELSE /\ journal' = [journal EXCEPT ![n].phase = phase]
                /\ Goto(d, "clear") \/ Return(d)
    BY DEF ControlSync, HasActive
  <1>2. n \in Ids
    BY <1>1, DispatchFacts
  <1>3. JournalKept
    BY <1>1, <1>2, PhaseChange, StutterKept DEF RuntimeInv
  <1>4. Goto(d, "clear") \/ Return(d)
    BY <1>1
  <1> QED
    BY <1>1, <1>3, <1>4, Moved

LEMMA WorkKeeps ==
  ASSUME RuntimeInv, NEW d \in Dispatches, Work(d)
  PROVE  RuntimeInv'
  <1> DEFINE n == Active(dispatch[d].prefs).id
  <1>1. PICK phase \in {journal[n].phase} \cup {"running", "completed"} :
          /\ dispatch[d].pc = "work" /\ UNCHANGED <<prefs, used>>
          /\ journal' = [journal EXCEPT ![n].phase = phase]
          /\ Goto(d, "clear") \/ Return(d)
    BY DEF Work
  <1>2. n \in Ids /\ journal[n].phase # "none"
    BY <1>1 DEF RuntimeInv, WorkSound
  <1>3. phase \in {"running", "paused", "cancelled", "completed"}
    BY <1>2 DEF RuntimeInv, RtTypeOK, Journals, NoJournal
  <1>4. JournalKept
    BY <1>1, <1>2, <1>3, PhaseChange DEF RuntimeInv
  <1> QED
    BY <1>1, <1>4, Moved

LEMMA ContinueKeeps ==
  ASSUME RuntimeInv, NEW d \in Dispatches, Continue(d)
  PROVE  RuntimeInv'
  <1> DEFINE p == dispatch[d].prefs
             n == Active(p).id
  <1>1. /\ dispatch[d].pc = "route" /\ dispatch[d].action.name \in {"resume", "status"}
        /\ HasActive(p) /\ RouteIsKnown(p, dispatch[d].action)
        /\ journal[n].phase # "none" /\ Goto(d, "work") /\ UNCHANGED <<prefs, journal, used>>
    BY DEF Continue
  <1>2. n \in Ids /\ CopySound(p) /\ p.operation \in Operations
    BY <1>1, DispatchFacts DEF HasActive
  <1>3. Active(p).provider # "unknown"
    BY <1>1 DEF RouteIsKnown
  <1>4. p.provider = Active(p).provider
    BY <1>2, <1>3 DEF CopySound, Follows
  <1>5. Active(p).provider = journal[n].provider
    BY <1>1, <1>2, <1>3 DEF CopySound, TrueOf, Active, HasActive
  <1>6. JournalKept
    BY <1>1, StutterKept DEF RuntimeInv
  <1> QED
    BY <1>1, <1>2, <1>4, <1>5, <1>6, Moved

\* Refused, CancelMove, CancelFails and Fails save nothing.
LEMMA ReturnKeeps ==
  ASSUME RuntimeInv, NEW d \in Dispatches, Refused(d) \/ CancelMove(d) \/ CancelFails(d) \/ Fails(d)
  PROVE  RuntimeInv'
  <1>1. /\ dispatch[d].pc # "idle" /\ UNCHANGED <<prefs, journal, used>>
        /\ Goto(d, "clear") \/ Return(d)
    BY DEF Refused, CancelMove, CancelFails, Fails
  <1>2. JournalKept
    BY <1>1, StutterKept DEF RuntimeInv
  <1> QED
    BY <1>1, <1>2, Moved

LEMMA StopKeeps == RuntimeInv /\ RtWorkerStops => RuntimeInv'
  <1> SUFFICES ASSUME RuntimeInv, RtWorkerStops PROVE RuntimeInv'
    OBVIOUS
  <1>1. UNCHANGED <<prefs, journal, used>> /\ dispatch' = [e \in Dispatches |-> Idle]
    BY DEF RtWorkerStops
  <1>2. JournalKept /\ FromCopy(prefs')
    BY <1>1, StutterKept, FromCopies DEF RuntimeInv
  <1> QED
    BY <1>1, <1>2, QuietStep

-------------------------------------------------------------------------------
(* Start and QueueJournal                                                  *)

\* A start saves a route under an id that nothing else names.
LEMMA NewRoute ==
  ASSUME RuntimeInv, used < MaxJournals, NEW p, CopySound(p), NEW s \in Selections,
         NEW q, q = WithRoute(p, used + 1, s),
         NEW r, r = [id |-> used + 1, provider |-> p.provider, selection |-> s]
  PROVE  /\ q \in Preferences /\ q.operation = p.operation /\ q.provider = p.provider
         /\ Active(q) = r /\ TrueOf(q) /\ Follows(q)
         /\ \A o \in Operations : q.route[o] = IF o = p.operation THEN r ELSE p.route[o]
  <1>1. p \in Preferences /\ p.operation \in Operations /\ p.provider \in RouteProviders
    BY RouteFacts, OperationNames DEF CopySound
  <1>2. used + 1 \in Ids /\ used \in Nat
    BY MaxJournalsAssumption DEF RuntimeInv, RtTypeOK, Ids
  <1>3. r \in Routes
    BY <1>1, <1>2 DEF Routes
  <1>4. /\ q \in Preferences /\ q.operation = p.operation /\ q.provider = p.provider
        /\ q.route = [p.route EXCEPT ![p.operation] = r]
    BY <1>1, <1>3 DEF Preferences, WithRoute
  <1>5. \A o \in Operations : q.route[o] = IF o = p.operation THEN r ELSE p.route[o]
    BY <1>1, <1>4 DEF Preferences
  <1>6. Active(q) = r
    BY <1>1, <1>4, <1>5 DEF Active
  <1>7. journal[used + 1] = NoJournal
    BY <1>2 DEF RuntimeInv, UnusedIsNone
  <1>8. TrueOf(q)
    BY <1>5, <1>7 DEF TrueOf, CopySound, NoJournal
  <1>9. Follows(q)
    BY <1>4, <1>6 DEF Follows
  <1> QED
    BY <1>4, <1>5, <1>6, <1>8, <1>9

LEMMA StartKeeps ==
  ASSUME RuntimeInv, NEW d \in Dispatches, Start(d)
  PROVE  RuntimeInv'
  <1> DEFINE p == dispatch[d].prefs
             s == dispatch[d].selection
  <1>0. PICK r, q, x :
          /\ r = [id |-> used + 1, provider |-> p.provider, selection |-> s]
          /\ q = WithRoute(p, used + 1, s)
          /\ x = [dispatch[d] EXCEPT !.pc = "start", !.prefs = q]
    OBVIOUS
  <1>1. /\ dispatch[d].pc = "route" /\ dispatch[d].action.name = "start"
        /\ used < MaxJournals /\ used' = used + 1 /\ prefs' = q /\ UNCHANGED journal
        /\ dispatch' = [dispatch EXCEPT ![d].pc = "start", ![d].prefs = q]
    BY <1>0 DEF Start, Save
  <1>2. /\ InFlight(d) /\ dispatch[d] \in DispatchType /\ CopySound(p) /\ s \in Selections
        /\ p \in Preferences /\ p.operation \in Operations
    BY <1>1, DispatchFacts
  <1>3. used \in Nat /\ used + 1 \in Ids /\ used' \in 0..MaxJournals
    BY <1>1, MaxJournalsAssumption DEF RuntimeInv, RtTypeOK, Ids
  <1>4. /\ q \in Preferences /\ q.operation = p.operation /\ q.provider = p.provider
        /\ Active(q) = r /\ TrueOf(q) /\ Follows(q)
        /\ \A o \in Operations : q.route[o] = IF o = p.operation THEN r ELSE p.route[o]
    BY <1>0, <1>1, <1>2, NewRoute
  <1>5. dispatch \in [Dispatches -> {Idle} \cup DispatchType]
    BY DEF RuntimeInv, RtTypeOK, DispatchType
  <1>6. dispatch' = [dispatch EXCEPT ![d] = x]
    BY <1>0, <1>1, <1>5
  <1>7. x \in DispatchType /\ x.pc = "start" /\ x.prefs = q /\ x.selection = s /\ x.action = dispatch[d].action
    BY <1>0, <1>2, <1>4 DEF DispatchType
  <1>8. /\ dispatch' \in [Dispatches -> {Idle} \cup DispatchType]
        /\ dispatch'[d] = x /\ \A e \in Dispatches : e # d => dispatch'[e] = dispatch[e]
    BY <1>5, <1>6, <1>7
  <1>9. \A e \in Dispatches : InFlight(e)' => dispatch'[e].prefs = q \/ (InFlight(e) /\ dispatch'[e] = dispatch[e])
    BY <1>7, <1>8 DEF InFlight
  \* ids in copies were given out before
  <1>10. \A y \in Preferences : CopySound(y) => \A o \in Operations : y.route[o].id \in Nat /\ y.route[o].id <= used
    BY RouteFacts DEF CopySound
  <1>11. ASSUME NEW y, CopySound(y) PROVE CopySound(y)'
    <2>1. \A o \in Operations : y.route[o].id <= used + 1
      BY <1>3, <1>10, <1>11 DEF CopySound
    <2> QED
      BY <1>1, <1>11, <2>1 DEF CopySound, TrueOf, Follows, Active, Preferences, Routes, NoRoute, Ids, Operations
  <1>12. CopySound(q)'
    <2>1. \A o \in Operations : q.route[o].id <= used + 1
      BY <1>0, <1>2, <1>3, <1>4, <1>10
    <2> QED
      BY <1>1, <1>4, <2>1 DEF CopySound, TrueOf, Follows, Active, Preferences, Routes, NoRoute, Ids, Operations
  <1>13. CopiesSound'
    BY <1>1, <1>9, <1>11, <1>12 DEF RuntimeInv, CopiesSound
  <1>14. RtTypeOK'
    BY <1>1, <1>3, <1>4, <1>8 DEF RuntimeInv, RtTypeOK, DispatchType
  <1>15. SelectionGiven'
    BY <1>1, <1>2, <1>7, <1>8, SelectionsAssumption DEF RuntimeInv, SelectionGiven, InFlight
  <1>16. StartsAlone'
    <2>1. ASSUME NEW y, StartSound(y), Active(y.prefs).id <= used PROVE StartSound(y)'
      <3> DEFINE t == Active(y.prefs)
                 o == y.prefs.operation
      <3>1. /\ t.id \in Ids /\ SameRoute(prefs, o, t)
            /\ \A e \in Dispatches : InFlight(e) => SameRoute(dispatch[e].prefs, o, t)
        BY <2>1 DEF StartSound
      <3>2. SameRoute(q, o, t)
        <4>1. SameRoute(p, o, t) /\ t.id # used + 1
          BY <1>0, <1>2, <1>3, <2>1, <3>1 DEF Ids, RuntimeInv
        <4> QED
          BY <1>0, <1>4, <4>1 DEF SameRoute
      <3>3. \A e \in Dispatches : InFlight(e)' => SameRoute(dispatch'[e].prefs, o, t)
        BY <1>9, <3>1, <3>2
      <3> QED
        BY <1>1, <2>1, <3>2, <3>3 DEF StartSound, SameRoute, Active, Ids
    <2>2. ASSUME NEW e \in Dispatches, InFlight(e) PROVE Active(dispatch[e].prefs).id <= used
      BY <2>2, RouteFacts, OperationNames DEF RuntimeInv, CopiesSound, CopySound, Active
    <2>3. StartSound(x)'
      <3>1. \A y \in Preferences : CopySound(y) => SameRoute(y, p.operation, r)
        BY <1>0, <1>3, <1>10 DEF SameRoute
      <3>2. SameRoute(q, p.operation, r)
        BY <1>0, <1>2, <1>3, <1>4, <1>10 DEF SameRoute
      <3>3. \A e \in Dispatches : InFlight(e)' => SameRoute(dispatch'[e].prefs, p.operation, r)
        BY <1>9, <3>1, <3>2 DEF RuntimeInv, CopiesSound, CopySound
      <3>4. journal'[r.id] = NoJournal
        BY <1>0, <1>1, <1>3 DEF RuntimeInv, UnusedIsNone, Ids
      <3>5. /\ Active(x.prefs) = r /\ x.prefs.operation = p.operation /\ r.id \in Ids
            /\ r.provider = x.prefs.provider /\ r.selection = x.selection /\ x.selection \in Selections
        BY <1>0, <1>2, <1>3, <1>4, <1>7
      <3>6. SameRoute(prefs', p.operation, r)
        BY <1>1, <3>2
      <3> QED
        BY <3>3, <3>4, <3>5, <3>6 DEF StartSound, SameRoute, Active, Ids
    <2>4. \A e \in Dispatches : e # d /\ Starting(e)' => InFlight(e) /\ Starting(e) /\ dispatch'[e] = dispatch[e]
      BY <1>8 DEF Starting, InFlight, Idle
    <2>5. \A e \in Dispatches : (Starting(e) => StartSound(dispatch[e]))'
      BY <1>8, <2>1, <2>2, <2>3, <2>4 DEF RuntimeInv, StartsAlone
    <2>6. \A e, f \in Dispatches :
            e # f /\ Starting(e)' /\ Starting(f)' => Active(dispatch'[e].prefs).id # Active(dispatch'[f].prefs).id
      <3> SUFFICES ASSUME NEW e \in Dispatches, NEW f \in Dispatches, e # f, Starting(e)', Starting(f)'
                   PROVE  Active(dispatch'[e].prefs).id # Active(dispatch'[f].prefs).id
        OBVIOUS
      <3>1. Active(dispatch'[d].prefs).id = used + 1
        BY <1>0, <1>4, <1>7, <1>8
      <3>2. ASSUME NEW g \in Dispatches, g # d, Starting(g)' PROVE Active(dispatch'[g].prefs).id # used + 1
        <4>1. InFlight(g) /\ dispatch'[g] = dispatch[g]
          BY <2>4, <3>2
        <4>2. Active(dispatch[g].prefs).id \in Nat /\ Active(dispatch[g].prefs).id <= used
          BY <2>2, <4>1, RouteFacts, OperationNames DEF RuntimeInv, CopiesSound, CopySound, Active
        <4> QED
          BY <1>3, <4>1, <4>2
      <3>3. CASE e = d \/ f = d
        BY <3>1, <3>2, <3>3
      <3>4. CASE e # d /\ f # d
        BY <2>4, <3>4 DEF RuntimeInv, StartsAlone
      <3> QED
        BY <3>3, <3>4
    <2> QED
      BY <2>5, <2>6 DEF StartsAlone, Active
  <1>17. WorkSound'
    BY <1>1, <1>7, <1>8 DEF RuntimeInv, WorkSound, Active, Ids
  <1>18. UnusedIsNone'
    BY <1>1, <1>3 DEF RuntimeInv, UnusedIsNone, NoJournal, Ids
  <1> QED
    BY <1>13, <1>14, <1>15, <1>16, <1>17, <1>18 DEF RuntimeInv
\* A start queues its journal: every copy that names it has the start's own route.
LEMMA QueueKeeps ==
  ASSUME RuntimeInv, NEW d \in Dispatches, QueueJournal(d)
  PROVE  RuntimeInv'
  <1>0. PICK p, r, n, j :
          /\ p = dispatch[d].prefs /\ r = Active(p) /\ n = r.id
          /\ j = [operation |-> p.operation, provider |-> p.provider,
                  selection |-> dispatch[d].selection, phase |-> "running"]
    OBVIOUS
  <1>1. /\ Starting(d) /\ dispatch[d].pc = "start" /\ journal' = [journal EXCEPT ![n] = j]
        /\ Return(d) /\ UNCHANGED <<prefs, used>>
    BY <1>0 DEF QueueJournal, Starting
  <1>2. /\ InFlight(d) /\ CopySound(p) /\ p \in Preferences /\ p.operation \in Operations
        /\ p.provider \in RouteProviders /\ p.provider # "unknown"
    BY <1>0, <1>1, DispatchFacts, RouteFacts
  <1>3. /\ n \in Ids /\ r.provider = p.provider /\ r.selection = dispatch[d].selection
        /\ dispatch[d].selection \in Selections /\ journal[n] = NoJournal
        /\ SameRoute(prefs, p.operation, r)
        /\ \A e \in Dispatches : InFlight(e) => SameRoute(dispatch[e].prefs, p.operation, r)
    BY <1>0, <1>1 DEF RuntimeInv, StartsAlone, StartSound
  <1>4. n <= used
    BY <1>0, <1>2 DEF CopySound, Active
  <1>5. journal \in [Ids -> Journals] /\ j \in Journals /\ j.phase = "running"
    BY <1>0, <1>2, <1>3 DEF RuntimeInv, RtTypeOK, Journals
  <1>6. /\ journal' \in [Ids -> Journals] /\ journal'[n] = j
        /\ \A m \in Ids : m # n => journal'[m] = journal[m]
    BY <1>1, <1>3, <1>5
  <1>7. /\ dispatch \in [Dispatches -> {Idle} \cup DispatchType]
        /\ dispatch' \in [Dispatches -> {Idle} \cup DispatchType]
        /\ dispatch'[d] = Idle /\ \A e \in Dispatches : e # d => dispatch'[e] = dispatch[e]
    BY <1>1 DEF Return, RuntimeInv, RtTypeOK, DispatchType
  <1>8. ASSUME NEW y, CopySound(y), SameRoute(y, p.operation, r) PROVE CopySound(y)'
    <2>1. ASSUME NEW o \in Operations, y.route[o].id # 0, journal'[y.route[o].id].phase # "none"
          PROVE  /\ journal'[y.route[o].id].operation = o
                 /\ journal'[y.route[o].id].selection = y.route[o].selection
                 /\ y.route[o].provider \in {journal'[y.route[o].id].provider, "unknown"}
      <3>1. y.route[o].id \in Ids
        BY <1>8, <2>1, RouteFacts DEF CopySound
      <3>2. CASE y.route[o].id = n
        BY <1>0, <1>3, <1>6, <1>8, <2>1, <3>2 DEF SameRoute
      <3>3. CASE y.route[o].id # n
        BY <1>6, <1>8, <2>1, <3>1, <3>3 DEF CopySound, TrueOf
      <3> QED
        BY <3>2, <3>3
    <2>2. TrueOf(y)'
      BY <2>1 DEF TrueOf, Operations
    <2> QED
      BY <1>1, <1>8, <2>2 DEF CopySound, Follows, Active, Preferences, Routes, NoRoute, Ids, Operations
  <1>9. CopiesSound'
    BY <1>1, <1>3, <1>7, <1>8 DEF RuntimeInv, CopiesSound, InFlight
  <1>10. RtTypeOK'
    BY <1>1, <1>6, <1>7 DEF RuntimeInv, RtTypeOK, DispatchType
  <1>11. SelectionGiven'
    BY <1>7 DEF RuntimeInv, SelectionGiven, InFlight
  <1>12. \A e \in Dispatches : InFlight(e)' => e # d /\ InFlight(e) /\ dispatch'[e] = dispatch[e]
    BY <1>7 DEF InFlight
  <1>13. \A e \in Dispatches : Starting(e)' => e # d /\ Starting(e) /\ dispatch'[e] = dispatch[e]
    BY <1>7 DEF Starting, Idle
  <1>14. StartsAlone'
    <2>1. ASSUME NEW y, StartSound(y), Active(y.prefs).id # n PROVE StartSound(y)'
      <3>1. /\ Active(y.prefs).id \in Ids /\ journal[Active(y.prefs).id] = NoJournal
            /\ SameRoute(prefs, y.prefs.operation, Active(y.prefs))
            /\ \A e \in Dispatches : InFlight(e) => SameRoute(dispatch[e].prefs, y.prefs.operation, Active(y.prefs))
        BY <2>1 DEF StartSound
      <3>2. journal'[Active(y.prefs).id] = NoJournal
        BY <1>6, <2>1, <3>1
      <3>3. \A e \in Dispatches :
              InFlight(e)' => SameRoute(dispatch'[e].prefs, y.prefs.operation, Active(y.prefs))
        BY <1>12, <3>1
      <3> QED
        BY <1>1, <2>1, <3>2, <3>3 DEF StartSound, SameRoute, Active, Ids
    <2>2. \A e \in Dispatches : (Starting(e) => StartSound(dispatch[e]))'
      <3>1. \A e \in Dispatches :
              Starting(e)' => StartSound(dispatch[e]) /\ Active(dispatch[e].prefs).id # n
        BY <1>0, <1>1, <1>13 DEF RuntimeInv, StartsAlone
      <3> QED
        BY <1>13, <2>1, <3>1
    <2>3. \A e, f \in Dispatches : e # f /\ Starting(e)' /\ Starting(f)'
            => Active(dispatch'[e].prefs).id # Active(dispatch'[f].prefs).id
      BY <1>13 DEF RuntimeInv, StartsAlone
    <2> QED
      BY <2>2, <2>3 DEF StartsAlone, Active
  <1>15. WorkSound'
    <2> SUFFICES ASSUME NEW e \in Dispatches, dispatch'[e].pc = "work"
                 PROVE  LET m == Active(dispatch'[e].prefs).id
                        IN m \in Ids /\ journal'[m].phase # "none" /\ journal'[m].provider = dispatch'[e].prefs.provider
      BY DEF WorkSound, Ids, Active
    <2>1. dispatch'[e] = dispatch[e]
      BY <1>7 DEF Idle
    <2>2. LET m == Active(dispatch[e].prefs).id
          IN m \in Ids /\ journal[m].phase # "none" /\ journal[m].provider = dispatch[e].prefs.provider
      BY <2>1 DEF RuntimeInv, WorkSound
    <2> QED
      BY <1>3, <1>6, <2>1, <2>2 DEF NoJournal
  <1>16. UnusedIsNone'
    BY <1>1, <1>4, <1>6, MaxJournalsAssumption DEF RuntimeInv, RtTypeOK, UnusedIsNone, NoJournal, Ids
  <1> QED
    BY <1>9, <1>10, <1>11, <1>14, <1>15, <1>16 DEF RuntimeInv

-------------------------------------------------------------------------------
(* The theorems                                                            *)

LEMMA RuntimeInitially == RtInit => RuntimeInv
  <1> SUFFICES ASSUME RtInit PROVE RuntimeInv
    OBVIOUS
  <1>1. dispatch = [d \in Dispatches |-> Idle] /\ \A d \in Dispatches : ~InFlight(d) /\ dispatch[d].pc = "idle"
    BY DEF RtInit, InFlight, Idle
  <1>2. SelectionGiven /\ StartsAlone /\ WorkSound
    BY <1>1 DEF SelectionGiven, StartsAlone, WorkSound, Starting
  <1>3. CASE /\ used = 0 /\ journal = [n \in Ids |-> NoJournal]
             /\ \E p \in RouteProviders :
                  prefs = [provider |-> p, operation |-> "move", route |-> [o \in Operations |-> NoRoute]]
    <2>1. prefs \in Preferences /\ \A o \in Operations : prefs.route[o] = NoRoute
      BY <1>3 DEF Preferences, Operations
    <2>2. CopySound(prefs)
      BY <1>3, <2>1, OperationNames DEF CopySound, TrueOf, Follows, Active, NoRoute, Preferences
    <2> QED
      BY <1>1, <1>2, <1>3, <2>1, <2>2, MaxJournalsAssumption
      DEF RuntimeInv, RtTypeOK, CopiesSound, UnusedIsNone, Journals
  <1>4. ASSUME NEW p \in RouteProviders, NEW q \in RouteProviders, NEW o \in Operations, NEW s \in Selections,
               MaxJournals > 0, used = 1,
               journal = [n \in Ids |->
                 IF n = 1 THEN [operation |-> o, provider |-> q, selection |-> s, phase |-> "running"]
                 ELSE NoJournal],
               prefs = [provider |-> p, operation |-> o,
                        route |-> [x \in Operations |->
                          IF x = o THEN [id |-> 1, provider |-> "unknown", selection |-> s] ELSE NoRoute]]
        PROVE  RuntimeInv
    <2>1. 1 \in Ids /\ used \in 0..MaxJournals
      BY <1>4, MaxJournalsAssumption DEF Ids
    <2>2. [id |-> 1, provider |-> "unknown", selection |-> s] \in Routes
      BY <2>1 DEF Routes
    <2>3. prefs \in Preferences
      BY <1>4, <2>2 DEF Preferences
    <2>4. /\ prefs.operation = o /\ prefs.route[o] = [id |-> 1, provider |-> "unknown", selection |-> s]
          /\ \A x \in Operations : x # o => prefs.route[x] = NoRoute
      BY <1>4
    <2>5. journal[1] = [operation |-> o, provider |-> q, selection |-> s, phase |-> "running"]
      BY <1>4, <2>1
    <2>6. journal \in [Ids -> Journals]
      BY <1>4 DEF Journals
    <2>7. TrueOf(prefs)
      BY <2>4, <2>5 DEF TrueOf, NoRoute
    <2>8. CopySound(prefs)
      BY <1>4, <2>3, <2>4, <2>7 DEF CopySound, Follows, Active, NoRoute
    <2>9. UnusedIsNone
      BY <1>4 DEF UnusedIsNone, Ids
    <2> QED
      BY <1>1, <1>2, <2>1, <2>3, <2>6, <2>8, <2>9 DEF RuntimeInv, RtTypeOK, CopiesSound
  <1> QED
    BY <1>3, <1>4 DEF RtInit

LEMMA RuntimeStutters == RuntimeInv /\ UNCHANGED rtVars => RuntimeInv'
  <1> SUFFICES ASSUME RuntimeInv, UNCHANGED rtVars PROVE RuntimeInv'
    OBVIOUS
  <1>1. JournalKept /\ FromCopy(prefs')
    BY StutterKept, FromCopies DEF RuntimeInv, rtVars
  <1>2. dispatch \in [Dispatches -> {Idle} \cup DispatchType]
    BY DEF RuntimeInv, RtTypeOK, DispatchType
  <1> QED
    BY <1>1, <1>2, QuietStep DEF rtVars

LEMMA RuntimeNext == RuntimeInv /\ [RtNext]_rtVars => RuntimeInv'
  <1> SUFFICES ASSUME RuntimeInv, [RtNext]_rtVars PROVE RuntimeInv'
    OBVIOUS
  <1>1. ASSUME NEW d \in Dispatches, RtStep(d) PROVE RuntimeInv'
    BY <1>1, RecoverKeeps, SelectKeeps, OperationKeeps, ControlKeeps, ClearKeeps, StartKeeps, QueueKeeps,
       ContinueKeeps, WorkKeeps, ReturnKeeps DEF RtStep
  <1>2. CASE UNCHANGED rtVars
    BY <1>2, RuntimeStutters
  <1> QED
    BY <1>1, <1>2, DispatchKeeps, StopKeeps DEF RtNext

\* The invariant holds, whatever the number of tabs, selections, providers and journals.
THEOREM RuntimeInvariance == RtSpec => []RuntimeInv
  <1>1. RtInit => RuntimeInv
    BY RuntimeInitially
  <1>2. RuntimeInv /\ [RtNext]_rtVars => RuntimeInv'
    BY RuntimeNext
  <1> QED
    BY <1>1, <1>2, PTL DEF RtSpec

\* The preferences, the journals and the dispatches keep their types.
THEOREM RuntimeTypeCorrect == RtSpec => []RtTypeOK
  <1>1. RuntimeInv => RtTypeOK
    BY DEF RuntimeInv
  <1> QED
    BY <1>1, RuntimeInvariance, PTL

\* However dispatches overlap and overwrite each other's preferences, a route never
\* names a journal of another operation, another selection or another provider.
THEOREM RoutesStayTrue == RtSpec => []RoutesAreTrue
  <1>1. RuntimeInv => RoutesAreTrue
    BY DEF RuntimeInv, CopiesSound, CopySound, RoutesAreTrue, InFlight
  <1> QED
    BY <1>1, RuntimeInvariance, PTL

\* A journal is continued through the provider it was started with.
THEOREM WorkIsWithOwnProvider == RtSpec => []WorkKeepsProvider
  <1>1. RuntimeInv => WorkKeepsProvider
    BY DEF RuntimeInv, WorkSound, WorkKeepsProvider
  <1> QED
    BY <1>1, RuntimeInvariance, PTL

-------------------------------------------------------------------------------
(* The key session                                                         *)

IsGet(i) == ops[i].op = "get"

\* The record once the first n storage operations are done, none failing, is r.
After(n, r) ==
  \/ r = record /\ \A i \in 1..n : IsGet(i)
  \/ \E i \in 1..n :
       /\ ~IsGet(i) /\ \A j \in (i + 1)..n : IsGet(j)
       /\ r = IF ops[i].op = "set" THEN ops[i].record ELSE NoRecord

Final(r) == After(Len(ops), r)

\* r is the record, or may be once the first n storage operations are done or fail.
HeldBefore(n, r) == r = record \/ \E i \in 1..n : ops[i].op = "set" /\ r = ops[i].record

\* A read that a call of this worker awaits.
IsRead(i) == IsGet(i) /\ ops[i].by \in KeyCalls

\* What the restore of the call c will read, and what it has read or will read.
Reading(c, r) == \E i \in DOMAIN ops : IsGet(i) /\ ops[i].by = c /\ After(i - 1, r)
WillFind(c, r) ==
  \/ keyCall[c].pc = "restore" /\ r = keyCall[c].found
  \/ Reading(c, r)

\* A restore that awaits the storage, or may come to, can read whatever is held.
Restoring == \E c \in KeyCalls : keyCall[c].pc = "trust"
Candidate(r) ==
  /\ IsUsable(r)
  /\ \/ \E c \in KeyCalls : keyCall[c].pc = "restore" /\ r = keyCall[c].found
     \/ \E i \in DOMAIN ops : IsRead(i) /\ HeldBefore(i - 1, r)
     \/ (trusted = "pending" \/ Restoring) /\ HeldBefore(Len(ops), r)

Importing == \E c \in KeyCalls : keyCall[c].pc = "import"
LastWaiter == waiters[Len(waiters)]
LastWrites(s) ==
  /\ waiters # <<>> /\ keyCall[LastWaiter].pc = "persist"
  /\ keyCall[LastWaiter].snapshot.activity >= s.activity

-------------------------------------------------------------------------------
\* The calls that await the storage's answer are the waiters, each once, restores first.
WaitersWait ==
  /\ \A i, j \in DOMAIN waiters : waiters[i] = waiters[j] => i = j
  /\ \A i \in DOMAIN waiters : keyCall[waiters[i]].pc \in {"trust", "persist"}
  /\ \A c \in KeyCalls : keyCall[c].pc \in {"trust", "persist"} => \E i \in DOMAIN waiters : waiters[i] = c
  /\ \A i, j \in DOMAIN waiters :
       keyCall[waiters[i]].pc = "persist" /\ i < j => keyCall[waiters[j]].pc = "persist"

\* A read under way is of a call that awaits it, and of one only.
ReadersRead ==
  /\ \A i \in DOMAIN ops : IsRead(i) => keyCall[ops[i].by].pc = "get"
  /\ \A i, j \in DOMAIN ops : IsRead(i) /\ IsRead(j) /\ ops[i].by = ops[j].by => i = j

\* A session, a restore past its wait, and a snapshot are of a worker that attempted.
WorkerAttempted ==
  /\ session # Locked => attempted
  /\ \A c \in KeyCalls :
       /\ keyCall[c].pc \in {"get", "restore", "persist"} => attempted
       /\ keyCall[c].pc \in {"get", "restore"} => trusted # "pending"

\* No activity is of the future.
ActivitiesPassed ==
  /\ session.activity <= clock /\ record.activity <= clock
  /\ \A i \in DOMAIN ops : ops[i].op = "set" => ops[i].record.activity <= clock
  /\ \A c \in KeyCalls :
       /\ keyCall[c].pc = "persist" => keyCall[c].snapshot.activity <= clock
       /\ keyCall[c].pc = "restore" => keyCall[c].found.activity <= clock

DistrustErases == trusted = "no" => \A r \in Records : Final(r) => ~IsUsable(r)
KeyIsOfSession == rawKey # "none" => session # Locked \/ Importing
DroppedKeyErases ==
  rawKey = "none" /\ (session # Locked \/ Importing) => \A r \in Records : Final(r) => ~IsUsable(r)

\* A usable record beside a locked session is about to be replaced or restored.
LockErases ==
  attempted /\ session = Locked /\ (\E r \in Records : Final(r) /\ IsUsable(r)) =>
    Importing \/ \E c \in KeyCalls, q \in Records : WillFind(c, q) /\ IsUsable(q)

OpenWrites ==
  session # Locked /\ ~Importing /\ rawKey # "none" /\ trusted # "no"
    /\ (trusted = "pending" \/ waiters # <<>>)
  => LastWrites(session)

OpenIsRecorded ==
  session # Locked /\ ~Importing =>
    \A r \in Records : Final(r) /\ IsUsable(r) =>
      LastWrites(session) \/ r.activity >= session.activity

\* The reads under way are next to each other, so that all restores find the same.
ReadsAreTogether ==
  /\ \A i, j \in DOMAIN ops : IsRead(i) /\ IsRead(j) => \A k \in i..j : IsGet(k)
  /\ \A c \in KeyCalls, j \in DOMAIN ops :
       keyCall[c].pc = "restore" /\ IsRead(j) => \A k \in 1..j : IsGet(k)
  /\ \A i \in DOMAIN ops : Restoring /\ IsRead(i) => \A k \in i..Len(ops) : IsGet(k)
  /\ \A c \in KeyCalls : Restoring => keyCall[c].pc # "restore"

RestoresAgree ==
  \A c, d \in KeyCalls : \A q, r \in Records \cup {NoRecord} :
    WillFind(c, q) /\ WillFind(d, r) => q = r

\* What a restore may bring back is no later than what is there.
CandidatesAreFloor ==
  \A q \in Records : Candidate(q) =>
    /\ session # Locked => session.activity >= q.activity
    /\ \A c \in KeyCalls : keyCall[c].pc = "persist" => keyCall[c].snapshot.activity >= q.activity

FinalIsLatest ==
  \A c \in KeyCalls : \A q, r \in Records :
    WillFind(c, q) /\ IsUsable(q) /\ Final(r) /\ IsUsable(r) => r.activity >= q.activity

KsSound ==
  /\ WaitersWait /\ ReadersRead /\ WorkerAttempted /\ ActivitiesPassed
  /\ DistrustErases /\ KeyIsOfSession /\ DroppedKeyErases /\ LockErases
  /\ OpenWrites /\ OpenIsRecorded
  /\ ReadsAreTogether /\ RestoresAgree /\ CandidatesAreFloor /\ FinalIsLatest

KsInv == KsTypeOK /\ KsSound
-------------------------------------------------------------------------------
(* Types                                                                   *)

LEMMA CallTyped ==
  ASSUME KsTypeOK, NEW c \in KeyCalls
  PROVE  /\ keyCall[c].pc \in {"idle", "trust", "get", "export", "import", "restore", "persist"}
         /\ keyCall[c].pc = "idle" => keyCall[c] = Rest
         /\ keyCall[c].pc \in {"trust", "get", "restore"} => keyCall[c].request \in Requests
         /\ keyCall[c].pc \in {"export", "import"} => keyCall[c].request \in Unlocks
         /\ keyCall[c].pc = "restore" => keyCall[c].found \in Records \cup {NoRecord}
         /\ keyCall[c].pc = "persist" => keyCall[c].snapshot \in Sessions
  BY DEF KsTypeOK, CallStates, Rest

LEMMA OpTyped ==
  ASSUME KsTypeOK, NEW i \in DOMAIN ops
  PROVE  /\ ops[i] \in StorageOps
         /\ ops[i].op \in {"set", "remove", "get"}
         /\ ops[i].op = "set" => ops[i].record \in Records
         /\ ops[i].op = "get" => ops[i].by \in KeyCalls \cup {"nobody"}
  BY DEF KsTypeOK, StorageOps

\* What a call does when it goes on, or persists, in the types of the state.
LEMMA PersistTyped ==
  ASSUME KsTypeOK, NEW c \in KeyCalls, NEW s \in Sessions, NEW raw \in Keys \cup {"none"},
         Persist(c, s, raw)
  PROVE  /\ waiters' \in Seq(KeyCalls) /\ ops' \in Seq(StorageOps)
         /\ keyCall' \in [KeyCalls -> CallStates]
         /\ beforeLock' \subseteq KeyCalls
  <1>1. raw # "none" => [op |-> "set", record |-> RecordOf(s, raw)] \in StorageOps
    BY DEF StorageOps, RecordOf, Sessions, Records
  <1>2. [pc |-> "persist", snapshot |-> s] \in CallStates /\ Rest \in CallStates
    BY DEF CallStates
  <1>3. CASE EndKeyCall(c) /\ UNCHANGED <<waiters, ops>>
    BY <1>2, <1>3 DEF KsTypeOK, EndKeyCall, At
  <1>4. CASE /\ Issue([op |-> "set", record |-> RecordOf(s, raw)]) /\ raw # "none"
             /\ EndKeyCall(c) /\ UNCHANGED waiters
    BY <1>1, <1>2, <1>4 DEF KsTypeOK, EndKeyCall, At, Issue
  <1>5. CASE /\ waiters' = Append(waiters, c) /\ At(c, [pc |-> "persist", snapshot |-> s])
             /\ UNCHANGED <<ops, beforeLock>>
    BY <1>2, <1>5 DEF KsTypeOK, At
  <1> QED BY <1>3, <1>4, <1>5 DEF Persist

LEMMA RestTyped == Rest \in CallStates /\ Removing \in StorageOps
  BY DEF CallStates, StorageOps, Removing

LEMMA ChangedTyped ==
  ASSUME KsTypeOK, NEW s \in Sessions, NEW request \in Requests, request.name \in {"activity", "timeout"}
  PROVE  (IF request.name = "activity" THEN [s EXCEPT !.activity = clock]
                                       ELSE [s EXCEPT !.timeout = request.timeout]) \in Sessions
  BY DEF KsTypeOK, Sessions, Requests

LEMMA ProceedTyped ==
  ASSUME KsTypeOK, NEW c \in KeyCalls, NEW s \in Sessions, NEW raw \in Keys \cup {"none"},
         NEW request \in Requests, Proceed(c, request, s, raw), UNCHANGED <<trusted, record, clock, failures>>
  PROVE  KsTypeOK'
  <1> DEFINE changed == IF request.name = "activity" THEN [s EXCEPT !.activity = clock]
                                                     ELSE [s EXCEPT !.timeout = request.timeout]
  <1>1. CASE /\ request.name = "use" /\ session' = s /\ rawKey' = raw
             /\ EndKeyCall(c) /\ UNCHANGED <<attempted, waiters, ops>>
    BY <1>1, RestTyped DEF KsTypeOK, EndKeyCall, At
  <1>2. CASE /\ request.name \in {"activity", "timeout"}
             /\ session' = changed /\ rawKey' = raw
             /\ Persist(c, changed, raw) /\ UNCHANGED attempted
    <2>1. changed \in Sessions
      BY <1>2, ChangedTyped
    <2> HIDE DEF changed
    <2> QED BY <1>2, <2>1, PersistTyped DEF KsTypeOK
  <1>3. CASE /\ session' = Locked /\ rawKey' = "none" /\ attempted' = TRUE
             /\ Issue(Removing) /\ EndKeyCall(c) /\ UNCHANGED waiters
    BY <1>3, RestTyped DEF KsTypeOK, EndKeyCall, At, Issue
  <1> QED BY <1>1, <1>2, <1>3 DEF Proceed

LEMMA CallSteps ==
  ASSUME KsTypeOK, NEW c \in KeyCalls, NEW request \in Requests, Call(c, request)
  PROVE  KsTypeOK'
  <1> USE DEF Call
  <1>1. CASE session # Locked /\ Proceed(c, request, session, rawKey)
    <2>1. session \in Sessions /\ rawKey \in Keys \cup {"none"}
      BY <1>1 DEF KsTypeOK
    <2> QED BY <1>1, <2>1, ProceedTyped
  <1>2. CASE EndKeyCall(c) /\ UNCHANGED <<session, rawKey, attempted, waiters, ops>>
    BY <1>2, RestTyped DEF KsTypeOK, EndKeyCall, At
  <1>3. CASE /\ At(c, [pc |-> "trust", request |-> request]) /\ waiters' = Append(waiters, c)
             /\ UNCHANGED <<session, rawKey, attempted, ops, beforeLock>>
    <2>1. [pc |-> "trust", request |-> request] \in CallStates
      BY DEF CallStates
    <2> QED BY <1>3, <2>1 DEF KsTypeOK, At
  <1> QED BY <1>1, <1>2, <1>3

LEMMA TrustSteps ==
  ASSUME KsTypeOK, NEW c \in KeyCalls, RestoreTrusted(c) \/ PersistTrusted(c)
  PROVE  KsTypeOK'
  <1>0. waiters # <<>> => Tail(waiters) \in Seq(KeyCalls)
    BY DEF KsTypeOK
  <1>1. CASE RestoreTrusted(c)
    <2>1. [pc |-> "get", request |-> keyCall[c].request] \in CallStates
      BY <1>1, CallTyped DEF RestoreTrusted, CallStates
    <2>2. [op |-> "get", by |-> c] \in StorageOps
      BY DEF StorageOps
    <2>3. CASE trusted = "yes"
      <3>1. /\ keyCall' = [keyCall EXCEPT ![c] = [pc |-> "get", request |-> keyCall[c].request]]
            /\ ops' = Append(ops, [op |-> "get", by |-> c])
            /\ attempted' = TRUE /\ waiters' = Tail(waiters)
            /\ UNCHANGED <<beforeLock, session, rawKey, trusted, record, clock, failures>>
        BY <1>1, <2>3 DEF RestoreTrusted, At, Issue
      <3> QED BY <1>0, <1>1, <2>1, <2>2, <3>1 DEF RestoreTrusted, KsTypeOK
    <2>4. CASE trusted = "no"
      <3>1. /\ keyCall' = [keyCall EXCEPT ![c] = Rest] /\ beforeLock' = beforeLock \ {c}
            /\ attempted' = TRUE /\ waiters' = Tail(waiters)
            /\ UNCHANGED <<ops, session, rawKey, trusted, record, clock, failures>>
        BY <1>1, <2>4 DEF RestoreTrusted, At, EndKeyCall
      <3> QED BY <1>0, <1>1, <3>1, RestTyped DEF RestoreTrusted, KsTypeOK
    <2> QED BY <1>1, <2>3, <2>4 DEF RestoreTrusted
  <1>2. CASE PersistTrusted(c)
    <2>1. RecordOf(keyCall[c].snapshot, rawKey) \in Records
      BY <1>2, CallTyped DEF PersistTrusted, RecordOf, Sessions, Records, KsTypeOK
    <2>2. [op |-> "set", record |-> RecordOf(keyCall[c].snapshot, rawKey)] \in StorageOps
      BY <2>1 DEF StorageOps
    <2>3. CASE trusted = "yes"
      <3>1. /\ keyCall' = [keyCall EXCEPT ![c] = Rest] /\ beforeLock' = beforeLock \ {c}
            /\ ops' = Append(ops, [op |-> "set", record |-> RecordOf(keyCall[c].snapshot, rawKey)])
            /\ waiters' = Tail(waiters)
            /\ UNCHANGED <<session, rawKey, attempted, trusted, record, clock, failures>>
        BY <1>2, <2>3 DEF PersistTrusted, At, EndKeyCall, Issue
      <3> QED BY <1>0, <1>2, <2>2, <3>1, RestTyped DEF PersistTrusted, KsTypeOK
    <2>4. CASE trusted # "yes"
      BY <1>0, <1>2, <2>4, RestTyped DEF PersistTrusted, KsTypeOK, At, EndKeyCall
    <2> QED BY <2>3, <2>4
  <1> QED BY <1>1, <1>2

LEMMA SettlesSteps ==
  ASSUME KsTypeOK, TrustSettles
  PROVE  KsTypeOK'
  <1>1. CASE trusted' = "yes" /\ UNCHANGED <<ops, failures>>
    BY <1>1 DEF TrustSettles, KsTypeOK
  <1>2. CASE failures < MaxFailures /\ failures' = failures + 1 /\ trusted' = "no" /\ Issue(Removing)
    BY <1>2, RestTyped, KeyBoundsAssumption DEF TrustSettles, KsTypeOK, Issue
  <1> QED BY <1>1, <1>2 DEF TrustSettles

LEMMA StorageSteps ==
  ASSUME KsTypeOK, ReadersRead, StorageDone \/ StorageFails
  PROVE  KsTypeOK'
  <1>1. CASE StorageDone
    <2> DEFINE op == Head(ops)
               restore == [pc |-> "restore", request |-> keyCall[op.by].request, found |-> record]
    <2>1. op \in StorageOps /\ Tail(ops) \in Seq(StorageOps) /\ op = ops[1] /\ 1 \in DOMAIN ops
      BY <1>1 DEF StorageDone, KsTypeOK
    <2>2. record' \in Records \cup {NoRecord}
      BY <1>1, <2>1, OpTyped DEF StorageDone, KsTypeOK
    <2>3. keyCall' \in [KeyCalls -> CallStates]
      <3>1. CASE op.op = "get" /\ op.by \in KeyCalls
        <4>1. restore \in CallStates
          <5>1. keyCall[op.by].pc = "get"
            BY <2>1, <3>1 DEF ReadersRead, IsRead, IsGet
          <5>2. keyCall[op.by].request \in Requests /\ record \in Records \cup {NoRecord}
            BY <3>1, <5>1, CallTyped DEF KsTypeOK
          <5> QED BY <5>2 DEF CallStates
        <4>2. keyCall' = [keyCall EXCEPT ![op.by] = restore]
          BY <1>1, <3>1 DEF StorageDone, At
        <4> HIDE DEF restore, op
        <4> QED BY <4>1, <4>2 DEF KsTypeOK
      <3>2. CASE ~(op.op = "get" /\ op.by \in KeyCalls)
        BY <1>1, <3>2 DEF StorageDone, KsTypeOK
      <3> QED BY <3>1, <3>2
    <2> QED BY <1>1, <2>1, <2>2, <2>3 DEF StorageDone, KsTypeOK
  <1>2. CASE StorageFails
    BY <1>2, RestTyped, KeyBoundsAssumption DEF StorageFails, KsTypeOK
  <1> QED BY <1>1, <1>2

LEMMA OpeningSteps ==
  ASSUME KsTypeOK, NEW c \in KeyCalls,
         (\E request \in Unlocks : Unlock(c, request)) \/ Exported(c) \/ Unlocked(c) \/ Restored(c)
  PROVE  KsTypeOK'
  <1>1. ASSUME NEW request \in Unlocks, Unlock(c, request) PROVE KsTypeOK'
    <2>1. [pc |-> "export", request |-> request] \in CallStates
      BY DEF CallStates
    <2> QED BY <1>1, <2>1 DEF Unlock, KsTypeOK, At
  <1>2. CASE Exported(c)
    <2>1. [pc |-> "import", request |-> keyCall[c].request] \in CallStates
      BY <1>2, CallTyped DEF Exported, CallStates
    <2>2. keyCall[c].request.key \in Keys
      BY <1>2, CallTyped DEF Exported, Unlocks
    <2> QED BY <1>2, <2>1, <2>2 DEF Exported, KsTypeOK, At
  <1>3. CASE Unlocked(c)
    <2> DEFINE s == [key |-> keyCall[c].request.key, activity |-> clock, timeout |-> keyCall[c].request.timeout]
    <2>1. s \in Sessions
      BY <1>3, CallTyped DEF Unlocked, Unlocks, Sessions, KsTypeOK
    <2>2. /\ Persist(c, s, rawKey) /\ session' = s /\ attempted' = TRUE
          /\ UNCHANGED <<rawKey, trusted, record, clock, failures>>
      BY <1>3 DEF Unlocked
    <2> HIDE DEF s
    <2>3. rawKey \in Keys \cup {"none"}
      BY DEF KsTypeOK
    <2> QED BY <2>1, <2>2, <2>3, PersistTyped DEF KsTypeOK
  <1>4. CASE Restored(c)
    <2> DEFINE found == keyCall[c].found
    <2>1. found \in Records \cup {NoRecord} /\ keyCall[c].request \in Requests
      BY <1>4, CallTyped DEF Restored
    <2>2. CASE found # NoRecord /\ IsUsable(found) /\ Proceed(c, keyCall[c].request, SessionOf(found), found.raw)
      <3>1. SessionOf(found) \in Sessions /\ found.raw \in Keys \cup {"none"}
        BY <2>1, <2>2 DEF SessionOf, Records, Sessions
      <3> QED BY <1>4, <2>1, <2>2, <3>1, ProceedTyped DEF Restored
    <2>3. CASE /\ EndKeyCall(c) /\ waiters' = waiters /\ attempted' = attempted
               /\ session' \in {session, Locked} /\ rawKey' \in {rawKey, "none"}
               /\ UNCHANGED ops \/ Issue(Removing)
      <3>1. keyCall' \in [KeyCalls -> CallStates] /\ beforeLock' \subseteq KeyCalls
        BY <2>3, RestTyped DEF EndKeyCall, At, KsTypeOK
      <3>2. ops' \in Seq(StorageOps)
        BY <2>3, RestTyped DEF Issue, KsTypeOK
      <3> QED BY <1>4, <2>3, <3>1, <3>2 DEF Restored, KsTypeOK
    <2> QED BY <1>4, <2>2, <2>3 DEF Restored
  <1> QED BY <1>1, <1>2, <1>3, <1>4

LEMMA ClosingSteps ==
  ASSUME KsTypeOK, Lock \/ Expire \/ Tick \/ KsWorkerRestarts \/ UNCHANGED ksVars
  PROVE  KsTypeOK'
  <1>1. CASE Lock
    BY <1>1, RestTyped DEF Lock, Issue, KsTypeOK
  <1>2. CASE Expire
    BY <1>2, RestTyped DEF Expire, Issue, KsTypeOK
  <1>3. CASE Tick
    BY <1>3, KeyBoundsAssumption DEF Tick, memory, KsTypeOK
  <1>4. CASE KsWorkerRestarts
    <2>1. ops' \in Seq(StorageOps)
      <3>1. \A i \in DOMAIN ops : ops[i] \in StorageOps /\ [op |-> "get", by |-> "nobody"] \in StorageOps
        BY OpTyped DEF StorageOps
      <3>2. DOMAIN ops = 1..Len(ops) /\ Len(ops) \in Nat
        BY DEF KsTypeOK
      <3>3. \A i \in 1..Len(ops) : ops'[i] \in StorageOps
        BY <1>4, <3>1, <3>2 DEF KsWorkerRestarts
      <3>4. DOMAIN ops' = 1..Len(ops) /\ ops' = [i \in 1..Len(ops) |-> ops'[i]]
        BY <1>4, <3>2 DEF KsWorkerRestarts
      <3> QED BY <3>2, <3>3, <3>4
    <2>2. /\ session' = Locked /\ rawKey' = "none" /\ attempted' = FALSE /\ trusted' = "pending"
          /\ waiters' = <<>> /\ keyCall' = [c \in KeyCalls |-> Rest] /\ beforeLock' = {}
          /\ UNCHANGED <<record, clock, failures>>
      BY <1>4 DEF KsWorkerRestarts
    <2>3. keyCall' \in [KeyCalls -> CallStates] /\ waiters' \in Seq(KeyCalls)
      BY <2>2, RestTyped
    <2> QED BY <2>1, <2>2, <2>3 DEF KsTypeOK
  <1>5. CASE UNCHANGED ksVars
    BY <1>5 DEF ksVars, memory, KsTypeOK
  <1> QED BY <1>1, <1>2, <1>3, <1>4, <1>5

-------------------------------------------------------------------------------
(* What is left, and what is read, as operations are issued and done        *)

LEMMA LenTyped ==
  ASSUME KsTypeOK
  PROVE  /\ Len(ops) \in Nat /\ DOMAIN ops = 1..Len(ops)
         /\ Len(waiters) \in Nat /\ DOMAIN waiters = 1..Len(waiters)
  BY DEF KsTypeOK

LEMMA AfterIsOne ==
  ASSUME KsTypeOK, NEW n \in 0..Len(ops), NEW q, NEW r, After(n, q), After(n, r)
  PROVE  q = r
  <1>1. Len(ops) \in Nat
    BY LenTyped
  <1>2. ASSUME NEW i \in 1..n, NEW j \in 1..n, ~IsGet(i), ~IsGet(j),
               \A k \in (i + 1)..n : IsGet(k), \A k \in (j + 1)..n : IsGet(k)
        PROVE  i = j
    BY <1>1, <1>2
  <1> QED BY <1>1, <1>2 DEF After

LEMMA AfterGets ==
  ASSUME KsTypeOK, NEW n \in 0..Len(ops), NEW m \in 0..n, \A i \in (m + 1)..n : IsGet(i), NEW r
  PROVE  After(m, r) <=> After(n, r)
  <1>1. Len(ops) \in Nat
    BY LenTyped
  <1>2. ASSUME After(m, r) PROVE After(n, r)
    <2>1. CASE r = record /\ \A i \in 1..m : IsGet(i)
      <3>1. \A i \in 1..n : IsGet(i)
        BY <1>1, <2>1
      <3> QED BY <2>1, <3>1 DEF After
    <2>2. ASSUME NEW i \in 1..m, ~IsGet(i), \A j \in (i + 1)..m : IsGet(j),
                 r = IF ops[i].op = "set" THEN ops[i].record ELSE NoRecord
          PROVE  After(n, r)
      <3>1. i \in 1..n /\ \A j \in (i + 1)..n : IsGet(j)
        BY <1>1, <2>2
      <3> QED BY <2>2, <3>1 DEF After
    <2> QED BY <1>2, <2>1, <2>2 DEF After
  <1>3. ASSUME After(n, r) PROVE After(m, r)
    <2>1. CASE r = record /\ \A i \in 1..n : IsGet(i)
      BY <1>1, <2>1 DEF After
    <2>2. ASSUME NEW i \in 1..n, ~IsGet(i), \A j \in (i + 1)..n : IsGet(j),
                 r = IF ops[i].op = "set" THEN ops[i].record ELSE NoRecord
          PROVE  After(m, r)
      <3>1. i \in 1..m /\ \A j \in (i + 1)..m : IsGet(j)
        BY <1>1, <2>2
      <3> QED BY <2>2, <3>1 DEF After
    <2> QED BY <1>3, <2>1, <2>2 DEF After
  <1> QED BY <1>2, <1>3

\* An operation is issued: what was under way is read as before, and the final record
\* is the one that it writes.
LEMMA IssueLeaves ==
  ASSUME KsTypeOK, NEW op \in StorageOps, ops' = Append(ops, op), record' = record
  PROVE  /\ \A n \in 0..Len(ops) : \A r : After(n, r)' <=> After(n, r)
         /\ Len(ops') = Len(ops) + 1 /\ ops'[Len(ops) + 1] = op
         /\ \A i \in 1..Len(ops) : ops'[i] = ops[i]
         /\ op.op = "get" => \A r : Final(r)' <=> Final(r)
         /\ op.op = "set" => \A r : Final(r)' <=> r = op.record
         /\ op.op = "remove" => \A r : Final(r)' <=> r = NoRecord
  <1>1. Len(ops) \in Nat
    BY LenTyped
  <1>2. /\ Len(ops') = Len(ops) + 1 /\ ops'[Len(ops) + 1] = op
        /\ \A i \in 1..Len(ops) : ops'[i] = ops[i]
    BY DEF KsTypeOK
  <1>3. \A i \in 1..Len(ops) : IsGet(i)' <=> IsGet(i)
    BY <1>2 DEF IsGet
  <1>4. ASSUME NEW n \in 0..Len(ops), NEW r PROVE After(n, r)' <=> After(n, r)
    <2>1. \A i \in 1..n : i \in 1..Len(ops) /\ \A j \in (i + 1)..n : j \in 1..Len(ops)
      BY <1>1
    <2> QED BY <1>2, <1>3, <2>1 DEF After
  <1>5. PICK N : N = Len(ops) + 1
    OBVIOUS
  <1>6. /\ N \in 1..N /\ Len(ops') = N /\ ops'[N] = op
        /\ IsGet(N)' <=> op.op = "get"
    BY <1>1, <1>2, <1>5 DEF IsGet
  <1>7. ASSUME op.op = "get", NEW r PROVE Final(r)' <=> Final(r)
    <2>1. ASSUME After(N, r)' PROVE After(Len(ops), r)
      <3>1. CASE r = record' /\ \A i \in 1..N : IsGet(i)'
        <4>1. \A i \in 1..Len(ops) : IsGet(i)
          BY <1>1, <1>3, <1>5, <3>1
        <4> QED BY <3>1, <4>1 DEF After
      <3>2. ASSUME NEW i \in 1..N, ~IsGet(i)', \A j \in (i + 1)..N : IsGet(j)',
                   r = IF ops'[i].op = "set" THEN ops'[i].record ELSE NoRecord
            PROVE  After(Len(ops), r)
        <4>1. i \in 1..Len(ops) /\ \A j \in (i + 1)..Len(ops) : IsGet(j)
          BY <1>1, <1>3, <1>5, <1>6, <1>7, <3>2
        <4> QED BY <1>2, <1>3, <3>2, <4>1 DEF After
      <3> QED BY <2>1, <3>1, <3>2 DEF After
    <2>2. ASSUME After(Len(ops), r) PROVE After(N, r)'
      <3>1. CASE r = record /\ \A i \in 1..Len(ops) : IsGet(i)
        <4>1. \A i \in 1..N : IsGet(i)'
          BY <1>1, <1>3, <1>5, <1>6, <1>7, <3>1
        <4> QED BY <3>1, <4>1 DEF After
      <3>2. ASSUME NEW i \in 1..Len(ops), ~IsGet(i), \A j \in (i + 1)..Len(ops) : IsGet(j),
                   r = IF ops[i].op = "set" THEN ops[i].record ELSE NoRecord
            PROVE  After(N, r)'
        <4>1. i \in 1..N /\ \A j \in (i + 1)..N : IsGet(j)'
          BY <1>1, <1>3, <1>5, <1>6, <1>7, <3>2
        <4> QED BY <1>2, <1>3, <3>2, <4>1 DEF After
      <3> QED BY <2>2, <3>1, <3>2 DEF After
    <2> QED BY <1>6, <2>1, <2>2 DEF Final
  <1>8. ASSUME op.op # "get", NEW r
        PROVE  Final(r)' <=> r = IF op.op = "set" THEN op.record ELSE NoRecord
    <2>1. N \in 1..N /\ ~IsGet(N)' /\ \A j \in (N + 1)..N : IsGet(j)'
      BY <1>1, <1>5, <1>6, <1>8
    <2>2. \A i \in 1..N : (\A j \in (i + 1)..N : IsGet(j)') => i = N
      BY <1>1, <1>5, <2>1
    <2>3. After(N, r)' <=> r = IF op.op = "set" THEN op.record ELSE NoRecord
      BY <1>6, <2>1, <2>2 DEF After
    <2> QED BY <1>6, <2>3 DEF Final
  <1>9. op.op = "get" => \A r : Final(r)' <=> Final(r)
    BY <1>7
  <1>10. op.op = "set" => \A r : Final(r)' <=> r = op.record
    BY <1>8
  <1>11. op.op = "remove" => \A r : Final(r)' <=> r = NoRecord
    BY <1>8
  <1>12. \A n \in 0..Len(ops) : \A r : After(n, r)' <=> After(n, r)
    BY <1>4
  <1> QED BY <1>2, <1>9, <1>10, <1>11, <1>12

\* The first operation is done: what was to be read is read all the same.
LEMMA DoneLeaves ==
  ASSUME KsTypeOK, ops # <<>>, ops' = Tail(ops),
         record' = CASE ops[1].op = "set" -> ops[1].record
                     [] ops[1].op = "remove" -> NoRecord
                     [] ops[1].op = "get" -> record
  PROVE  /\ Len(ops') = Len(ops) - 1 /\ \A i \in 1..(Len(ops) - 1) : ops'[i] = ops[i + 1]
         /\ \A n \in 0..(Len(ops) - 1) : \A r : After(n, r)' <=> After(n + 1, r)
         /\ \A r : Final(r)' <=> Final(r)
  <1>1. Len(ops) \in Nat /\ Len(ops) >= 1 /\ 1 \in DOMAIN ops
    BY DEF KsTypeOK
  <1>2. Len(ops') = Len(ops) - 1 /\ \A i \in 1..(Len(ops) - 1) : ops'[i] = ops[i + 1]
    BY DEF KsTypeOK
  <1>3. \A i \in 1..(Len(ops) - 1) : IsGet(i)' <=> IsGet(i + 1)
    BY <1>2 DEF IsGet
  <1>4. record' = IF ops[1].op = "set" THEN ops[1].record ELSE IF ops[1].op = "get" THEN record ELSE NoRecord
    BY <1>1, OpTyped
  <1>5. ASSUME NEW n \in 0..(Len(ops) - 1), NEW r PROVE After(n, r)' <=> After(n + 1, r)
    <2>1. ASSUME After(n, r)' PROVE After(n + 1, r)
      <3>1. CASE r = record' /\ \A i \in 1..n : IsGet(i)'
        <4>1. \A i \in 2..(n + 1) : IsGet(i)
          <5> SUFFICES ASSUME NEW i \in 2..(n + 1) PROVE IsGet(i)
            OBVIOUS
          <5>1. PICK k \in 1..n : i = k + 1 /\ k \in 1..(Len(ops) - 1)
            <6>1. n \in Nat /\ i \in Int /\ n <= Len(ops) - 1 /\ i >= 2 /\ i <= n + 1
              BY <1>1
            <6>2. i - 1 \in 1..n /\ i = (i - 1) + 1 /\ i - 1 \in 1..(Len(ops) - 1)
              BY <1>1, <6>1
            <6> QED BY <6>2
          <5> QED BY <1>3, <3>1, <5>1
        <4>2. CASE IsGet(1)
          <5>1. \A i \in 1..(n + 1) : IsGet(i)
            <6>1. \A i \in 1..(n + 1) : i = 1 \/ i \in 2..(n + 1)
              BY <1>1
            <6> QED BY <4>1, <4>2, <6>1
          <5>2. r = record
            BY <1>4, <3>1, <4>2 DEF IsGet
          <5> QED BY <5>1, <5>2 DEF After
        <4>3. CASE ~IsGet(1)
          <5>1. 1 \in 1..(n + 1) /\ r = IF ops[1].op = "set" THEN ops[1].record ELSE NoRecord
            BY <1>4, <3>1, <4>3 DEF IsGet
          <5>2. \A j \in (1 + 1)..(n + 1) : IsGet(j)
            BY <4>1
          <5> QED BY <4>3, <5>1, <5>2 DEF After
        <4> QED BY <4>2, <4>3
      <3>2. ASSUME NEW i \in 1..n, ~IsGet(i)', \A j \in (i + 1)..n : IsGet(j)',
                   r = IF ops'[i].op = "set" THEN ops'[i].record ELSE NoRecord
            PROVE  After(n + 1, r)
        <4>1. i + 1 \in 1..(n + 1) /\ ~IsGet(i + 1) /\ ops'[i] = ops[i + 1]
          BY <1>1, <1>2, <1>3, <3>2
        <4>2. ASSUME NEW j \in (i + 2)..(n + 1) PROVE IsGet(j)
          <5>1. j - 1 \in (i + 1)..n /\ j - 1 \in 1..(Len(ops) - 1) /\ j = (j - 1) + 1
            BY <1>1
          <5> QED BY <1>3, <3>2, <5>1
        <4> QED BY <3>2, <4>1, <4>2 DEF After
      <3> QED BY <2>1, <3>1, <3>2 DEF After
    <2>2. ASSUME After(n + 1, r) PROVE After(n, r)'
      <3>1. CASE r = record /\ \A i \in 1..(n + 1) : IsGet(i)
        <4>1. \A i \in 1..n : IsGet(i)'
          BY <1>1, <1>3, <3>1
        <4>2. IsGet(1)
          BY <3>1
        <4> QED BY <1>4, <3>1, <4>1, <4>2 DEF After, IsGet
      <3>2. ASSUME NEW i \in 1..(n + 1), ~IsGet(i), \A j \in (i + 1)..(n + 1) : IsGet(j),
                   r = IF ops[i].op = "set" THEN ops[i].record ELSE NoRecord
            PROVE  After(n, r)'
        <4>1. CASE i = 1
          <5>1. \A k \in 1..n : IsGet(k)'
            BY <1>1, <1>3, <3>2, <4>1
          <5>2. r = record'
            BY <1>4, <3>2, <4>1 DEF IsGet
          <5> QED BY <5>1, <5>2 DEF After
        <4>2. CASE i > 1
          <5>1. PICK k \in 1..n : i = k + 1
            <6>1. i - 1 \in 1..n /\ i = (i - 1) + 1
              BY <1>1, <4>2
            <6> QED BY <6>1
          <5>2. ~IsGet(k)' /\ ops'[k] = ops[i]
            BY <1>1, <1>2, <1>3, <3>2, <5>1
          <5>3. ASSUME NEW j \in (k + 1)..n PROVE IsGet(j)'
            <6>1. j \in 1..(Len(ops) - 1) /\ j + 1 \in (i + 1)..(n + 1)
              BY <1>1, <5>1
            <6> QED BY <1>3, <3>2, <6>1
          <5> QED BY <3>2, <5>2, <5>3 DEF After
        <4> QED BY <4>1, <4>2
      <3> QED BY <2>2, <3>1, <3>2 DEF After
    <2> QED BY <2>1, <2>2
  <1>6. PICK m \in 0..(Len(ops) - 1) : m + 1 = Len(ops) /\ m = Len(ops')
    BY <1>1, <1>2
  <1>7. ASSUME NEW r PROVE Final(r)' <=> Final(r)
    <2>1. After(m, r)' <=> After(m + 1, r)
      BY <1>5
    <2> QED BY <1>6, <2>1 DEF Final
  <1> QED BY <1>2, <1>5, <1>7

\* A write fails and the record is removed: what was to be read is what it would have
\* been without that write, and nothing is left.
LEMMA FailureLeaves ==
  ASSUME KsTypeOK, ops # <<>>, ops' = Append(Tail(ops), Removing), record' = record
  PROVE  /\ Len(ops') = Len(ops) /\ \A i \in 1..(Len(ops) - 1) : ops'[i] = ops[i + 1]
         /\ ops'[Len(ops)] = Removing
         /\ \A r : Final(r)' <=> r = NoRecord
  <1>1. PICK N \in Nat : N = Len(ops) /\ N >= 1
    BY DEF KsTypeOK
  <1>2. /\ Len(ops') = N /\ \A i \in 1..(N - 1) : ops'[i] = ops[i + 1]
        /\ ops'[N] = Removing
    BY <1>1, RestTyped DEF KsTypeOK
  <1>3. N \in 1..N /\ ~IsGet(N)' /\ \A j \in (N + 1)..N : IsGet(j)'
    BY <1>1, <1>2 DEF IsGet, Removing
  <1>4. \A i \in 1..N : (\A j \in (i + 1)..N : IsGet(j)') => i = N
    BY <1>1, <1>3
  <1>5. ASSUME NEW r PROVE After(N, r)' <=> r = NoRecord
    BY <1>2, <1>3, <1>4 DEF After, Removing
  <1> QED BY <1>1, <1>2, <1>5 DEF Final

\* The worker stops: the same is left, and nobody reads.
LEMMA StopLeaves ==
  ASSUME KsTypeOK, record' = record,
         ops' = [i \in DOMAIN ops |-> IF ops[i].op = "get" THEN [op |-> "get", by |-> "nobody"] ELSE ops[i]]
  PROVE  /\ \A r : Final(r)' <=> Final(r)
         /\ \A i \in DOMAIN ops' : ~IsRead(i)'
         /\ \A i \in DOMAIN ops' : i \in DOMAIN ops /\ (ops'[i].op = "set" => ops'[i] = ops[i])
  <1>1. PICK N \in Nat : N = Len(ops) /\ DOMAIN ops = 1..N
    BY LenTyped
  <1>2. DOMAIN ops' = 1..N /\ Len(ops') = N
    BY <1>1
  <1>3. \A i \in 1..N : /\ IsGet(i)' <=> IsGet(i)
                        /\ ~IsGet(i) => ops'[i] = ops[i]
                        /\ IsGet(i) => ops'[i].by = "nobody"
    BY <1>1 DEF IsGet
  <1>4. \A i \in 1..N : ~IsRead(i)'
    BY <1>3, NobodyAssumption DEF IsRead
  <1>5. \A i \in 1..N : ops'[i].op = "set" => ops'[i] = ops[i]
    BY <1>3 DEF IsGet
  <1>6. ASSUME NEW r PROVE After(N, r)' <=> After(N, r)
    <2>1. \A i \in 1..N : (\A j \in (i + 1)..N : IsGet(j)') <=> (\A j \in (i + 1)..N : IsGet(j))
      BY <1>3
    <2> QED BY <1>3, <2>1 DEF After
  <1> QED BY <1>1, <1>2, <1>4, <1>5, <1>6 DEF Final

\* The same for the reads and for what they can meet.
LEMMA IssueReads ==
  ASSUME KsTypeOK, NEW op \in StorageOps, ops' = Append(ops, op), record' = record
  PROVE  /\ \A c, r : op.op # "get" => (Reading(c, r)' <=> Reading(c, r))
         /\ \A c, r : op.op = "get" =>
              (Reading(c, r)' <=> Reading(c, r) \/ (op.by = c /\ Final(r)))
         /\ DOMAIN ops' = DOMAIN ops \cup {Len(ops) + 1}
         /\ \A i \in DOMAIN ops : ops'[i] = ops[i]
         /\ ops'[Len(ops) + 1] = op
         /\ \A i \in DOMAIN ops : \A r : HeldBefore(i - 1, r)' <=> HeldBefore(i - 1, r)
         /\ \A r : HeldBefore(Len(ops), r)' => HeldBefore(Len(ops), r) \/ (op.op = "set" /\ r = op.record)
         /\ op.op = "get" => \A r : \A i \in DOMAIN ops' : HeldBefore(i - 1, r)' => HeldBefore(Len(ops), r)
  <1>1. PICK N \in Nat : N = Len(ops) /\ DOMAIN ops = 1..N
    BY LenTyped
  <1>2. /\ Len(ops') = N + 1 /\ DOMAIN ops' = 1..(N + 1)
        /\ ops'[N + 1] = op /\ \A i \in 1..N : ops'[i] = ops[i]
    BY <1>1 DEF KsTypeOK
  <1>3. \A i \in 1..(N + 1) : i \in 1..N \/ i = N + 1
    BY <1>1
  <1>4. \A i \in 1..(N + 1) : i - 1 \in 0..N
    BY <1>1
  <1>5. \A i \in 1..(N + 1) : \A r : After(i - 1, r)' <=> After(i - 1, r)
    BY <1>1, <1>4, IssueLeaves
  <1>6. \A i \in 1..N : IsGet(i)' <=> IsGet(i)
    BY <1>2 DEF IsGet
  <1>7. ASSUME NEW c, NEW r, op.op # "get" PROVE Reading(c, r)' <=> Reading(c, r)
    <2>1. \A i \in 1..(N + 1) : IsGet(i)' => i \in 1..N
      BY <1>2, <1>3, <1>7 DEF IsGet
    <2>2. \A i \in 1..N : i \in 1..(N + 1)
      BY <1>1
    <2> QED BY <1>1, <1>2, <1>5, <1>6, <2>1, <2>2 DEF Reading
  <1>8. ASSUME NEW c, NEW r, op.op = "get"
        PROVE  Reading(c, r)' <=> Reading(c, r) \/ (op.by = c /\ Final(r))
    <2>1. PICK M \in 1..(N + 1) : M = N + 1 /\ M - 1 = N
      BY <1>1
    <2>2. IsGet(M)' /\ ops'[M] = op
      BY <1>2, <1>8, <2>1 DEF IsGet
    <2>3. After(M - 1, r)' <=> Final(r)
      BY <1>1, <1>5, <2>1 DEF Final
    <2>4. \A i \in 1..N : i \in 1..(N + 1)
      BY <1>1
    <2> QED BY <1>1, <1>2, <1>3, <1>5, <1>6, <2>1, <2>2, <2>3, <2>4 DEF Reading
  <1>9. ASSUME NEW n \in 0..N, NEW r PROVE HeldBefore(n, r)' <=> HeldBefore(n, r)
    BY <1>2 DEF HeldBefore
  <1>10. ASSUME NEW r, HeldBefore(N + 1, r)' PROVE HeldBefore(N, r) \/ (op.op = "set" /\ r = op.record)
    <2>1. PICK M : M = N + 1
      OBVIOUS
    <2>2. HeldBefore(M, r)'
      BY <1>10, <2>1
    <2> QED BY <1>2, <1>3, <2>1, <2>2 DEF HeldBefore
  <1>11. ASSUME NEW n \in 0..N, NEW r, HeldBefore(n, r) PROVE HeldBefore(N, r)
    BY <1>1, <1>11 DEF HeldBefore
  <1>12. ASSUME NEW r, HeldBefore(Len(ops), r)' 
          PROVE  HeldBefore(Len(ops), r) \/ (op.op = "set" /\ r = op.record)
    <2>1. PICK M : M = N + 1
      OBVIOUS
    <2>2. HeldBefore(M, r)'
      BY <1>2, <1>12, <2>1
    <2> QED BY <1>1, <1>10, <2>1, <2>2
  <1>13. \A r : \A i \in 1..(N + 1) : HeldBefore(i - 1, r)' => HeldBefore(N, r)
    BY <1>4, <1>9, <1>11
  <1>14. \A i \in 1..N : \A r : HeldBefore(i - 1, r)' <=> HeldBefore(i - 1, r)
    BY <1>1, <1>4, <1>9
  <1> QED BY <1>1, <1>2, <1>7, <1>8, <1>12, <1>13, <1>14

LEMMA DoneReads ==
  ASSUME KsTypeOK, ops # <<>>, ops' = Tail(ops),
         record' = CASE ops[1].op = "set" -> ops[1].record
                     [] ops[1].op = "remove" -> NoRecord
                     [] ops[1].op = "get" -> record
  PROVE  /\ \A c, r : Reading(c, r)' => Reading(c, r)
         /\ \A c, r : Reading(c, r) => Reading(c, r)' \/ (IsGet(1) /\ ops[1].by = c /\ r = record)
         /\ Len(ops) \in Nat /\ Len(ops) >= 1 /\ DOMAIN ops' = 1..(Len(ops) - 1) /\ DOMAIN ops = 1..Len(ops)
         /\ \A i \in DOMAIN ops' : i + 1 \in DOMAIN ops /\ ops'[i] = ops[i + 1]
         /\ \A i \in DOMAIN ops' : \A r : HeldBefore(i - 1, r)' /\ IsUsable(r) => HeldBefore(i, r)
         /\ \A r : HeldBefore(Len(ops), r)' /\ IsUsable(r) => HeldBefore(Len(ops), r)
  <1>1. PICK N \in Nat : N = Len(ops) /\ N >= 1 /\ DOMAIN ops = 1..N
    BY LenTyped DEF KsTypeOK
  <1>2. /\ Len(ops') = N - 1 /\ DOMAIN ops' = 1..(N - 1)
        /\ \A i \in 1..(N - 1) : ops'[i] = ops[i + 1] /\ i + 1 \in 1..N
    BY <1>1 DEF KsTypeOK
  <1>3. \A n \in 0..(N - 1) : \A r : After(n, r)' <=> After(n + 1, r)
    BY <1>1, DoneLeaves
  <1>4. \A i \in 1..(N - 1) : i - 1 \in 0..(N - 1) /\ (i - 1) + 1 = i /\ (i + 1) - 1 = i
    BY <1>1
  <1>5. \A i \in 1..(N - 1) : \A r : After(i - 1, r)' <=> After((i + 1) - 1, r)
    BY <1>3, <1>4
  <1>6. \A i \in 1..(N - 1) : IsGet(i)' <=> IsGet(i + 1)
    BY <1>2 DEF IsGet
  <1>7. \A i \in 1..N : i = 1 \/ \E j \in 1..(N - 1) : i = j + 1
    <2>1. ASSUME NEW i \in 1..N, i # 1 PROVE i - 1 \in 1..(N - 1) /\ i = (i - 1) + 1
      BY <1>1, <2>1
    <2> QED BY <2>1
  <1>8. ASSUME NEW c, NEW r, Reading(c, r)' PROVE Reading(c, r)
    <2>1. PICK i \in 1..(N - 1) : IsGet(i)' /\ ops'[i].by = c /\ After(i - 1, r)'
      BY <1>2, <1>8 DEF Reading
    <2> QED BY <1>1, <1>2, <1>5, <1>6, <2>1 DEF Reading
  <1>9. ASSUME NEW c, NEW r, Reading(c, r)
        PROVE  Reading(c, r)' \/ (IsGet(1) /\ ops[1].by = c /\ r = record)
    <2>1. PICK i \in 1..N : IsGet(i) /\ ops[i].by = c /\ After(i - 1, r)
      BY <1>1, <1>9 DEF Reading
    <2>2. CASE i = 1
      BY <2>1, <2>2 DEF After
    <2>3. ASSUME NEW j \in 1..(N - 1), i = j + 1 PROVE Reading(c, r)'
      <3>1. IsGet(j)' /\ ops'[j].by = c /\ After(j - 1, r)'
        BY <1>2, <1>5, <1>6, <2>1, <2>3
      <3> QED BY <1>2, <3>1 DEF Reading
    <2> QED BY <1>7, <2>2, <2>3
  <1>10. record' = record \/ (ops[1].op = "set" /\ record' = ops[1].record) \/ record' = NoRecord
    BY <1>1, OpTyped
  <1>11. ASSUME NEW n \in 0..(N - 1), NEW r, HeldBefore(n, r)', IsUsable(r) PROVE HeldBefore(n + 1, r)
    <2>1. CASE r = record'
      <3>1. r # NoRecord /\ 1 \in 1..(n + 1)
        BY <1>11 DEF IsUsable, NoRecord
      <3> QED BY <1>10, <2>1, <3>1 DEF HeldBefore
    <2>2. ASSUME NEW i \in 1..n, ops'[i].op = "set", r = ops'[i].record PROVE HeldBefore(n + 1, r)
      <3>1. i + 1 \in 1..(n + 1) /\ i \in 1..(N - 1)
        BY <1>1
      <3> QED BY <1>2, <2>2, <3>1 DEF HeldBefore
    <2> QED BY <1>11, <2>1, <2>2 DEF HeldBefore
  <1>12. \A i \in 1..(N - 1) : \A r : HeldBefore(i - 1, r)' /\ IsUsable(r) => HeldBefore(i, r)
    <2>1. ASSUME NEW i \in 1..(N - 1), NEW r, HeldBefore(i - 1, r)', IsUsable(r) PROVE HeldBefore(i, r)
      <3>1. PICK n \in 0..(N - 1) : n = i - 1 /\ n + 1 = i
        BY <1>4
      <3> QED BY <1>11, <2>1, <3>1
    <2> QED BY <2>1
  <1>13. ASSUME NEW r, HeldBefore(Len(ops), r)', IsUsable(r) PROVE HeldBefore(Len(ops), r)
    <2>1. PICK n \in 0..(N - 1) : n = N - 1 /\ n + 1 = N /\ n = Len(ops')
      BY <1>1, <1>2
    <2>2. HeldBefore(n, r)'
      BY <1>13, <2>1
    <2> QED BY <1>1, <1>11, <1>13, <2>1, <2>2
  <1> QED BY <1>1, <1>2, <1>8, <1>9, <1>12, <1>13

LEMMA FailureReads ==
  ASSUME KsTypeOK, ops # <<>>, ops[1].op = "set", ops' = Append(Tail(ops), Removing), record' = record
  PROVE  /\ Len(ops) \in Nat /\ Len(ops) >= 1 /\ DOMAIN ops' = 1..Len(ops) /\ DOMAIN ops = 1..Len(ops)
         /\ \A i \in 1..(Len(ops) - 1) : i + 1 \in DOMAIN ops /\ ops'[i] = ops[i + 1]
         /\ ops'[Len(ops)] = Removing
         /\ \A i \in 1..(Len(ops) - 1) : \A r : HeldBefore(i - 1, r)' => HeldBefore(i, r)
         /\ \A r : HeldBefore(Len(ops), r)' => HeldBefore(Len(ops), r)
  <1>1. PICK N \in Nat : N = Len(ops) /\ N >= 1 /\ DOMAIN ops = 1..N
    BY LenTyped DEF KsTypeOK
  <1>2. /\ Len(ops') = N /\ DOMAIN ops' = 1..N /\ ops'[N] = Removing
        /\ \A i \in 1..(N - 1) : ops'[i] = ops[i + 1] /\ i + 1 \in 1..N
    BY <1>1, RestTyped DEF KsTypeOK
  <1>3. ASSUME NEW n \in 0..(N - 1), NEW r, HeldBefore(n, r)' PROVE HeldBefore(n + 1, r)
    <2>1. ASSUME NEW i \in 1..n, ops'[i].op = "set", r = ops'[i].record PROVE HeldBefore(n + 1, r)
      <3>1. i + 1 \in 1..(n + 1) /\ i \in 1..(N - 1)
        BY <1>1
      <3> QED BY <1>2, <2>1, <3>1 DEF HeldBefore
    <2> QED BY <1>3, <2>1 DEF HeldBefore
  <1>4. ASSUME NEW i \in 1..(N - 1), NEW r, HeldBefore(i - 1, r)' PROVE HeldBefore(i, r)
    <2>1. PICK n \in 0..(N - 1) : n = i - 1 /\ n + 1 = i
      <3>1. i - 1 \in 0..(N - 1) /\ (i - 1) + 1 = i
        BY <1>1
      <3> QED BY <3>1
    <2> QED BY <1>3, <1>4, <2>1
  <1>5. ASSUME NEW r, HeldBefore(Len(ops), r)' PROVE HeldBefore(Len(ops), r)
    <2>1. HeldBefore(N, r)'
      BY <1>2, <1>5
    <2>2. CASE r = record
      BY <2>2 DEF HeldBefore
    <2>3. ASSUME NEW i \in 1..N, ops'[i].op = "set", r = ops'[i].record PROVE HeldBefore(N, r)
      <3>1. i \in 1..(N - 1)
        BY <1>1, <1>2, <2>3 DEF Removing
      <3> QED BY <1>2, <2>3, <3>1 DEF HeldBefore
    <2> QED BY <1>1, <2>1, <2>2, <2>3 DEF HeldBefore
  <1> QED BY <1>1, <1>2, <1>4, <1>5

\* Reads with no write between them read the same.
LEMMA TogetherSame ==
  KsTypeOK =>
    \A n \in 0..Len(ops) : \A m \in 0..n : \A q, r :
      (\A i \in (m + 1)..n : IsGet(i)) /\ After(m, q) /\ After(n, r) => q = r
  BY AfterGets, AfterIsOne

LEMMA TogetherSameNext ==
  (KsTypeOK =>
    \A n \in 0..Len(ops) : \A m \in 0..n : \A q, r :
      (\A i \in (m + 1)..n : IsGet(i)) /\ After(m, q) /\ After(n, r) => q = r)'
  BY TogetherSame, PTL

LEMMA FinalIsOne ==
  ASSUME KsTypeOK, NEW q, NEW r, Final(q), Final(r)
  PROVE  q = r
  BY AfterIsOne, LenTyped DEF Final

\* Nothing waits for the storage where messages are taken and the storage is known.
LEMMA NoneWaits ==
  ASSUME KsInv, NextTask, NEW c \in KeyCalls
  PROVE  /\ trusted # "pending" => keyCall[c].pc \notin {"trust", "persist"} /\ ~Restoring
         /\ trusted = "pending" => keyCall[c].pc \notin {"get", "restore"}
         /\ Restoring => keyCall[c].pc # "restore" /\ \A i \in DOMAIN ops : ~IsRead(i)
  BY DEF KsInv, KsSound, NextTask, WaitersWait, WorkerAttempted, ReadersRead, IsRead, Restoring

-------------------------------------------------------------------------------
(* The steps, by what they do                                              *)

\* Who waits, or awaits a read, still does.
LEMMA SameWaiters ==
  ASSUME KsTypeOK, WaitersWait, waiters' = waiters,
         \A d \in KeyCalls : keyCall[d].pc \in {"trust", "persist"} \/ keyCall'[d].pc \in {"trust", "persist"} =>
           keyCall'[d] = keyCall[d]
  PROVE  WaitersWait'
  <1>1. \A i \in DOMAIN waiters : waiters[i] \in KeyCalls
    BY DEF KsTypeOK
  <1>2. \A i \in DOMAIN waiters : keyCall'[waiters[i]] = keyCall[waiters[i]]
    BY <1>1 DEF WaitersWait
  <1>3. \A i, j \in DOMAIN waiters' : waiters'[i] = waiters'[j] => i = j
    BY DEF WaitersWait
  <1>4. \A i \in DOMAIN waiters' : keyCall'[waiters'[i]].pc \in {"trust", "persist"}
    BY <1>2 DEF WaitersWait
  <1>5. \A d \in KeyCalls : keyCall'[d].pc \in {"trust", "persist"} => \E i \in DOMAIN waiters' : waiters'[i] = d
    BY DEF WaitersWait
  <1>6. \A i, j \in DOMAIN waiters' :
          keyCall'[waiters'[i]].pc = "persist" /\ i < j => keyCall'[waiters'[j]].pc = "persist"
    BY <1>2 DEF WaitersWait
  <1> QED BY <1>3, <1>4, <1>5, <1>6 DEF WaitersWait

LEMMA SameReaders ==
  ASSUME KsTypeOK, ReadersRead,
         \A i \in DOMAIN ops' : IsRead(i)' => i \in DOMAIN ops /\ IsRead(i) /\ ops'[i] = ops[i],
         \A d \in KeyCalls : keyCall[d].pc = "get" => keyCall'[d] = keyCall[d]
  PROVE  ReadersRead'
  <1>1. \A i \in DOMAIN ops : IsRead(i) => ops[i].by \in KeyCalls
    BY DEF IsRead
  <1>2. ASSUME NEW i \in DOMAIN ops', IsRead(i)' PROVE keyCall'[ops'[i].by].pc = "get"
    BY <1>1, <1>2 DEF ReadersRead
  <1>3. ASSUME NEW i \in DOMAIN ops', NEW j \in DOMAIN ops', IsRead(i)', IsRead(j)', ops'[i].by = ops'[j].by
        PROVE  i = j
    BY <1>3 DEF ReadersRead
  <1> QED BY <1>2, <1>3 DEF ReadersRead

\* The record is removed: by an expiry, a lock, an unusable record or a distrust.
LEMMA EraseKeeps ==
  ASSUME KsInv, NextTask,
         \/ keyCall' = keyCall
         \/ \E c \in KeyCalls :
              keyCall[c].pc \in {"idle", "restore"} /\ keyCall' = [keyCall EXCEPT ![c] = Rest],
         ops' = Append(ops, Removing), record' = record, waiters' = waiters, clock' = clock,
         attempted' = attempted \/ attempted' = TRUE,
         \/ session' = Locked /\ rawKey' = "none"
         \/ session' = session /\ rawKey' \in {rawKey, "none"},
         trusted' = trusted \/ (trusted = "pending" /\ trusted' = "no")
  PROVE  KsSound'
  <1> USE DEF KsInv, KsSound
  <1>1. KsTypeOK /\ Removing \in StorageOps /\ Removing.op = "remove"
    BY RestTyped DEF Removing
  <1>2. \A d \in KeyCalls : keyCall'[d] = keyCall[d] \/ (keyCall'[d].pc = "idle" /\ keyCall[d].pc \in {"idle", "restore"})
    BY <1>1 DEF KsTypeOK, Rest
  <1>3. \A r : Final(r)' <=> r = NoRecord
    BY <1>1, IssueLeaves
  <1>4. /\ \A d, r : Reading(d, r)' <=> Reading(d, r)
        /\ DOMAIN ops' = DOMAIN ops \cup {Len(ops) + 1}
        /\ \A i \in DOMAIN ops : ops'[i] = ops[i]
        /\ ops'[Len(ops) + 1] = Removing
        /\ \A i \in DOMAIN ops : \A r : HeldBefore(i - 1, r)' <=> HeldBefore(i - 1, r)
        /\ \A r : HeldBefore(Len(ops), r)' => HeldBefore(Len(ops), r)
    BY <1>1, IssueReads
  <1>5. \A i \in DOMAIN ops' : IsRead(i)' => i \in DOMAIN ops /\ IsRead(i)
    BY <1>4 DEF IsRead, IsGet, Removing
  <1>6. Restoring' => Restoring
    BY <1>2 DEF Restoring
  <1>7. WaitersWait'
    BY <1>2, SameWaiters
  <1>8. ReadersRead'
    BY <1>2, <1>4, <1>5, SameReaders
  <1>9. WorkerAttempted'
    BY <1>2 DEF WorkerAttempted
  <1>10. ActivitiesPassed'
    <2>1. 0 <= clock
      BY DEF KsTypeOK
    <2> QED BY <1>2, <1>4, <2>1 DEF ActivitiesPassed, Removing, Locked
  <1>11. ~IsUsable(NoRecord)
    BY DEF IsUsable, NoRecord
  <1>12. DistrustErases' /\ DroppedKeyErases' /\ LockErases' /\ OpenIsRecorded' /\ FinalIsLatest'
    BY <1>3, <1>11 DEF DistrustErases, DroppedKeyErases, LockErases, OpenIsRecorded, FinalIsLatest
  <1>13. Importing' <=> Importing
    BY <1>2 DEF Importing
  <1>14. KeyIsOfSession'
    BY <1>13 DEF KeyIsOfSession
  <1>15. OpenWrites'
    BY <1>2, <1>13, LenTyped DEF OpenWrites, LastWrites, LastWaiter, WaitersWait, KsTypeOK
  <1>16. ReadsAreTogether'
    <2>1. \A i, j \in DOMAIN ops' : IsRead(i)' /\ IsRead(j)' => \A k \in i..j : IsGet(k)'
      BY <1>4, <1>5, LenTyped DEF ReadsAreTogether, IsGet
    <2>2. \A d \in KeyCalls, j \in DOMAIN ops' : keyCall'[d].pc = "restore" /\ IsRead(j)' => \A k \in 1..j : IsGet(k)'
      <3>1. \A d \in KeyCalls : keyCall'[d].pc = "restore" => keyCall[d].pc = "restore"
        BY <1>2
      <3> QED BY <1>4, <1>5, <3>1, LenTyped DEF ReadsAreTogether, IsGet
    <2>3. Restoring' => (\A d \in KeyCalls : keyCall'[d].pc # "restore") /\ \A i \in DOMAIN ops' : ~IsRead(i)'
      <3>1. Restoring => (\A d \in KeyCalls : keyCall[d].pc # "restore") /\ \A i \in DOMAIN ops : ~IsRead(i)
        BY NoneWaits DEF Restoring
      <3> QED BY <1>2, <1>5, <1>6, <3>1
    <2> QED BY <2>1, <2>2, <2>3 DEF ReadsAreTogether
  <1>17. RestoresAgree'
    BY <1>2, <1>4 DEF RestoresAgree, WillFind
  <1>18. \A q : Candidate(q)' => Candidate(q)
    BY <1>2, <1>4, <1>5, <1>6 DEF Candidate
  <1>19. CandidatesAreFloor'
    BY <1>2, <1>18 DEF CandidatesAreFloor
  <1> QED BY <1>7, <1>8, <1>9, <1>10, <1>12, <1>14, <1>15, <1>16, <1>17, <1>19

LEMMA FailureKeeps ==
  ASSUME KsInv, KsTypeOK', StorageFails
  PROVE  KsSound'
  <1> USE DEF KsInv, KsSound
  <1>1. /\ NextTask /\ ops # <<>> /\ ops[1].op = "set" /\ ops' = Append(Tail(ops), Removing)
        /\ trusted' = "no" /\ rawKey' = "none"
        /\ UNCHANGED <<session, attempted, waiters, keyCall, record, clock>>
    BY DEF StorageFails, KsTypeOK
  <1>2. \A r : Final(r)' <=> r = NoRecord
    BY <1>1, FailureLeaves
  <1>3. PICK N \in Nat : N = Len(ops) /\ N >= 1 /\ DOMAIN ops' = 1..N /\ DOMAIN ops = 1..N
    BY <1>1, FailureReads
  <1>4. /\ \A i \in 1..(N - 1) : i + 1 \in DOMAIN ops /\ ops'[i] = ops[i + 1]
        /\ ops'[N] = Removing
        /\ \A i \in 1..(N - 1) : \A r : HeldBefore(i - 1, r)' => HeldBefore(i, r)
        /\ \A r : HeldBefore(Len(ops), r)' => HeldBefore(Len(ops), r)
    BY <1>1, <1>3, FailureReads
  <1>5. \A i \in 1..N : IsRead(i)' => i \in 1..(N - 1) /\ IsRead(i + 1)
    <2>1. \A i \in 1..N : i \in 1..(N - 1) \/ i = N
      BY <1>3
    <2> QED BY <1>4, <2>1 DEF IsRead, IsGet, Removing
  <1>6. ~IsUsable(NoRecord)
    BY DEF IsUsable, NoRecord
  <1>7. DistrustErases' /\ DroppedKeyErases' /\ LockErases' /\ OpenIsRecorded' /\ FinalIsLatest'
    BY <1>2, <1>6 DEF DistrustErases, DroppedKeyErases, LockErases, OpenIsRecorded, FinalIsLatest
  <1>8. KeyIsOfSession' /\ OpenWrites' /\ WorkerAttempted'
    BY <1>1 DEF KeyIsOfSession, OpenWrites, WorkerAttempted
  <1>9. WaitersWait'
    BY <1>1, SameWaiters
  <1>10. ReadersRead'
    <2>1. \A i \in DOMAIN ops : IsRead(i) => ops[i].by \in KeyCalls
      BY DEF IsRead
    <2>2. ASSUME NEW i \in DOMAIN ops', IsRead(i)' PROVE keyCall'[ops'[i].by].pc = "get"
      BY <1>1, <1>3, <1>4, <1>5, <2>1, <2>2 DEF ReadersRead
    <2>3. ASSUME NEW i \in DOMAIN ops', NEW j \in DOMAIN ops', IsRead(i)', IsRead(j)', ops'[i].by = ops'[j].by
          PROVE  i = j
      <3>1. i + 1 = j + 1
        BY <1>3, <1>4, <1>5, <2>3 DEF ReadersRead
      <3> QED BY <1>3, <3>1
    <2> QED BY <2>2, <2>3 DEF ReadersRead
  <1>11. ActivitiesPassed'
    <2>1. \A i \in 1..N : i \in 1..(N - 1) \/ i = N
      BY <1>3
    <2> QED BY <1>1, <1>3, <1>4, <2>1 DEF ActivitiesPassed, Removing
  <1>12. ReadsAreTogether'
    <2>1. ASSUME NEW i \in DOMAIN ops', NEW j \in DOMAIN ops', IsRead(i)', IsRead(j)', NEW k \in i..j PROVE IsGet(k)'
      <3>1. k \in 1..(N - 1) /\ k + 1 \in (i + 1)..(j + 1) /\ i + 1 \in 1..N /\ j + 1 \in 1..N
        BY <1>3, <1>5, <2>1
      <3> QED BY <1>3, <1>4, <1>5, <2>1, <3>1 DEF ReadsAreTogether, IsGet
    <2>2. ASSUME NEW d \in KeyCalls, NEW j \in DOMAIN ops', keyCall'[d].pc = "restore", IsRead(j)' PROVE FALSE
      <3>1. j + 1 \in 1..N /\ 1 \in 1..(j + 1)
        BY <1>3, <1>5, <2>2
      <3> QED BY <1>1, <1>3, <1>5, <2>2, <3>1 DEF ReadsAreTogether, IsGet
    <2>3. Restoring' => Restoring
      BY <1>1 DEF Restoring
    <2>4. ASSUME Restoring PROVE \A d \in KeyCalls : keyCall'[d].pc # "restore" /\ \A i \in DOMAIN ops' : ~IsRead(i)'
      <3>1. \A d \in KeyCalls : keyCall[d].pc # "restore" /\ \A i \in DOMAIN ops : ~IsRead(i)
        BY <1>1, <2>4, NoneWaits
      <3> QED BY <1>1, <1>3, <1>4, <1>5, <3>1
    <2> QED BY <2>1, <2>2, <2>3, <2>4 DEF ReadsAreTogether, Restoring
  <1>13. RestoresAgree'
    <2> SUFFICES ASSUME NEW b \in KeyCalls, NEW d \in KeyCalls,
                        NEW q \in Records \cup {NoRecord}, NEW r \in Records \cup {NoRecord},
                        WillFind(b, q)', WillFind(d, r)'
                 PROVE  q = r
      BY DEF RestoresAgree
    <2>1. ASSUME NEW e \in KeyCalls, NEW x, Reading(e, x)'
          PROVE  \E i \in 1..N : IsRead(i)' /\ After(i - 1, x)'
      BY <1>3, <2>1 DEF Reading, IsRead
    <2>2. ASSUME NEW e \in KeyCalls, keyCall'[e].pc = "restore", NEW i \in 1..N, IsRead(i)' PROVE FALSE
      <3>1. i + 1 \in 1..N /\ 1 \in 1..(i + 1)
        BY <1>3, <1>5, <2>2
      <3> QED BY <1>1, <1>3, <1>5, <2>2, <3>1 DEF ReadsAreTogether, IsGet
    <2>3. CASE keyCall'[b].pc = "restore" /\ keyCall'[d].pc = "restore"
      <3>1. ~Reading(b, q)' /\ ~Reading(d, r)'
        BY <2>1, <2>2, <2>3
      <3>2. WillFind(b, q) /\ WillFind(d, r)
        BY <1>1, <2>3, <3>1 DEF WillFind
      <3> QED BY <3>2 DEF RestoresAgree
    <2>4. CASE Reading(b, q)' /\ Reading(d, r)'
      <3>1. PICK i \in 1..N : IsRead(i)' /\ After(i - 1, q)'
        BY <2>1, <2>4
      <3>2. PICK j \in 1..N : IsRead(j)' /\ After(j - 1, r)'
        BY <2>1, <2>4
      <3>3. ASSUME NEW x \in 1..N, NEW y \in 1..N, IsRead(x)', IsRead(y)', x <= y,
                   NEW u, NEW v, After(x - 1, u)', After(y - 1, v)'
            PROVE  u = v
        <4>1. PICK m \in 0..N, n \in 0..N : m = x - 1 /\ n = y - 1 /\ m \in 0..n
          BY <1>3, <3>3
        <4>2. \A k \in (m + 1)..n : k \in x..y
          BY <1>3, <3>3, <4>1
        <4>3. \A k \in (m + 1)..n : IsGet(k)'
          BY <1>3, <1>12, <3>3, <4>2 DEF ReadsAreTogether
        <4>4. n \in 0..Len(ops') /\ After(m, u)' /\ After(n, v)'
          BY <1>1, <1>3, <3>3, <4>1, FailureLeaves
        <4> QED BY <4>1, <4>3, <4>4, TogetherSameNext
      <3>4. i <= j \/ j <= i
        BY <1>3
      <3> QED BY <3>1, <3>2, <3>3, <3>4
    <2>5. ASSUME NEW e \in KeyCalls, keyCall'[e].pc = "restore", NEW x, NEW y \in KeyCalls, Reading(y, x)' PROVE FALSE
      BY <2>1, <2>2, <2>5
    <2> QED BY <2>3, <2>4, <2>5 DEF WillFind
  <1>14. \A q : Candidate(q)' => Candidate(q)
    <2>1. \A i \in 1..(N - 1) : (i + 1) - 1 = i
      BY <1>3
    <2> QED BY <1>1, <1>3, <1>4, <1>5, <2>1 DEF Candidate, Restoring
  <1>15. CandidatesAreFloor'
    BY <1>1, <1>14 DEF CandidatesAreFloor
  <1> QED BY <1>7, <1>8, <1>9, <1>10, <1>11, <1>12, <1>13, <1>15

LEMMA DoneKeeps ==
  ASSUME KsInv, StorageDone
  PROVE  KsSound'
  <1> USE DEF KsInv, KsSound
  <1>0. KsTypeOK
    OBVIOUS
  <1>1. /\ NextTask /\ ops # <<>> /\ Head(ops) = ops[1] /\ ops' = Tail(ops)
        /\ record' = CASE ops[1].op = "set" -> ops[1].record
                       [] ops[1].op = "remove" -> NoRecord
                       [] ops[1].op = "get" -> record
        /\ UNCHANGED <<session, rawKey, attempted, trusted, waiters, clock>>
    <2>1. ops # <<>> => Head(ops) = ops[1]
      BY DEF KsTypeOK
    <2> QED BY <2>1 DEF StorageDone
  <1>2. PICK N \in Nat : N = Len(ops) /\ N >= 1 /\ DOMAIN ops' = 1..(N - 1) /\ DOMAIN ops = 1..N
    BY <1>1, DoneReads
  <1>3. /\ \A d, r : Reading(d, r)' => Reading(d, r)
        /\ \A d, r : Reading(d, r) => Reading(d, r)' \/ (IsGet(1) /\ ops[1].by = d /\ r = record)
        /\ \A i \in 1..(N - 1) : i + 1 \in 1..N /\ ops'[i] = ops[i + 1]
        /\ \A i \in 1..(N - 1) : \A r : HeldBefore(i - 1, r)' /\ IsUsable(r) => HeldBefore(i, r)
        /\ \A r : HeldBefore(Len(ops), r)' /\ IsUsable(r) => HeldBefore(Len(ops), r)
    BY <1>1, <1>2, DoneReads
  <1>4. \A r : Final(r)' <=> Final(r)
    BY <1>1, DoneLeaves
  <1>5. \A i \in 1..(N - 1) : IsRead(i)' <=> IsRead(i + 1)
    BY <1>3 DEF IsRead, IsGet
  <1>6. /\ \A d \in KeyCalls :
             \/ keyCall'[d] = keyCall[d] /\ ~(IsRead(1) /\ ops[1].by = d)
             \/ /\ IsRead(1) /\ ops[1].by = d /\ keyCall[d].pc = "get"
                /\ keyCall'[d].pc = "restore" /\ keyCall'[d].found = record
    <2>1. CASE IsRead(1)
      <3>1. ops[1].by \in KeyCalls /\ keyCall[ops[1].by].pc = "get"
        BY <1>2, <2>1 DEF ReadersRead, IsRead
      <3>2. keyCall' = [keyCall EXCEPT ![ops[1].by] =
                          [pc |-> "restore", request |-> keyCall[ops[1].by].request, found |-> record]]
        BY <1>1, <2>1 DEF StorageDone, At, IsRead, IsGet
      <3> QED BY <2>1, <3>1, <3>2 DEF KsTypeOK
    <2>2. CASE ~IsRead(1)
      BY <1>1, <2>2 DEF StorageDone, IsRead, IsGet
    <2> QED BY <2>1, <2>2
  <1>7. \A d \in KeyCalls : keyCall[d].pc # "get" => keyCall'[d] = keyCall[d]
    BY <1>6
  <1>8. Importing' <=> Importing
    BY <1>6 DEF Importing
  <1>9. Restoring' <=> Restoring
    BY <1>6 DEF Restoring
  <1>10. WaitersWait'
    BY <1>1, <1>6, SameWaiters
  <1>11. ReadersRead'
    <2>1. \A i \in DOMAIN ops : IsRead(i) => ops[i].by \in KeyCalls
      BY DEF IsRead
    <2>2. \A i \in 1..(N - 1) : i + 1 # 1 /\ 1 \in 1..N
      BY <1>2
    <2>3. ASSUME NEW i \in DOMAIN ops', IsRead(i)' PROVE keyCall'[ops'[i].by].pc = "get"
      <3>1. IsRead(1) => ops[1].by # ops[i + 1].by
        BY <1>2, <1>3, <1>5, <2>2, <2>3 DEF ReadersRead
      <3>2. ops'[i].by \in KeyCalls /\ keyCall[ops'[i].by].pc = "get" /\ ops'[i].by = ops[i + 1].by
        BY <1>2, <1>3, <1>5, <2>1, <2>3 DEF ReadersRead
      <3> QED BY <1>6, <3>1, <3>2
    <2>4. ASSUME NEW i \in DOMAIN ops', NEW j \in DOMAIN ops', IsRead(i)', IsRead(j)', ops'[i].by = ops'[j].by
          PROVE  i = j
      <3>1. i + 1 = j + 1
        BY <1>2, <1>3, <1>5, <2>4 DEF ReadersRead
      <3> QED BY <1>2, <3>1
    <2> QED BY <2>3, <2>4 DEF ReadersRead
  <1>12. WorkerAttempted'
    BY <1>1, <1>6 DEF WorkerAttempted
  <1>13. ActivitiesPassed'
    <2>1. record'.activity <= clock
      <3>1. record' = record \/ (ops[1].op = "set" /\ record' = ops[1].record) \/ record' = NoRecord
        BY <1>1, <1>2, OpTyped
      <3>2. 0 <= clock /\ 1 \in DOMAIN ops
        BY <1>2 DEF KsTypeOK
      <3> QED BY <3>1, <3>2 DEF ActivitiesPassed, NoRecord
    <2>2. \A i \in DOMAIN ops' : ops'[i].op = "set" => ops'[i].record.activity <= clock
      BY <1>2, <1>3 DEF ActivitiesPassed
    <2>3. \A d \in KeyCalls :
            /\ keyCall'[d].pc = "persist" => keyCall'[d].snapshot.activity <= clock
            /\ keyCall'[d].pc = "restore" => keyCall'[d].found.activity <= clock
      BY <1>6 DEF ActivitiesPassed
    <2> QED BY <1>1, <2>1, <2>2, <2>3 DEF ActivitiesPassed
  <1>14. DistrustErases' /\ KeyIsOfSession' /\ DroppedKeyErases'
    BY <1>1, <1>4, <1>8 DEF DistrustErases, KeyIsOfSession, DroppedKeyErases
  <1>15. \A d \in KeyCalls : \A q : WillFind(d, q) <=> WillFind(d, q)'
    <2>1. ASSUME NEW d \in KeyCalls, NEW q, WillFind(d, q) PROVE WillFind(d, q)'
      BY <1>3, <1>6, <2>1 DEF WillFind, IsRead
    <2>2. ASSUME NEW d \in KeyCalls, NEW q, WillFind(d, q)' PROVE WillFind(d, q)
      <3>1. CASE Reading(d, q)'
        BY <1>3, <3>1 DEF WillFind
      <3>2. CASE keyCall'[d].pc = "restore" /\ q = keyCall'[d].found /\ keyCall'[d] = keyCall[d]
        BY <3>2 DEF WillFind
      <3>3. CASE keyCall'[d].pc = "restore" /\ q = keyCall'[d].found /\ IsRead(1) /\ ops[1].by = d /\ keyCall'[d].found = record
        <4>1. After(0, q)
          BY <3>3 DEF After
        <4>2. \E i \in DOMAIN ops : IsGet(i) /\ ops[i].by = d /\ After(i - 1, q)
          <5>1. 1 \in DOMAIN ops /\ 1 - 1 = 0 /\ IsGet(1)
            BY <1>2, <3>3 DEF IsRead
          <5> QED BY <3>3, <4>1, <5>1
        <4> QED BY <4>2 DEF WillFind, Reading
      <3> QED BY <1>6, <2>2, <3>1, <3>2, <3>3 DEF WillFind
    <2> QED BY <2>1, <2>2
  <1>16. LockErases' /\ RestoresAgree' /\ FinalIsLatest'
    BY <1>1, <1>4, <1>8, <1>15 DEF LockErases, RestoresAgree, FinalIsLatest
  <1>17. waiters # <<>> => (LastWrites(session)' <=> LastWrites(session))
    <2>1. waiters # <<>> => LastWaiter \in KeyCalls /\ keyCall[LastWaiter].pc # "get"
      BY LenTyped DEF LastWaiter, WaitersWait, KsTypeOK
    <2> QED BY <1>1, <1>7, <2>1 DEF LastWrites, LastWaiter
  <1>18. LastWrites(session)' <=> LastWrites(session)
    BY <1>1, <1>17 DEF LastWrites
  <1>19. OpenWrites' /\ OpenIsRecorded'
    BY <1>1, <1>4, <1>8, <1>18 DEF OpenWrites, OpenIsRecorded
  <1>20. ReadsAreTogether'
    <2>1. ASSUME NEW i \in DOMAIN ops', NEW j \in DOMAIN ops', IsRead(i)', IsRead(j)', NEW k \in i..j PROVE IsGet(k)'
      <3>1. k \in 1..(N - 1) /\ k + 1 \in (i + 1)..(j + 1) /\ i + 1 \in 1..N /\ j + 1 \in 1..N
        BY <1>2, <2>1
      <3> QED BY <1>2, <1>3, <1>5, <2>1, <3>1 DEF ReadsAreTogether, IsGet
    <2>2. ASSUME NEW d \in KeyCalls, NEW j \in DOMAIN ops', keyCall'[d].pc = "restore", IsRead(j)', NEW k \in 1..j
          PROVE  IsGet(k)'
      <3>1. k \in 1..(N - 1) /\ k + 1 \in 1..(j + 1) /\ 1 \in 1..N /\ j + 1 \in 1..N
        BY <1>2, <2>2
      <3>2. IsGet(k + 1)
        BY <1>2, <1>5, <1>6, <2>2, <3>1 DEF ReadsAreTogether
      <3> QED BY <1>3, <3>1, <3>2 DEF IsGet
    <2>3. ASSUME Restoring PROVE \A d \in KeyCalls : keyCall'[d].pc # "restore" /\ \A i \in DOMAIN ops' : ~IsRead(i)'
      <3>1. \A d \in KeyCalls : keyCall[d].pc # "restore" /\ \A i \in DOMAIN ops : ~IsRead(i)
        BY <1>1, <2>3, NoneWaits
      <3>2. 1 \in DOMAIN ops
        BY <1>2
      <3> QED BY <1>2, <1>3, <1>5, <1>6, <3>1, <3>2
    <2>4. Restoring => \E d \in KeyCalls : TRUE
      BY DEF Restoring
    <2> QED BY <1>9, <2>1, <2>2, <2>3, <2>4 DEF ReadsAreTogether
  <1>21. \A q : Candidate(q)' => Candidate(q)
    <2>1. \A i \in 1..(N - 1) : (i + 1) - 1 = i
      BY <1>2
    <2>2. IsRead(1) => \E i \in DOMAIN ops : IsRead(i) /\ HeldBefore(i - 1, record)
      BY <1>2 DEF HeldBefore
    <2>3. \A d \in KeyCalls : keyCall'[d].pc = "restore" =>
            \/ keyCall[d].pc = "restore" /\ keyCall[d].found = keyCall'[d].found
            \/ IsRead(1) /\ keyCall'[d].found = record
      BY <1>6
    <2> QED BY <1>1, <1>2, <1>3, <1>5, <1>9, <2>1, <2>2, <2>3 DEF Candidate
  <1>22. CandidatesAreFloor'
    BY <1>1, <1>6, <1>21 DEF CandidatesAreFloor
  <1> QED BY <1>10, <1>11, <1>12, <1>13, <1>14, <1>16, <1>19, <1>20, <1>22

-------------------------------------------------------------------------------
(* The queue of those that wait for the storage                            *)

LEMMA TailWaiters ==
  ASSUME KsTypeOK, WaitersWait, waiters # <<>>, NEW c \in KeyCalls, c = Head(waiters),
         waiters' = Tail(waiters), NEW x, x.pc \notin {"trust", "persist"},
         keyCall' = [keyCall EXCEPT ![c] = x]
  PROVE  /\ WaitersWait'
         /\ \A s : LastWrites(s) /\ (waiters' # <<>> \/ keyCall[c].pc = "trust") => LastWrites(s)'
         /\ waiters' # <<>> => waiters'[Len(waiters')] # c /\ waiters'[Len(waiters')] \in KeyCalls
         /\ \A d \in KeyCalls : d # c => keyCall'[d] = keyCall[d]
         /\ keyCall'[c] = x
  <1>1. PICK N \in Nat : N = Len(waiters) /\ N >= 1 /\ DOMAIN waiters = 1..N
    BY LenTyped DEF KsTypeOK
  <1>2. /\ Len(waiters') = N - 1 /\ DOMAIN waiters' = 1..(N - 1)
        /\ \A i \in 1..(N - 1) : waiters'[i] = waiters[i + 1] /\ i + 1 \in 1..N /\ i + 1 # 1
        /\ \A i \in 1..N : waiters[i] \in KeyCalls
        /\ waiters[1] = c
    BY <1>1 DEF KsTypeOK
  <1>3. \A i \in 1..(N - 1) : waiters'[i] # c /\ waiters'[i] \in KeyCalls
    BY <1>1, <1>2 DEF WaitersWait
  <1>4. keyCall'[c] = x /\ \A d \in KeyCalls : d # c => keyCall'[d] = keyCall[d]
    BY DEF KsTypeOK
  <1>5. \A i \in 1..(N - 1) : keyCall'[waiters'[i]] = keyCall[waiters[i + 1]]
    BY <1>2, <1>3, <1>4
  <1>6. \A i, j \in 1..(N - 1) : waiters'[i] = waiters'[j] => i = j
    <2>1. ASSUME NEW i \in 1..(N - 1), NEW j \in 1..(N - 1), waiters'[i] = waiters'[j] PROVE i = j
      <3>1. i + 1 = j + 1
        BY <1>1, <1>2, <2>1 DEF WaitersWait
      <3> QED BY <1>1, <3>1
    <2> QED BY <2>1
  <1>7. \A i \in 1..(N - 1) : keyCall'[waiters'[i]].pc \in {"trust", "persist"}
    BY <1>1, <1>2, <1>5 DEF WaitersWait
  <1>8. ASSUME NEW d \in KeyCalls, keyCall'[d].pc \in {"trust", "persist"}
        PROVE  \E i \in 1..(N - 1) : waiters'[i] = d
    <2>1. d # c /\ keyCall'[d] = keyCall[d]
      BY <1>4, <1>8
    <2>2. PICK j \in 1..N : waiters[j] = d
      BY <1>1, <1>8, <2>1 DEF WaitersWait
    <2>3. j - 1 \in 1..(N - 1) /\ (j - 1) + 1 = j
      BY <1>1, <1>2, <2>1, <2>2
    <2> QED BY <1>2, <2>2, <2>3
  <1>9. ASSUME NEW i \in 1..(N - 1), NEW j \in 1..(N - 1), keyCall'[waiters'[i]].pc = "persist", i < j
        PROVE  keyCall'[waiters'[j]].pc = "persist"
    <2>1. i + 1 < j + 1 /\ i + 1 \in 1..N /\ j + 1 \in 1..N
      BY <1>1, <1>9
    <2> QED BY <1>1, <1>5, <1>9, <2>1 DEF WaitersWait
  <1>10. WaitersWait'
    BY <1>2, <1>6, <1>7, <1>8, <1>9 DEF WaitersWait
  <1>11. ASSUME NEW s, LastWrites(s), waiters' # <<>> \/ keyCall[c].pc = "trust" PROVE LastWrites(s)'
    <2>1. N # 1
      <3>1. CASE waiters' # <<>>
        BY <1>2, <3>1 DEF KsTypeOK
      <3>2. CASE keyCall[c].pc = "trust"
        BY <1>1, <1>2, <1>11, <3>2 DEF LastWrites, LastWaiter
      <3> QED BY <1>11, <3>1, <3>2
    <2>2. PICK k \in 1..(N - 1) : k = N - 1 /\ k + 1 = N
      BY <1>1, <2>1
    <2>3. waiters'[k] = waiters[N] /\ keyCall'[waiters'[k]] = keyCall[waiters[N]]
      BY <1>2, <1>5, <2>2
    <2>4. waiters' # <<>>
      <3>1. Len(waiters') # 0
        BY <1>1, <1>2, <2>1
      <3> QED BY <3>1
    <2> QED BY <1>1, <1>2, <1>11, <2>2, <2>3, <2>4 DEF LastWrites, LastWaiter
  <1>12. waiters' # <<>> => waiters'[Len(waiters')] # c /\ waiters'[Len(waiters')] \in KeyCalls
    <2>1. waiters' # <<>> => N - 1 \in 1..(N - 1)
      BY <1>1, <1>2 DEF KsTypeOK
    <2> QED BY <1>2, <1>3, <2>1
  <1> QED BY <1>4, <1>10, <1>11, <1>12

LEMMA AppendWaiter ==
  ASSUME KsTypeOK, WaitersWait, NEW c \in KeyCalls, keyCall[c].pc \notin {"trust", "persist"},
         waiters' = Append(waiters, c), keyCall'[c].pc \in {"trust", "persist"},
         \A d \in KeyCalls : d # c => keyCall'[d] = keyCall[d],
         keyCall'[c].pc = "persist" \/ \A d \in KeyCalls : keyCall[d].pc # "persist"
  PROVE  WaitersWait' /\ waiters' # <<>> /\ waiters'[Len(waiters')] = c
  <1>1. PICK N \in Nat : N = Len(waiters) /\ DOMAIN waiters = 1..N
    BY LenTyped DEF KsTypeOK
  <1>2. /\ Len(waiters') = N + 1 /\ DOMAIN waiters' = 1..(N + 1) /\ waiters'[N + 1] = c
        /\ \A i \in 1..N : waiters'[i] = waiters[i] /\ waiters[i] \in KeyCalls
    BY <1>1 DEF KsTypeOK
  <1>3. \A i \in 1..(N + 1) : i \in 1..N \/ i = N + 1
    BY <1>1
  <1>4. \A d \in KeyCalls : d # c => keyCall'[d] = keyCall[d]
    OBVIOUS
  <1>5. \A i \in 1..N : waiters'[i] # c /\ keyCall'[waiters'[i]] = keyCall[waiters[i]]
    BY <1>1, <1>2, <1>4 DEF WaitersWait
  <1>6. \A i, j \in 1..(N + 1) : waiters'[i] = waiters'[j] => i = j
    BY <1>1, <1>2, <1>3, <1>5 DEF WaitersWait
  <1>7. \A i \in 1..(N + 1) : keyCall'[waiters'[i]].pc \in {"trust", "persist"}
    BY <1>1, <1>2, <1>3, <1>4, <1>5 DEF WaitersWait
  <1>8. \A d \in KeyCalls : keyCall'[d].pc \in {"trust", "persist"} => \E i \in 1..(N + 1) : waiters'[i] = d
    <2>1. N + 1 \in 1..(N + 1) /\ \A i \in 1..N : i \in 1..(N + 1)
      BY <1>1
    <2> QED BY <1>1, <1>2, <1>4, <2>1 DEF WaitersWait
  <1>9. ASSUME NEW i \in 1..(N + 1), NEW j \in 1..(N + 1), keyCall'[waiters'[i]].pc = "persist", i < j
        PROVE  keyCall'[waiters'[j]].pc = "persist"
    <2>1. i \in 1..N
      BY <1>1, <1>3, <1>9
    <2>2. keyCall[waiters[i]].pc = "persist" /\ keyCall'[c].pc = "persist"
      BY <1>2, <1>5, <1>9, <2>1
    <2> QED BY <1>1, <1>2, <1>3, <1>4, <1>5, <1>9, <2>1, <2>2 DEF WaitersWait
  <1>10. WaitersWait'
    BY <1>2, <1>6, <1>7, <1>8, <1>9 DEF WaitersWait
  <1>11. waiters' # <<>>
    BY <1>1, <1>2
  <1> QED BY <1>2, <1>4, <1>10, <1>11

-------------------------------------------------------------------------------
(* What a restore may bring back                                           *)

LEMMA FoundIsHeld ==
  ASSUME KsTypeOK, NEW n, NEW r, After(n, r), IsUsable(r)
  PROVE  HeldBefore(n, r)
  BY DEF After, HeldBefore, IsUsable, NoRecord

LEMMA FoundIsCandidate ==
  ASSUME KsTypeOK, NEW c \in KeyCalls, NEW r, WillFind(c, r), IsUsable(r)
  PROVE  Candidate(r)
  <1>1. CASE keyCall[c].pc = "restore" /\ r = keyCall[c].found
    BY <1>1 DEF Candidate
  <1>2. CASE Reading(c, r)
    BY <1>2, FoundIsHeld DEF Candidate, Reading, IsRead
  <1> QED BY <1>1, <1>2 DEF WillFind

LEMMA CandidatePassed ==
  ASSUME KsInv, NEW q, Candidate(q)
  PROVE  q.activity <= clock
  <1> USE DEF KsInv, KsSound, ActivitiesPassed
  <1>1. \A i \in DOMAIN ops : \A j \in 1..(i - 1) : j \in DOMAIN ops
    BY LenTyped
  <1> QED BY <1>1, LenTyped DEF Candidate, HeldBefore

LEMMA RestoreIsOnly ==
  ASSUME KsInv, NextTask, NEW c \in KeyCalls, keyCall[c].pc = "restore", NEW q, Candidate(q)
  PROVE  q = keyCall[c].found
  <1> USE DEF KsInv, KsSound
  <1>1. WillFind(c, keyCall[c].found) /\ keyCall[c].found \in Records \cup {NoRecord}
    BY CallTyped DEF WillFind
  <1>2. trusted # "pending" /\ ~Restoring
    BY NoneWaits
  <1>3. ASSUME NEW d \in KeyCalls, keyCall[d].pc = "restore", q = keyCall[d].found PROVE q = keyCall[c].found
    BY <1>1, <1>3, CallTyped DEF RestoresAgree, WillFind
  <1>4. ASSUME NEW i \in DOMAIN ops, IsRead(i), HeldBefore(i - 1, q) PROVE q = keyCall[c].found
    <2>1. PICK N \in Nat : N = Len(ops) /\ DOMAIN ops = 1..N
      BY LenTyped
    <2>2. \A k \in 1..(i - 1) : IsGet(k)
      BY <1>4, <2>1 DEF ReadsAreTogether
    <2>3. q = record
      BY <1>4, <2>2 DEF HeldBefore, IsGet
    <2>4. After(i - 1, record)
      BY <2>2 DEF After
    <2>5. WillFind(ops[i].by, record) /\ ops[i].by \in KeyCalls /\ record \in Records \cup {NoRecord}
      BY <1>4, <2>4 DEF WillFind, Reading, IsRead, KsTypeOK
    <2> QED BY <1>1, <2>3, <2>5 DEF RestoresAgree
  <1> QED BY <1>2, <1>3, <1>4 DEF Candidate

-------------------------------------------------------------------------------
\* A call ends or goes on and the session s, of the key raw, is recorded.
LEMMA WriteKeeps ==
  ASSUME KsInv, NextTask, NEW c \in KeyCalls, keyCall[c].pc \notin {"trust", "get", "persist"},
         NEW s \in Sessions, NEW raw \in Keys, trusted = "yes",
         session' = s, rawKey' = raw, attempted' = TRUE,
         keyCall' = [keyCall EXCEPT ![c] = Rest],
         ops' = Append(ops, [op |-> "set", record |-> RecordOf(s, raw)]),
         UNCHANGED <<trusted, waiters, record, clock>>,
         s.activity <= clock, \A q \in Records : Candidate(q) => s.activity >= q.activity
  PROVE  KsSound'
  <1> USE DEF KsInv, KsSound
  <1> DEFINE r0 == RecordOf(s, raw)
             set == [op |-> "set", record |-> r0]
  <1>0. /\ KsTypeOK /\ r0 \in Records /\ set \in StorageOps /\ set.op = "set" /\ set.record = r0
        /\ r0.activity = s.activity /\ IsUsable(r0) /\ s # Locked
    BY KeysAssumption DEF RecordOf, Records, Sessions, StorageOps, IsUsable, Locked
  <1>1. ops' = Append(ops, set)
    OBVIOUS
  <1> HIDE DEF r0, set
  <1>2. \A d \in KeyCalls : keyCall'[d] = keyCall[d] \/ (d = c /\ keyCall'[d].pc = "idle")
    BY DEF KsTypeOK, Rest
  <1>3. \A r : Final(r)' <=> r = r0
    BY <1>0, <1>1, IssueLeaves
  <1>4. /\ \A d, r : Reading(d, r)' <=> Reading(d, r)
        /\ DOMAIN ops' = DOMAIN ops \cup {Len(ops) + 1}
        /\ \A i \in DOMAIN ops : ops'[i] = ops[i]
        /\ ops'[Len(ops) + 1] = set
        /\ \A i \in DOMAIN ops : \A r : HeldBefore(i - 1, r)' <=> HeldBefore(i - 1, r)
    BY <1>0, <1>1, IssueReads
  <1>5. \A i \in DOMAIN ops' : IsRead(i)' => i \in DOMAIN ops /\ IsRead(i) /\ ops'[i] = ops[i]
    BY <1>0, <1>4 DEF IsRead, IsGet
  <1>6. \A d \in KeyCalls : keyCall[d].pc \notin {"trust", "persist"}
    BY NoneWaits
  <1>7. ~Restoring /\ ~Restoring' /\ waiters = <<>>
    BY <1>2, <1>6 DEF Restoring, NextTask
  <1>8. WaitersWait'
    BY <1>2, SameWaiters
  <1>9. ReadersRead'
    BY <1>0, <1>2, <1>5, SameReaders
  <1>10. WorkerAttempted' /\ DistrustErases' /\ KeyIsOfSession' /\ LockErases' /\ OpenWrites'
    BY <1>0, <1>2, <1>7 DEF WorkerAttempted, DistrustErases, KeyIsOfSession, LockErases, OpenWrites
  <1>11. ActivitiesPassed'
    BY <1>0, <1>2, <1>4 DEF ActivitiesPassed
  <1>12. DroppedKeyErases'
    BY KeysAssumption DEF DroppedKeyErases
  <1>13. OpenIsRecorded'
    BY <1>0, <1>3 DEF OpenIsRecorded, Sessions
  <1>14. ReadsAreTogether'
    BY <1>2, <1>4, <1>5, <1>7, LenTyped DEF ReadsAreTogether, IsGet
  <1>15. \A d \in KeyCalls : \A q : WillFind(d, q)' => WillFind(d, q)
    BY <1>2, <1>4 DEF WillFind
  <1>16. RestoresAgree'
    BY <1>15 DEF RestoresAgree
  <1>17. FinalIsLatest'
    BY <1>0, <1>3, <1>15, FoundIsCandidate DEF FinalIsLatest
  <1>18. \A q : Candidate(q)' => Candidate(q)
    BY <1>2, <1>4, <1>5, <1>7 DEF Candidate
  <1>19. CandidatesAreFloor'
    BY <1>2, <1>6, <1>18 DEF CandidatesAreFloor
  <1> QED BY <1>8, <1>9, <1>10, <1>11, <1>12, <1>13, <1>14, <1>16, <1>17, <1>19

\* A call opens or changes the session s and its record waits for the storage.
LEMMA WaitKeeps ==
  ASSUME KsInv, NextTask, NEW c \in KeyCalls, keyCall[c].pc \in {"idle", "import"},
         NEW s \in Sessions, trusted = "pending",
         session' = s, rawKey' # "none", attempted' = TRUE,
         waiters' = Append(waiters, c),
         keyCall' = [keyCall EXCEPT ![c] = [pc |-> "persist", snapshot |-> s]],
         UNCHANGED <<trusted, ops, record, clock>>,
         s.activity <= clock, \A q \in Records : Candidate(q) => s.activity >= q.activity
  PROVE  KsSound'
  <1> USE DEF KsInv, KsSound
  <1>0. KsTypeOK /\ s # Locked
    BY KeysAssumption DEF Sessions, Locked
  <1>1. /\ keyCall'[c].pc = "persist" /\ keyCall'[c].snapshot = s
        /\ \A d \in KeyCalls : d # c => keyCall'[d] = keyCall[d]
    BY DEF KsTypeOK
  <1>2. WaitersWait' /\ waiters' # <<>> /\ waiters'[Len(waiters')] = c
    BY <1>0, <1>1, AppendWaiter
  <1>3. \A r : (Final(r)' <=> Final(r)) /\ \A d : Reading(d, r)' <=> Reading(d, r)
    BY DEF Final, Reading, After, IsGet
  <1>4. \A i \in DOMAIN ops : IsRead(i)' <=> IsRead(i)
    BY DEF IsRead, IsGet
  <1>5. ReadersRead'
    <2>1. \A d \in KeyCalls : keyCall[d].pc = "get" => keyCall'[d] = keyCall[d]
      BY <1>1
    <2>2. \A i \in DOMAIN ops' : IsRead(i)' => i \in DOMAIN ops /\ IsRead(i) /\ ops'[i] = ops[i]
      BY <1>4
    <2> QED BY <1>0, <2>1, <2>2, SameReaders
  <1>6. WorkerAttempted'
    BY <1>1, <1>2 DEF WorkerAttempted
  <1>7. ActivitiesPassed'
    BY <1>1, <1>2 DEF ActivitiesPassed
  <1>8. LastWrites(s)'
    BY <1>1, <1>2 DEF LastWrites, LastWaiter, Sessions
  <1>9. DistrustErases' /\ KeyIsOfSession' /\ DroppedKeyErases' /\ LockErases' /\ OpenWrites' /\ OpenIsRecorded'
    BY <1>0, <1>8 DEF DistrustErases, KeyIsOfSession, DroppedKeyErases, LockErases, OpenWrites, OpenIsRecorded
  <1>10. \A d \in KeyCalls : keyCall[d].pc \notin {"get", "restore"} /\ keyCall'[d].pc \notin {"get", "restore"}
    BY <1>1, <1>2, NoneWaits
  <1>11. \A i \in DOMAIN ops : ~IsRead(i)
    BY <1>10 DEF ReadersRead, IsRead
  <1>12. ReadsAreTogether'
    BY <1>4, <1>10, <1>11 DEF ReadsAreTogether
  <1>13. \A d \in KeyCalls : \A q : WillFind(d, q)' => WillFind(d, q)
    BY <1>3, <1>10 DEF WillFind
  <1>14. RestoresAgree' /\ FinalIsLatest'
    BY <1>3, <1>13 DEF RestoresAgree, FinalIsLatest
  <1>15. \A q : Candidate(q)' => Candidate(q)
    <2>1. \A q : HeldBefore(Len(ops), q)' <=> HeldBefore(Len(ops), q)
      BY DEF HeldBefore
    <2> QED BY <1>4, <1>10, <1>11, <2>1 DEF Candidate
  <1>16. CandidatesAreFloor'
    BY <1>1, <1>2, <1>15 DEF CandidatesAreFloor
  <1> QED BY <1>2, <1>5, <1>6, <1>7, <1>9, <1>12, <1>14, <1>16

\* A call opens the session s, or goes on with it, and records nothing.
LEMMA OpenKeeps ==
  ASSUME KsInv, NextTask, NEW c \in KeyCalls, keyCall[c].pc \notin {"trust", "get", "persist"},
         NEW s \in Sessions, NEW raw \in Keys \cup {"none"},
         session' = s, rawKey' = raw, attempted' = TRUE,
         keyCall' = [keyCall EXCEPT ![c] = Rest],
         UNCHANGED <<trusted, waiters, ops, record, clock>>,
         s.activity <= clock, \A q \in Records : Candidate(q) => s.activity >= q.activity,
         trusted = "pending" => raw = "none",
         raw = "none" => \A r \in Records : Final(r) => ~IsUsable(r),
         \A r \in Records : Final(r) /\ IsUsable(r) => r.activity >= s.activity
  PROVE  KsSound'
  <1> USE DEF KsInv, KsSound
  <1>0. KsTypeOK /\ s # Locked
    BY KeysAssumption DEF Sessions, Locked
  <1>1. \A d \in KeyCalls : keyCall'[d] = keyCall[d] \/ (d = c /\ keyCall'[d].pc = "idle")
    BY DEF KsTypeOK, Rest
  <1>2. \A r : (Final(r)' <=> Final(r)) /\ \A d : Reading(d, r)' <=> Reading(d, r)
    BY DEF Final, Reading, After, IsGet
  <1>3. \A i \in DOMAIN ops : IsRead(i)' <=> IsRead(i)
    BY DEF IsRead, IsGet
  <1>4. WaitersWait'
    BY <1>1, SameWaiters
  <1>5. ReadersRead'
    <2>1. \A d \in KeyCalls : keyCall[d].pc = "get" => keyCall'[d] = keyCall[d]
      BY <1>1
    <2>2. \A i \in DOMAIN ops' : IsRead(i)' => i \in DOMAIN ops /\ IsRead(i) /\ ops'[i] = ops[i]
      BY <1>3
    <2> QED BY <1>0, <2>1, <2>2, SameReaders
  <1>6. WorkerAttempted' /\ ActivitiesPassed'
    BY <1>1 DEF WorkerAttempted, ActivitiesPassed
  <1>7. DistrustErases' /\ KeyIsOfSession' /\ DroppedKeyErases' /\ LockErases' /\ OpenIsRecorded'
    BY <1>0, <1>2 DEF DistrustErases, KeyIsOfSession, DroppedKeyErases, LockErases, OpenIsRecorded
  <1>8. OpenWrites'
    BY DEF OpenWrites, NextTask
  <1>9. Restoring' <=> Restoring
    BY <1>1 DEF Restoring
  <1>10. ReadsAreTogether'
    BY <1>1, <1>3, <1>9 DEF ReadsAreTogether, IsGet
  <1>11. \A d \in KeyCalls : \A q : WillFind(d, q)' => WillFind(d, q)
    BY <1>1, <1>2 DEF WillFind
  <1>12. RestoresAgree' /\ FinalIsLatest'
    BY <1>2, <1>11 DEF RestoresAgree, FinalIsLatest
  <1>13. \A q : Candidate(q)' => Candidate(q)
    BY <1>1, <1>3, <1>9 DEF Candidate, HeldBefore
  <1>14. CandidatesAreFloor'
    BY <1>1, <1>13 DEF CandidatesAreFloor
  <1> QED BY <1>4, <1>5, <1>6, <1>7, <1>8, <1>10, <1>12, <1>14

\* A call ends for want of a record, or of a trusted storage.
LEMMA EndKeeps ==
  ASSUME KsInv, NEW c \in KeyCalls, keyCall' = [keyCall EXCEPT ![c] = Rest],
         UNCHANGED <<session, rawKey, trusted, ops, record, clock>>,
         \/ /\ NextTask /\ keyCall[c].pc = "restore" /\ keyCall[c].found = NoRecord
            /\ UNCHANGED <<attempted, waiters>>
         \/ /\ trusted = "no" /\ waiters # <<>> /\ c = Head(waiters) /\ waiters' = Tail(waiters)
            /\ keyCall[c].pc \in {"trust", "persist"} /\ attempted' \in {attempted, TRUE}
  PROVE  KsSound'
  <1> USE DEF KsInv, KsSound
  <1>0. KsTypeOK /\ Rest.pc = "idle"
    BY DEF Rest
  <1>1. /\ \A d \in KeyCalls : keyCall'[d] = keyCall[d] \/ (d = c /\ keyCall'[d].pc = "idle")
        /\ \A d \in KeyCalls : d # c => keyCall'[d] = keyCall[d]
    BY DEF KsTypeOK, Rest
  <1>2. \A r : (Final(r)' <=> Final(r)) /\ \A d : Reading(d, r)' <=> Reading(d, r)
    BY DEF Final, Reading, After, IsGet
  <1>3. \A i \in DOMAIN ops : IsRead(i)' <=> IsRead(i)
    BY DEF IsRead, IsGet
  <1>4. WaitersWait'
    <2>1. CASE UNCHANGED waiters /\ keyCall[c].pc = "restore"
      BY <1>1, <2>1, SameWaiters
    <2>2. CASE waiters # <<>> /\ c = Head(waiters) /\ waiters' = Tail(waiters)
      BY <1>0, <2>2, TailWaiters
    <2> QED BY <2>1, <2>2
  <1>5. ReadersRead'
    <2>1. \A d \in KeyCalls : keyCall[d].pc = "get" => keyCall'[d] = keyCall[d]
      BY <1>1
    <2>2. \A i \in DOMAIN ops' : IsRead(i)' => i \in DOMAIN ops /\ IsRead(i) /\ ops'[i] = ops[i]
      BY <1>3
    <2> QED BY <1>0, <2>1, <2>2, SameReaders
  <1>6. WorkerAttempted' /\ ActivitiesPassed'
    BY <1>1 DEF WorkerAttempted, ActivitiesPassed
  <1>7. Importing' <=> Importing
    BY <1>1 DEF Importing
  <1>8. DistrustErases' /\ KeyIsOfSession' /\ DroppedKeyErases'
    BY <1>2, <1>7 DEF DistrustErases, KeyIsOfSession, DroppedKeyErases
  <1>9. \A d \in KeyCalls : \A q : WillFind(d, q)' => WillFind(d, q)
    BY <1>1, <1>2 DEF WillFind
  <1>10. LockErases' /\ OpenWrites' /\ OpenIsRecorded'
    <2>1. CASE trusted = "no"
      BY <1>2, <2>1 DEF DistrustErases, LockErases, OpenWrites, OpenIsRecorded
    <2>2. CASE /\ NextTask /\ keyCall[c].pc = "restore" /\ keyCall[c].found = NoRecord
               /\ UNCHANGED <<attempted, waiters>>
      <3>1. \A d \in KeyCalls : \A q : WillFind(d, q) /\ IsUsable(q) => WillFind(d, q)'
        <4>1. ASSUME NEW q, Reading(c, q) PROVE FALSE
          BY <2>2, <4>1 DEF Reading, ReadersRead, IsRead
        <4>2. ~IsUsable(NoRecord)
          BY DEF IsUsable, NoRecord
        <4> QED BY <1>1, <1>2, <2>2, <4>2 DEF WillFind
      <3>2. LastWrites(session)' <=> LastWrites(session)
        <4>1. waiters # <<>> => LastWaiter \in KeyCalls /\ keyCall[LastWaiter].pc # "restore"
          BY LenTyped DEF LastWaiter, WaitersWait, KsTypeOK
        <4> QED BY <1>1, <2>2, <4>1 DEF LastWrites, LastWaiter
      <3> QED BY <1>2, <1>7, <2>2, <3>1, <3>2 DEF LockErases, OpenWrites, OpenIsRecorded
    <2> QED BY <2>1, <2>2
  <1>11. Restoring' => Restoring
    BY <1>1 DEF Restoring
  <1>12. ReadsAreTogether'
    BY <1>1, <1>3, <1>11 DEF ReadsAreTogether, IsGet
  <1>13. RestoresAgree' /\ FinalIsLatest'
    BY <1>2, <1>9 DEF RestoresAgree, FinalIsLatest
  <1>14. \A q : Candidate(q)' => Candidate(q)
    BY <1>1, <1>3, <1>11 DEF Candidate, HeldBefore
  <1>15. CandidatesAreFloor'
    BY <1>1, <1>14 DEF CandidatesAreFloor
  <1> QED BY <1>4, <1>5, <1>6, <1>8, <1>10, <1>12, <1>13, <1>15

\* The first messages of a worker wait for the storage, to restore the session.
LEMMA TrustWaitKeeps ==
  ASSUME KsInv, NextTask, NEW c \in KeyCalls, keyCall[c] = Rest, NEW request,
         session = Locked, ~attempted,
         keyCall' = [keyCall EXCEPT ![c] = [pc |-> "trust", request |-> request]],
         waiters' = Append(waiters, c),
         UNCHANGED <<session, rawKey, attempted, trusted, ops, record, clock>>
  PROVE  KsSound'
  <1> USE DEF KsInv, KsSound
  <1>0. KsTypeOK /\ keyCall[c].pc = "idle"
    BY DEF Rest
  <1>1. /\ keyCall'[c].pc = "trust"
        /\ \A d \in KeyCalls : d # c => keyCall'[d] = keyCall[d]
    BY DEF KsTypeOK
  <1>2. \A d \in KeyCalls : keyCall[d].pc \notin {"get", "restore", "persist"}
    BY DEF WorkerAttempted
  <1>3. \A d \in KeyCalls : keyCall'[d].pc \notin {"get", "restore", "persist"}
    BY <1>1, <1>2
  <1>4. WaitersWait'
    BY <1>0, <1>1, <1>2, AppendWaiter
  <1>5. \A r : (Final(r)' <=> Final(r)) /\ \A d : Reading(d, r)' <=> Reading(d, r)
    BY DEF Final, Reading, After, IsGet
  <1>6. \A i \in DOMAIN ops : IsRead(i)' <=> IsRead(i)
    BY DEF IsRead, IsGet
  <1>7. \A i \in DOMAIN ops : ~IsRead(i)
    BY <1>2 DEF ReadersRead, IsRead
  <1>8. ReadersRead' /\ ReadsAreTogether'
    BY <1>3, <1>6, <1>7 DEF ReadersRead, ReadsAreTogether
  <1>9. WorkerAttempted' /\ ActivitiesPassed'
    BY <1>3 DEF WorkerAttempted, ActivitiesPassed
  <1>10. Importing' <=> Importing
    BY <1>0, <1>1 DEF Importing
  <1>11. DistrustErases' /\ KeyIsOfSession' /\ DroppedKeyErases' /\ LockErases' /\ OpenWrites' /\ OpenIsRecorded'
    BY <1>5, <1>10 DEF DistrustErases, KeyIsOfSession, DroppedKeyErases, LockErases, OpenWrites, OpenIsRecorded
  <1>12. \A d \in KeyCalls : \A q : ~WillFind(d, q)'
    <2>1. \A d \in KeyCalls : \A q : ~Reading(d, q)
      BY <1>7 DEF Reading, IsRead
    <2> QED BY <1>3, <1>5, <2>1 DEF WillFind
  <1>13. RestoresAgree' /\ FinalIsLatest'
    BY <1>12 DEF RestoresAgree, FinalIsLatest
  <1>14. CandidatesAreFloor'
    BY <1>3 DEF CandidatesAreFloor
  <1> QED BY <1>4, <1>8, <1>9, <1>11, <1>13, <1>14

LEMMA TrustKeeps ==
  ASSUME KsInv, trusted = "pending", trusted' = "yes",
         UNCHANGED <<session, rawKey, attempted, waiters, keyCall, ops, record, clock>>
  PROVE  KsSound'
  <1> USE DEF KsInv, KsSound
  <1>0. KsTypeOK
    OBVIOUS
  <1>1. \A r : (Final(r)' <=> Final(r)) /\ \A d : Reading(d, r)' <=> Reading(d, r)
    BY DEF Final, Reading, After, IsGet
  <1>2. \A i \in DOMAIN ops : (IsRead(i)' <=> IsRead(i)) /\ (IsGet(i)' <=> IsGet(i))
    BY DEF IsRead, IsGet
  <1>3. (Importing' <=> Importing) /\ (Restoring' <=> Restoring) /\ (LastWrites(session)' <=> LastWrites(session))
    BY DEF Importing, Restoring, LastWrites, LastWaiter
  <1>4. \A d \in KeyCalls : \A q : WillFind(d, q)' <=> WillFind(d, q)
    BY <1>1 DEF WillFind
  <1>5. WaitersWait'
    BY SameWaiters
  <1>6. ReadersRead'
    BY <1>2 DEF ReadersRead
  <1>7. WorkerAttempted' /\ ActivitiesPassed'
    BY DEF WorkerAttempted, ActivitiesPassed
  <1>8. DistrustErases' /\ KeyIsOfSession' /\ DroppedKeyErases' /\ OpenWrites' /\ OpenIsRecorded'
    BY <1>1, <1>3 DEF DistrustErases, KeyIsOfSession, DroppedKeyErases, OpenWrites, OpenIsRecorded
  <1>9. LockErases' /\ RestoresAgree' /\ FinalIsLatest'
    BY <1>1, <1>3, <1>4 DEF LockErases, RestoresAgree, FinalIsLatest
  <1>10. ReadsAreTogether'
    BY <1>2, <1>3 DEF ReadsAreTogether, IsGet
  <1>11. \A q : Candidate(q)' => Candidate(q)
    BY <1>2, <1>3 DEF Candidate, HeldBefore
  <1>12. CandidatesAreFloor'
    BY <1>11 DEF CandidatesAreFloor
  <1> QED BY <1>5, <1>6, <1>7, <1>8, <1>9, <1>10, <1>12

\* A restore asks for the record: it will find the final one.
LEMMA ReadKeeps ==
  ASSUME KsInv, NEW c \in KeyCalls, RestoreTrusted(c), trusted = "yes"
  PROVE  KsSound'
  <1> USE DEF KsInv, KsSound
  <1> DEFINE get == [op |-> "get", by |-> c]
  <1>0. KsTypeOK /\ get \in StorageOps /\ get.op = "get" /\ get.by = c
    BY DEF StorageOps
  <1>1. /\ waiters # <<>> /\ c = Head(waiters) /\ keyCall[c].pc = "trust" /\ attempted' = TRUE
        /\ waiters' = Tail(waiters) /\ ops' = Append(ops, get)
        /\ keyCall' = [keyCall EXCEPT ![c] = [pc |-> "get", request |-> keyCall[c].request]]
        /\ UNCHANGED <<session, rawKey, trusted, record, clock>>
    BY DEF RestoreTrusted, Issue, At
  <1> HIDE DEF get
  <1>2. /\ keyCall'[c].pc = "get"
        /\ \A d \in KeyCalls : d # c => keyCall'[d] = keyCall[d]
    BY <1>1 DEF KsTypeOK
  <1>3. /\ WaitersWait'
        /\ \A s : LastWrites(s) => LastWrites(s)'
    BY <1>0, <1>1, TailWaiters
  <1>4. \A r : Final(r)' <=> Final(r)
    BY <1>0, <1>1, IssueLeaves
  <1>5. PICK N \in Nat : N = Len(ops) /\ DOMAIN ops = 1..N
    BY LenTyped
  <1>6. /\ \A d, r : Reading(d, r)' <=> Reading(d, r) \/ (c = d /\ Final(r))
        /\ DOMAIN ops' = DOMAIN ops \cup {N + 1}
        /\ \A i \in DOMAIN ops : ops'[i] = ops[i]
        /\ ops'[N + 1] = get
        /\ \A i \in DOMAIN ops : \A r : HeldBefore(i - 1, r)' <=> HeldBefore(i - 1, r)
        /\ \A r : \A i \in DOMAIN ops' : HeldBefore(i - 1, r)' => HeldBefore(Len(ops), r)
        /\ \A r : HeldBefore(Len(ops), r)' => HeldBefore(Len(ops), r)
    BY <1>0, <1>1, <1>5, IssueReads
  <1>7. \A i \in DOMAIN ops : (IsRead(i)' <=> IsRead(i)) /\ (IsGet(i)' <=> IsGet(i))
    BY <1>6 DEF IsRead, IsGet
  <1>8. \A i \in DOMAIN ops' : i \in DOMAIN ops \/ (i = N + 1 /\ ops'[i].by = c /\ IsGet(i)')
    BY <1>0, <1>6 DEF IsGet
  <1>9. /\ Restoring /\ \A d \in KeyCalls : keyCall[d].pc # "restore" /\ keyCall'[d].pc # "restore"
        /\ \A i \in DOMAIN ops : IsRead(i) => \A k \in i..N : IsGet(k)
    BY <1>1, <1>2, <1>5 DEF Restoring, ReadsAreTogether
  <1>10. \A i \in DOMAIN ops : IsRead(i) => ops[i].by \in KeyCalls /\ keyCall[ops[i].by].pc = "get" /\ ops[i].by # c
    BY <1>1 DEF IsRead, ReadersRead
  <1>11. ReadersRead'
    <2>1. ASSUME NEW i \in DOMAIN ops', IsRead(i)' PROVE keyCall'[ops'[i].by].pc = "get"
      BY <1>2, <1>6, <1>7, <1>8, <1>10, <2>1
    <2>2. ASSUME NEW i \in DOMAIN ops', NEW j \in DOMAIN ops', IsRead(i)', IsRead(j)', ops'[i].by = ops'[j].by
          PROVE  i = j
      BY <1>6, <1>7, <1>8, <1>10, <2>2 DEF ReadersRead
    <2> QED BY <2>1, <2>2 DEF ReadersRead
  <1>12. WorkerAttempted'
    BY <1>1, <1>2 DEF WorkerAttempted
  <1>13. ActivitiesPassed'
    <2>1. \A i \in DOMAIN ops' : ops'[i].op = "set" => i \in DOMAIN ops /\ ops'[i] = ops[i]
      BY <1>0, <1>6
    <2> QED BY <1>1, <1>2, <2>1 DEF ActivitiesPassed
  <1>14. Importing' <=> Importing
    BY <1>1, <1>2 DEF Importing
  <1>15. DistrustErases' /\ KeyIsOfSession' /\ DroppedKeyErases'
    BY <1>1, <1>4, <1>14 DEF DistrustErases, KeyIsOfSession, DroppedKeyErases
  <1>16. OpenWrites' /\ OpenIsRecorded'
    BY <1>1, <1>3, <1>4, <1>14 DEF OpenWrites, OpenIsRecorded, LastWrites
  <1>17. LockErases'
    BY <1>4, <1>6 DEF LockErases, WillFind
  <1>18. ReadsAreTogether'
    <2>1. ASSUME NEW i \in DOMAIN ops', NEW j \in DOMAIN ops', IsRead(i)', NEW k \in i..j PROVE IsGet(k)'
      <3>1. k \in DOMAIN ops' /\ (k \in DOMAIN ops => i \in DOMAIN ops /\ k \in i..N)
        BY <1>5, <1>6
      <3> QED BY <1>7, <1>8, <1>9, <2>1, <3>1
    <2>2. Len(ops') \in DOMAIN ops' \/ DOMAIN ops' = {}
      BY <1>0, <1>1, <1>5, <1>6, IssueLeaves
    <2> QED BY <1>9, <2>1, <2>2 DEF ReadsAreTogether
  <1>19. ASSUME NEW d \in KeyCalls, NEW q, NEW r, Reading(d, q), Final(r) PROVE q = r
    <2>1. PICK i \in 1..N : IsRead(i) /\ After(i - 1, q)
      BY <1>5, <1>19 DEF Reading, IsRead
    <2>2. PICK m \in 0..N : m = i - 1 /\ m + 1 = i
      <3>1. i - 1 \in 0..N /\ (i - 1) + 1 = i
        BY <1>5
      <3> QED BY <3>1
    <2>3. \A k \in (m + 1)..N : IsGet(k)
      BY <1>5, <1>9, <2>1, <2>2
    <2> QED BY <1>0, <1>5, <1>19, <2>1, <2>2, <2>3, TogetherSame DEF Final
  <1>20. \A d \in KeyCalls : \A q : WillFind(d, q)' => Reading(d, q) \/ Final(q)
    BY <1>6, <1>9 DEF WillFind
  <1>21. \A q, r : Final(q) /\ Final(r) => q = r
    BY <1>0, FinalIsOne
  <1>22. RestoresAgree'
    BY <1>19, <1>20, <1>21 DEF RestoresAgree, WillFind
  <1>23. FinalIsLatest'
    <2>1. \A d \in KeyCalls : \A q, r : WillFind(d, q)' /\ Final(r) => q = r
      BY <1>19, <1>20, <1>21
    <2>2. \A q \in Records : q.activity >= q.activity
      BY DEF Records
    <2> QED BY <1>4, <2>1, <2>2 DEF FinalIsLatest
  <1>24. \A q : Candidate(q)' => Candidate(q)
    BY <1>1, <1>6, <1>9 DEF Candidate
  <1>25. CandidatesAreFloor'
    BY <1>1, <1>2, <1>24 DEF CandidatesAreFloor
  <1> QED BY <1>3, <1>11, <1>12, <1>13, <1>15, <1>16, <1>17, <1>18, <1>22, <1>23, <1>25

\* A snapshot that waited is written, with the key of now: no restore waits any more.
LEMMA LateWriteKeeps ==
  ASSUME KsInv, NEW c \in KeyCalls, PersistTrusted(c), trusted = "yes"
  PROVE  KsSound'
  <1> USE DEF KsInv, KsSound
  <1> DEFINE r0 == RecordOf(keyCall[c].snapshot, rawKey)
             set == [op |-> "set", record |-> r0]
  <1>1. /\ waiters # <<>> /\ c = Head(waiters) /\ keyCall[c].pc = "persist"
        /\ waiters' = Tail(waiters) /\ ops' = Append(ops, set)
        /\ keyCall' = [keyCall EXCEPT ![c] = Rest]
        /\ UNCHANGED <<session, rawKey, attempted, trusted, record, clock>>
    BY DEF PersistTrusted, Issue, EndKeyCall, At
  <1>0. /\ KsTypeOK /\ r0 \in Records /\ set \in StorageOps /\ set.op = "set" /\ set.record = r0
        /\ r0.activity = keyCall[c].snapshot.activity /\ (IsUsable(r0) <=> rawKey # "none")
        /\ keyCall[c].snapshot \in Sessions
    BY <1>1, CallTyped DEF RecordOf, Records, Sessions, StorageOps, IsUsable, KsTypeOK
  <1> HIDE DEF r0, set
  <1>2. /\ keyCall'[c].pc = "idle"
        /\ \A d \in KeyCalls : d # c => keyCall'[d] = keyCall[d]
    BY <1>1 DEF KsTypeOK, Rest
  <1>3. /\ WaitersWait'
        /\ \A s : LastWrites(s) /\ waiters' # <<>> => LastWrites(s)'
    BY <1>0, <1>1, TailWaiters DEF Rest
  <1>4. \A r : Final(r)' <=> r = r0
    BY <1>0, <1>1, IssueLeaves
  <1>5. /\ \A d, r : Reading(d, r)' <=> Reading(d, r)
        /\ DOMAIN ops' = DOMAIN ops \cup {Len(ops) + 1}
        /\ \A i \in DOMAIN ops : ops'[i] = ops[i]
        /\ ops'[Len(ops) + 1] = set
        /\ \A i \in DOMAIN ops : \A r : HeldBefore(i - 1, r)' <=> HeldBefore(i - 1, r)
    BY <1>0, <1>1, IssueReads
  <1>6. \A i \in DOMAIN ops' : IsRead(i)' => i \in DOMAIN ops /\ IsRead(i) /\ ops'[i] = ops[i]
    BY <1>0, <1>5 DEF IsRead, IsGet
  <1>7. ~Restoring /\ ~Restoring'
    <2>1. \A d \in KeyCalls : keyCall[d].pc # "trust"
      <3> SUFFICES ASSUME NEW d \in KeyCalls, keyCall[d].pc = "trust" PROVE FALSE
        OBVIOUS
      <3>1. PICK i \in DOMAIN waiters : waiters[i] = d
        BY DEF WaitersWait
      <3>2. 1 \in DOMAIN waiters /\ waiters[1] = c
        BY <1>1 DEF KsTypeOK
      <3>3. i = 1 \/ 1 < i
        BY <3>1, LenTyped
      <3> QED BY <1>1, <3>1, <3>2, <3>3 DEF WaitersWait
    <2> QED BY <1>2, <2>1 DEF Restoring
  <1>8. ReadersRead'
    BY <1>0, <1>1, <1>2, <1>6, SameReaders
  <1>9. WorkerAttempted'
    BY <1>1, <1>2 DEF WorkerAttempted
  <1>10. ActivitiesPassed'
    BY <1>0, <1>1, <1>2, <1>5 DEF ActivitiesPassed
  <1>11. Importing' <=> Importing
    BY <1>1, <1>2 DEF Importing
  <1>12. DistrustErases' /\ KeyIsOfSession' /\ DroppedKeyErases'
    BY <1>0, <1>1, <1>4, <1>11 DEF DistrustErases, KeyIsOfSession, DroppedKeyErases
  <1>13. LockErases'
    BY <1>0, <1>1, <1>4, <1>11 DEF LockErases, KeyIsOfSession
  <1>14. OpenWrites'
    BY <1>1, <1>3, <1>11 DEF OpenWrites
  <1>15. OpenIsRecorded'
    <2> SUFFICES ASSUME session # Locked, ~Importing, rawKey # "none"
                 PROVE  LastWrites(session)' \/ r0.activity >= session.activity
      BY <1>0, <1>1, <1>4, <1>11 DEF OpenIsRecorded
    <2>1. LastWrites(session)
      BY <1>1 DEF OpenWrites
    <2>2. CASE waiters' # <<>>
      BY <1>1, <1>3, <2>1, <2>2 DEF LastWrites
    <2>3. CASE waiters' = <<>>
      <3>1. LastWaiter = c
        BY <1>1, <2>3 DEF KsTypeOK, LastWaiter
      <3> QED BY <1>0, <2>1, <3>1 DEF LastWrites
    <2> QED BY <2>2, <2>3
  <1>16. ReadsAreTogether'
    <2>1. \A d \in KeyCalls : keyCall'[d].pc = "restore" => keyCall[d].pc = "restore"
      BY <1>2
    <2> QED BY <1>5, <1>6, <1>7, <2>1, LenTyped DEF ReadsAreTogether, IsGet
  <1>17. \A d \in KeyCalls : \A q : WillFind(d, q)' => WillFind(d, q)
    BY <1>1, <1>2, <1>5 DEF WillFind
  <1>18. RestoresAgree'
    BY <1>17 DEF RestoresAgree
  <1>19. FinalIsLatest'
    <2>1. \A q \in Records : Candidate(q) => r0.activity >= q.activity
      BY <1>0, <1>1 DEF CandidatesAreFloor
    <2> QED BY <1>0, <1>4, <1>17, <2>1, FoundIsCandidate DEF FinalIsLatest
  <1>20. \A q : Candidate(q)' => Candidate(q)
    BY <1>1, <1>2, <1>5, <1>6, <1>7 DEF Candidate
  <1>21. CandidatesAreFloor'
    BY <1>1, <1>2, <1>20 DEF CandidatesAreFloor
  <1> QED BY <1>3, <1>8, <1>9, <1>10, <1>12, <1>13, <1>14, <1>15, <1>16, <1>18, <1>19, <1>21

\* An unlock begins, its key is exported, time passes: nothing is issued.
LEMMA QuietKeeps ==
  ASSUME KsInv, NextTask,
         UNCHANGED <<session, attempted, trusted, waiters, record, ops>>,
         clock' \in {clock, clock + 1},
         \/ UNCHANGED <<keyCall, rawKey>>
         \/ \E c \in KeyCalls :
              /\ \A d \in KeyCalls : d # c => keyCall'[d] = keyCall[d]
              /\ \/ keyCall[c] = Rest /\ keyCall'[c].pc = "export" /\ UNCHANGED rawKey
                 \/ keyCall[c].pc = "export" /\ keyCall'[c].pc = "import" /\ rawKey' \in Keys
  PROVE  KsSound'
  <1> USE DEF KsInv, KsSound
  <1>0. KsTypeOK
    OBVIOUS
  <1>1. \A d \in KeyCalls :
          \/ keyCall'[d] = keyCall[d]
          \/ keyCall[d].pc \in {"idle", "export"} /\ keyCall'[d].pc \in {"export", "import"}
    BY DEF Rest
  <1>2. \A r : (Final(r)' <=> Final(r)) /\ \A d : Reading(d, r)' <=> Reading(d, r)
    BY DEF Final, Reading, After, IsGet
  <1>3. \A i \in DOMAIN ops : (IsRead(i)' <=> IsRead(i)) /\ (IsGet(i)' <=> IsGet(i))
    BY DEF IsRead, IsGet
  <1>4. /\ \A d \in KeyCalls : \A q : WillFind(d, q)' <=> WillFind(d, q)
        /\ Restoring' <=> Restoring
    BY <1>1, <1>2 DEF WillFind, Restoring
  <1>5. LastWrites(session)' <=> LastWrites(session)
    <2>1. waiters # <<>> => LastWaiter \in KeyCalls /\ keyCall[LastWaiter].pc \in {"trust", "persist"}
      BY LenTyped DEF LastWaiter, WaitersWait, KsTypeOK
    <2> QED BY <1>1, <2>1 DEF LastWrites, LastWaiter
  <1>6. Importing' \/ (rawKey' = rawKey /\ (Importing' <=> Importing))
    <2>1. CASE UNCHANGED <<keyCall, rawKey>>
      BY <2>1 DEF Importing
    <2>2. ASSUME NEW c \in KeyCalls, \A d \in KeyCalls : d # c => keyCall'[d] = keyCall[d],
                 keyCall[c] = Rest /\ keyCall'[c].pc = "export" /\ UNCHANGED rawKey
          PROVE  rawKey' = rawKey /\ (Importing' <=> Importing)
      BY <2>2 DEF Importing, Rest
    <2>3. ASSUME NEW c \in KeyCalls, keyCall'[c].pc = "import" PROVE Importing'
      BY <2>3 DEF Importing
    <2> QED BY <2>1, <2>2, <2>3
  <1>7. WaitersWait'
    BY <1>1, SameWaiters
  <1>8. ReadersRead'
    <2>1. \A d \in KeyCalls : keyCall[d].pc = "get" => keyCall'[d] = keyCall[d]
      BY <1>1
    <2>2. \A i \in DOMAIN ops' : IsRead(i)' => i \in DOMAIN ops /\ IsRead(i) /\ ops'[i] = ops[i]
      BY <1>3
    <2> QED BY <1>0, <2>1, <2>2, SameReaders
  <1>9. WorkerAttempted'
    BY <1>1 DEF WorkerAttempted
  <1>10. ActivitiesPassed'
    <2>1. clock' >= clock /\ clock \in Int
      BY DEF KsTypeOK
    <2>2. \A d \in KeyCalls :
            /\ keyCall'[d].pc = "persist" => keyCall'[d] = keyCall[d] /\ keyCall[d].snapshot \in Sessions
            /\ keyCall'[d].pc = "restore" => keyCall'[d] = keyCall[d] /\ keyCall[d].found \in Records \cup {NoRecord}
      BY <1>1, CallTyped
    <2>3. \A s \in Sessions \cup {Locked} : s.activity \in Int
      BY DEF Sessions, Locked
    <2>4. \A r \in Records \cup {NoRecord} : r.activity \in Int
      BY DEF Records, NoRecord
    <2>5. \A i \in DOMAIN ops : ops[i].op = "set" => ops[i].record \in Records
      BY OpTyped
    <2>6. session'.activity <= clock' /\ record'.activity <= clock'
      BY <2>1, <2>3, <2>4 DEF ActivitiesPassed, KsTypeOK
    <2>7. \A i \in DOMAIN ops' : ops'[i].op = "set" => ops'[i].record.activity <= clock'
      BY <2>1, <2>4, <2>5 DEF ActivitiesPassed
    <2>8. \A d \in KeyCalls :
            /\ keyCall'[d].pc = "persist" => keyCall'[d].snapshot.activity <= clock'
            /\ keyCall'[d].pc = "restore" => keyCall'[d].found.activity <= clock'
      BY <2>1, <2>2, <2>3, <2>4 DEF ActivitiesPassed
    <2> QED BY <2>6, <2>7, <2>8 DEF ActivitiesPassed
  <1>11. KeyIsOfSession'
    BY <1>6 DEF KeyIsOfSession
  <1>12. DistrustErases'
    BY <1>2 DEF DistrustErases
  <1>13. DroppedKeyErases'
    <2>1. rawKey' = "none" => rawKey = "none" /\ (Importing' <=> Importing)
      BY <1>1, KeysAssumption DEF Importing, Rest
    <2> QED BY <1>2, <2>1 DEF DroppedKeyErases
  <1>14. LockErases' /\ OpenWrites' /\ OpenIsRecorded'
    BY <1>2, <1>4, <1>5, <1>6 DEF LockErases, OpenWrites, OpenIsRecorded
  <1>15. ReadsAreTogether'
    <2>1. \A d \in KeyCalls : keyCall'[d].pc = "restore" => keyCall[d].pc = "restore"
      BY <1>1
    <2> QED BY <1>3, <1>4, <2>1 DEF ReadsAreTogether, IsGet
  <1>16. RestoresAgree' /\ FinalIsLatest'
    BY <1>2, <1>4 DEF RestoresAgree, FinalIsLatest
  <1>17. \A q : Candidate(q)' => Candidate(q)
    BY <1>1, <1>3, <1>4 DEF Candidate, HeldBefore
  <1>18. CandidatesAreFloor'
    BY <1>1, <1>17 DEF CandidatesAreFloor
  <1> QED BY <1>7, <1>8, <1>9, <1>10, <1>11, <1>12, <1>13, <1>14, <1>15, <1>16, <1>18

LEMMA RestartKeeps ==
  ASSUME KsInv, KsWorkerRestarts
  PROVE  KsSound'
  <1> USE DEF KsInv, KsSound
  <1>0. KsTypeOK
    OBVIOUS
  <1>1. /\ session' = Locked /\ rawKey' = "none" /\ attempted' = FALSE
        /\ trusted' = "pending" /\ waiters' = <<>> /\ keyCall' = [d \in KeyCalls |-> Rest]
        /\ ops' = [i \in DOMAIN ops |-> IF ops[i].op = "get" THEN [op |-> "get", by |-> "nobody"] ELSE ops[i]]
        /\ UNCHANGED <<record, clock>>
    BY DEF KsWorkerRestarts
  <1>2. \A d \in KeyCalls : keyCall'[d].pc = "idle"
    BY <1>1 DEF Rest
  <1>3. /\ \A r : Final(r)' <=> Final(r)
        /\ \A i \in DOMAIN ops' : ~IsRead(i)'
        /\ \A i \in DOMAIN ops' : i \in DOMAIN ops /\ (ops'[i].op = "set" => ops'[i] = ops[i])
    BY <1>0, <1>1, StopLeaves
  <1>4. WaitersWait'
    BY <1>1, <1>2 DEF WaitersWait
  <1>5. ReadersRead' /\ ReadsAreTogether'
    BY <1>2, <1>3 DEF ReadersRead, ReadsAreTogether
  <1>6. WorkerAttempted'
    BY <1>1, <1>2 DEF WorkerAttempted
  <1>7. ActivitiesPassed'
    <2>1. 0 <= clock
      BY DEF KsTypeOK
    <2> QED BY <1>1, <1>2, <1>3, <2>1 DEF ActivitiesPassed, Locked
  <1>8. ~Importing'
    BY <1>2 DEF Importing
  <1>9. DistrustErases' /\ KeyIsOfSession' /\ DroppedKeyErases' /\ LockErases' /\ OpenWrites' /\ OpenIsRecorded'
    BY <1>1, <1>8 DEF DistrustErases, KeyIsOfSession, DroppedKeyErases, LockErases, OpenWrites, OpenIsRecorded
  <1>10. \A d \in KeyCalls : \A q : ~WillFind(d, q)'
    <2>1. \A d \in KeyCalls : \A q : ~Reading(d, q)'
      BY <1>3 DEF Reading, IsRead
    <2> QED BY <1>2, <2>1 DEF WillFind
  <1>11. RestoresAgree' /\ FinalIsLatest' /\ CandidatesAreFloor'
    BY <1>1, <1>2, <1>10 DEF RestoresAgree, FinalIsLatest, CandidatesAreFloor
  <1> QED BY <1>4, <1>5, <1>6, <1>7, <1>9, <1>11

LEMMA StutterKeeps ==
  ASSUME KsInv, UNCHANGED <<memory, record, ops, clock>>
  PROVE  KsSound'
  <1> USE DEF KsInv, KsSound, memory
  <1>1. \A i : (IsRead(i)' <=> IsRead(i)) /\ (IsGet(i)' <=> IsGet(i))
    BY DEF IsRead, IsGet
  <1>2. \A r : /\ Final(r)' <=> Final(r)
               /\ \A d : (Reading(d, r)' <=> Reading(d, r)) /\ (WillFind(d, r)' <=> WillFind(d, r))
               /\ Candidate(r)' <=> Candidate(r)
    BY DEF Final, Reading, WillFind, Candidate, Restoring, HeldBefore, After, IsRead, IsGet
  <1>3. (Importing' <=> Importing) /\ (Restoring' <=> Restoring) /\ (LastWrites(session)' <=> LastWrites(session))
    BY DEF Importing, Restoring, LastWrites, LastWaiter
  <1>4. WaitersWait' /\ WorkerAttempted' /\ ActivitiesPassed'
    BY DEF WaitersWait, WorkerAttempted, ActivitiesPassed
  <1>5. ReadersRead' /\ ReadsAreTogether'
    BY <1>1, <1>3 DEF ReadersRead, ReadsAreTogether
  <1>6. DistrustErases' /\ KeyIsOfSession' /\ DroppedKeyErases' /\ LockErases' /\ OpenWrites' /\ OpenIsRecorded'
    BY <1>2, <1>3 DEF DistrustErases, KeyIsOfSession, DroppedKeyErases, LockErases, OpenWrites, OpenIsRecorded
  <1>7. RestoresAgree' /\ FinalIsLatest' /\ CandidatesAreFloor'
    BY <1>2 DEF RestoresAgree, FinalIsLatest, CandidatesAreFloor
  <1> QED BY <1>4, <1>5, <1>6, <1>7

-------------------------------------------------------------------------------
(* The actions                                                             *)

LEMMA PersistKeeps ==
  ASSUME KsInv, NextTask, NEW c \in KeyCalls, keyCall[c].pc \in {"idle", "restore", "import"},
         NEW s \in Sessions, NEW raw \in Keys \cup {"none"}, Persist(c, s, raw),
         session' = s, rawKey' = raw, attempted' = TRUE, UNCHANGED <<trusted, record, clock>>,
         s.activity <= clock, \A q \in Records : Candidate(q) => s.activity >= q.activity,
         raw = "none" => \A r \in Records : Final(r) => ~IsUsable(r)
  PROVE  KsSound'
  <1>1. CASE (raw = "none" \/ trusted = "no") /\ EndKeyCall(c) /\ UNCHANGED <<waiters, ops>>
    <2>1. \A r \in Records : Final(r) => ~IsUsable(r)
      BY <1>1 DEF KsInv, KsSound, DistrustErases
    <2>2. trusted = "pending" => raw = "none"
      BY <1>1
    <2>3. keyCall' = [keyCall EXCEPT ![c] = Rest]
      BY <1>1 DEF EndKeyCall, At
    <2> QED BY <1>1, <2>1, <2>2, <2>3, OpenKeeps
  <1>2. CASE /\ raw # "none" /\ trusted = "yes"
             /\ Issue([op |-> "set", record |-> RecordOf(s, raw)]) /\ EndKeyCall(c) /\ UNCHANGED waiters
    <2>1. ops' = Append(ops, [op |-> "set", record |-> RecordOf(s, raw)])
      BY <1>2 DEF Issue
    <2>2. keyCall' = [keyCall EXCEPT ![c] = Rest] /\ raw \in Keys
      BY <1>2 DEF EndKeyCall, At
    <2> QED BY <1>2, <2>1, <2>2, WriteKeeps
  <1>3. CASE /\ raw # "none" /\ trusted = "pending"
             /\ waiters' = Append(waiters, c) /\ At(c, [pc |-> "persist", snapshot |-> s])
             /\ UNCHANGED <<ops, beforeLock>>
    <2>1. keyCall' = [keyCall EXCEPT ![c] = [pc |-> "persist", snapshot |-> s]]
      BY <1>3 DEF At
    <2>2. keyCall[c].pc \in {"idle", "import"}
      BY <1>3, NoneWaits
    <2> QED BY <1>3, <2>1, <2>2, WaitKeeps
  <1> QED BY <1>1, <1>2, <1>3 DEF Persist

LEMMA ProceedKeeps ==
  ASSUME KsInv, NextTask, NEW c \in KeyCalls, NEW request \in Requests,
         NEW s \in Sessions, NEW raw \in Keys \cup {"none"}, attempted,
         \/ keyCall[c] = Rest /\ session = s /\ rawKey = raw
         \/ /\ keyCall[c].pc = "restore" /\ keyCall[c].found \in Records /\ IsUsable(keyCall[c].found)
            /\ s = SessionOf(keyCall[c].found) /\ raw = keyCall[c].found.raw,
         Proceed(c, request, s, raw), UNCHANGED <<trusted, record, clock>>
  PROVE  KsSound'
  <1> DEFINE changed == IF request.name = "activity" THEN [s EXCEPT !.activity = clock]
                                                     ELSE [s EXCEPT !.timeout = request.timeout]
  <1>0. KsTypeOK /\ s # Locked /\ keyCall[c].pc \in {"idle", "restore"}
    BY KeysAssumption DEF KsInv, Sessions, Locked, Rest
  <1> DEFINE resting == keyCall[c] = Rest /\ session = s /\ rawKey = raw
             found == keyCall[c].found
             restored == /\ keyCall[c].pc = "restore" /\ found \in Records /\ IsUsable(found)
                         /\ s = SessionOf(found) /\ raw = found.raw
  <1>1. /\ s.activity <= clock /\ \A q \in Records : Candidate(q) => s.activity >= q.activity
        /\ raw = "none" => \A r \in Records : Final(r) => ~IsUsable(r)
    <2>1. CASE resting
      BY <1>0, <2>1 DEF KsInv, KsSound, ActivitiesPassed, CandidatesAreFloor, DroppedKeyErases
    <2>2. CASE restored
      <3>1. s.activity = found.activity /\ found.activity \in Int /\ raw # "none"
        BY <2>2 DEF SessionOf, Records, IsUsable
      <3>2. found.activity <= clock
        BY <2>2 DEF KsInv, KsSound, ActivitiesPassed
      <3>3. \A q \in Records : Candidate(q) => q = found
        BY <2>2, RestoreIsOnly
      <3> QED BY <3>1, <3>2, <3>3
    <2> QED BY <2>1, <2>2
  <1>2. CASE session' = s /\ rawKey' = raw /\ EndKeyCall(c) /\ UNCHANGED <<attempted, waiters, ops>>
    <2>1. CASE resting
      <3>1. keyCall' = keyCall
        BY <1>0, <1>2, <2>1 DEF EndKeyCall, At, KsTypeOK
      <3> QED BY <1>2, <2>1, <3>1, StutterKeeps DEF memory
    <2>2. CASE restored
      <3>1. keyCall' = [keyCall EXCEPT ![c] = Rest] /\ attempted' = TRUE
        BY <1>2 DEF EndKeyCall, At
      <3>2. WillFind(c, found) /\ s.activity = found.activity /\ raw # "none"
        BY <2>2 DEF WillFind, SessionOf, IsUsable
      <3>3. \A r \in Records : Final(r) /\ IsUsable(r) => r.activity >= s.activity
        BY <2>2, <3>2 DEF KsInv, KsSound, FinalIsLatest
      <3>4. trusted # "pending"
        BY <2>2, NoneWaits
      <3> QED BY <1>1, <1>2, <2>2, <3>1, <3>2, <3>3, <3>4, OpenKeeps
    <2> QED BY <2>1, <2>2
  <1>3. CASE /\ request.name \in {"activity", "timeout"} /\ session' = changed /\ rawKey' = raw
             /\ Persist(c, changed, raw) /\ UNCHANGED attempted
    <2>1. changed \in Sessions
      BY <1>0, <1>3, ChangedTyped
    <2>2. changed.activity = s.activity \/ changed.activity = clock
      BY <1>3 DEF Sessions
    <2>3. \A q \in Records : Candidate(q) => clock >= q.activity
      <3>1. \A q \in Records : q.activity \in Int /\ clock \in Int
        BY <1>0 DEF Records, KsTypeOK
      <3> QED BY <3>1, CandidatePassed
    <2>4. clock <= clock
      BY <1>0 DEF KsTypeOK
    <2> HIDE DEF changed
    <2>5. changed.activity <= clock /\ \A q \in Records : Candidate(q) => changed.activity >= q.activity
      BY <1>1, <2>2, <2>3, <2>4
    <2>6. attempted' = TRUE /\ keyCall[c].pc \in {"idle", "restore", "import"}
      BY <1>0, <1>3
    <2> QED BY <1>1, <1>3, <2>1, <2>5, <2>6, PersistKeeps
  <1>4. CASE /\ session' = Locked /\ rawKey' = "none" /\ attempted' = TRUE
             /\ Issue(Removing) /\ EndKeyCall(c) /\ UNCHANGED waiters
    <2>1. keyCall' = [keyCall EXCEPT ![c] = Rest] /\ ops' = Append(ops, Removing)
      BY <1>4 DEF Issue, EndKeyCall, At
    <2> QED BY <1>0, <1>4, <2>1, EraseKeeps
  <1> QED BY <1>2, <1>3, <1>4 DEF Proceed

LEMMA CallKeeps ==
  ASSUME KsInv, NEW c \in KeyCalls, NEW request \in Requests, Call(c, request)
  PROVE  KsSound'
  <1>0. /\ KsTypeOK /\ NextTask /\ keyCall[c] = Rest /\ UNCHANGED <<trusted, record, clock>>
        /\ session # Locked => session \in Sessions /\ attempted
    BY DEF KsInv, KsSound, KsTypeOK, WorkerAttempted, Call
  <1>1. CASE session # Locked /\ Proceed(c, request, session, rawKey)
    <2>1. rawKey \in Keys \cup {"none"}
      BY <1>0 DEF KsTypeOK
    <2> QED BY <1>0, <1>1, <2>1, ProceedKeeps
  <1>2. CASE EndKeyCall(c) /\ UNCHANGED <<session, rawKey, attempted, waiters, ops>>
    <2>1. keyCall' = keyCall
      BY <1>0, <1>2 DEF EndKeyCall, At, KsTypeOK
    <2> QED BY <1>0, <1>2, <2>1, StutterKeeps DEF memory
  <1>3. CASE /\ session = Locked /\ ~attempted
             /\ At(c, [pc |-> "trust", request |-> request]) /\ waiters' = Append(waiters, c)
             /\ UNCHANGED <<session, rawKey, attempted, ops, beforeLock>>
    BY <1>0, <1>3, TrustWaitKeeps DEF At
  <1> QED BY <1>1, <1>2, <1>3 DEF Call

LEMMA SettlesKeeps ==
  ASSUME KsInv, TrustSettles
  PROVE  KsSound'
  <1>1. NextTask
    BY DEF TrustSettles, NextTask
  <1>2. CASE trusted' = "yes" /\ UNCHANGED <<ops, failures>>
    BY <1>2, TrustKeeps DEF TrustSettles
  <1>3. CASE trusted' = "no" /\ Issue(Removing)
    <2>1. /\ trusted = "pending" /\ ops' = Append(ops, Removing)
          /\ UNCHANGED <<session, rawKey, attempted, waiters, keyCall, record, clock>>
      BY <1>3 DEF TrustSettles, Issue
    <2> QED BY <1>1, <1>3, <2>1, EraseKeeps
  <1> QED BY <1>2, <1>3 DEF TrustSettles

LEMMA TrustedKeeps ==
  ASSUME KsInv, NEW c \in KeyCalls, RestoreTrusted(c) \/ PersistTrusted(c)
  PROVE  KsSound'
  <1>1. CASE RestoreTrusted(c)
    <2>1. CASE trusted = "no"
      BY <1>1, <2>1, EndKeeps DEF RestoreTrusted, EndKeyCall, At
    <2> QED BY <1>1, <2>1, ReadKeeps DEF RestoreTrusted
  <1>2. CASE PersistTrusted(c)
    <2>1. CASE trusted # "yes"
      <3>1. trusted = "no"
        BY <1>2, <2>1 DEF PersistTrusted, KsInv, KsTypeOK
      <3> QED BY <1>2, <2>1, <3>1, EndKeeps DEF PersistTrusted, EndKeyCall, At
    <2> QED BY <1>2, <2>1, LateWriteKeeps
  <1> QED BY <1>1, <1>2

LEMMA RestoredKeeps ==
  ASSUME KsInv, NEW c \in KeyCalls, Restored(c)
  PROVE  KsSound'
  <1> DEFINE found == keyCall[c].found
             s == SessionOf(found)
  <1>1. /\ NextTask /\ keyCall[c].pc = "restore" /\ attempted /\ found \in Records \cup {NoRecord}
        /\ keyCall[c].request \in Requests /\ UNCHANGED <<trusted, record, clock>>
    BY CallTyped DEF Restored, KsInv, KsSound, WorkerAttempted
  <1>2. CASE found = NoRecord /\ EndKeyCall(c) /\ UNCHANGED <<session, rawKey, attempted, waiters, ops>>
    <2>1. keyCall' = [keyCall EXCEPT ![c] = Rest]
      BY <1>2 DEF EndKeyCall, At
    <2> QED BY <1>1, <1>2, <2>1, EndKeeps
  <1>3. CASE /\ rawKey' = "none" /\ session' \in {session, Locked} /\ Issue(Removing) /\ EndKeyCall(c)
             /\ UNCHANGED <<attempted, waiters>>
    <2>1. keyCall' = [keyCall EXCEPT ![c] = Rest] /\ ops' = Append(ops, Removing)
      BY <1>3 DEF Issue, EndKeyCall, At
    <2> QED BY <1>1, <1>3, <2>1, EraseKeeps
  <1>4. CASE found # NoRecord /\ IsUsable(found) /\ Proceed(c, keyCall[c].request, s, found.raw)
    <2>1. found \in Records /\ s \in Sessions /\ found.raw \in Keys \cup {"none"}
      BY <1>1, <1>4 DEF SessionOf, Records, Sessions
    <2> QED BY <1>1, <1>4, <2>1, ProceedKeeps
  <1> QED BY <1>2, <1>3, <1>4 DEF Restored

LEMMA OpeningKeeps ==
  ASSUME KsInv, NEW c \in KeyCalls, (\E request \in Unlocks : Unlock(c, request)) \/ Exported(c)
  PROVE  KsSound'
  <1>0. keyCall \in [KeyCalls -> CallStates]
    BY DEF KsInv, KsTypeOK
  <1>1. ASSUME NEW request \in Unlocks, Unlock(c, request) PROVE KsSound'
    <2>1. /\ NextTask /\ keyCall[c] = Rest /\ keyCall' = [keyCall EXCEPT ![c] = [pc |-> "export", request |-> request]]
          /\ UNCHANGED <<session, rawKey, attempted, trusted, waiters, record, ops, clock>>
      BY <1>1 DEF Unlock, At
    <2>2. keyCall'[c].pc = "export" /\ \A d \in KeyCalls : d # c => keyCall'[d] = keyCall[d]
      BY <1>0, <2>1
    <2> QED BY <2>1, <2>2, QuietKeeps
  <1>2. CASE Exported(c)
    <2>1. /\ NextTask /\ keyCall[c].pc = "export" /\ rawKey' = keyCall[c].request.key
          /\ keyCall' = [keyCall EXCEPT ![c] = [pc |-> "import", request |-> keyCall[c].request]]
          /\ UNCHANGED <<session, attempted, trusted, waiters, record, ops, clock>>
      BY <1>2 DEF Exported, At
    <2>2. keyCall'[c].pc = "import" /\ \A d \in KeyCalls : d # c => keyCall'[d] = keyCall[d]
      BY <1>0, <2>1
    <2>3. rawKey' \in Keys
      BY <2>1, CallTyped DEF Unlocks, KsInv
    <2> QED BY <2>1, <2>2, <2>3, QuietKeeps
  <1> QED BY <1>1, <1>2

LEMMA UnlockedKeeps ==
  ASSUME KsInv, NEW c \in KeyCalls, Unlocked(c)
  PROVE  KsSound'
  <1> DEFINE s == [key |-> keyCall[c].request.key, activity |-> clock, timeout |-> keyCall[c].request.timeout]
  <1>1. /\ NextTask /\ keyCall[c].pc = "import" /\ session' = s /\ attempted' = TRUE
        /\ Persist(c, s, rawKey) /\ UNCHANGED <<rawKey, trusted, record, clock>>
    BY DEF Unlocked
  <1>2. s \in Sessions /\ rawKey \in Keys \cup {"none"} /\ clock \in Int
    BY <1>1, CallTyped DEF KsInv, KsTypeOK, Sessions, Unlocks
  <1>3. s.activity = clock
    OBVIOUS
  <1> HIDE DEF s
  <1>4. s.activity <= clock
    BY <1>2, <1>3
  <1>5. \A q \in Records : Candidate(q) => s.activity >= q.activity
    <2>1. \A q \in Records : q.activity \in Int
      BY DEF Records
    <2> QED BY <1>2, <1>3, <2>1, CandidatePassed
  <1>6. rawKey = "none" => \A r \in Records : Final(r) => ~IsUsable(r)
    BY <1>1 DEF KsInv, KsSound, DroppedKeyErases, Importing
  <1>7. rawKey' = rawKey
    BY <1>1
  <1> QED BY <1>1, <1>2, <1>4, <1>5, <1>6, <1>7, PersistKeeps

LEMMA ClosingKeeps ==
  ASSUME KsInv, Lock \/ Expire \/ Tick
  PROVE  KsSound'
  <1>1. CASE Lock \/ Expire
    <2>1. /\ NextTask /\ session' = Locked /\ attempted' = TRUE /\ rawKey' = "none"
          /\ ops' = Append(ops, Removing) /\ UNCHANGED <<trusted, waiters, keyCall, record, clock>>
      BY <1>1 DEF Lock, Expire, Issue
    <2> QED BY <2>1, EraseKeeps
  <1>2. CASE Tick
    BY <1>2, QuietKeeps DEF Tick, memory
  <1> QED BY <1>1, <1>2

LEMMA KsInitSound == KsInit => KsInv
  <1> SUFFICES ASSUME KsInit PROVE KsInv
    OBVIOUS
  <1>1. /\ session = Locked /\ rawKey = "none" /\ attempted = FALSE /\ trusted = "pending"
        /\ waiters = <<>> /\ keyCall = [c \in KeyCalls |-> Rest] /\ record = NoRecord /\ ops = <<>>
        /\ clock = 0 /\ failures = 0 /\ beforeLock = {}
    BY DEF KsInit
  <1>2. \A c \in KeyCalls : keyCall[c].pc = "idle"
    BY <1>1 DEF Rest
  <1>3. KsTypeOK
    <2>1. keyCall \in [KeyCalls -> CallStates] /\ waiters \in Seq(KeyCalls) /\ ops \in Seq(StorageOps)
      BY <1>1, RestTyped
    <2>2. clock \in 0..MaxTime /\ failures \in 0..MaxFailures
      BY <1>1, KeyBoundsAssumption
    <2>3. /\ session \in Sessions \cup {Locked} /\ rawKey \in Keys \cup {"none"} /\ attempted \in BOOLEAN
          /\ trusted \in {"pending", "yes", "no"} /\ record \in Records \cup {NoRecord} /\ beforeLock \subseteq KeyCalls
      BY <1>1
    <2> QED BY <2>1, <2>2, <2>3 DEF KsTypeOK
  <1>4. DOMAIN ops = {} /\ DOMAIN waiters = {} /\ Len(ops) = 0
    BY <1>1
  <1>5. \A r : Final(r) => r = record
    BY <1>4 DEF Final, After
  <1>6. \A r : Final(r) => ~IsUsable(r)
    BY <1>1, <1>5 DEF IsUsable, NoRecord
  <1>7. \A c \in KeyCalls : \A q : ~WillFind(c, q)
    BY <1>2, <1>4 DEF WillFind, Reading
  <1>8. WaitersWait /\ ReadersRead /\ ReadsAreTogether
    BY <1>2, <1>4 DEF WaitersWait, ReadersRead, ReadsAreTogether
  <1>9. WorkerAttempted /\ ActivitiesPassed
    BY <1>1, <1>2, <1>4 DEF WorkerAttempted, ActivitiesPassed, Locked, NoRecord
  <1>10. DistrustErases /\ KeyIsOfSession /\ DroppedKeyErases /\ LockErases /\ OpenWrites /\ OpenIsRecorded
    BY <1>1, <1>6 DEF DistrustErases, KeyIsOfSession, DroppedKeyErases, LockErases, OpenWrites, OpenIsRecorded
  <1>11. RestoresAgree /\ FinalIsLatest /\ CandidatesAreFloor
    BY <1>1, <1>2, <1>7 DEF RestoresAgree, FinalIsLatest, CandidatesAreFloor
  <1> QED BY <1>3, <1>8, <1>9, <1>10, <1>11 DEF KsInv, KsSound

LEMMA KsNextSound == KsInv /\ [KsNext]_ksVars => KsInv'
  <1> SUFFICES ASSUME KsInv, [KsNext]_ksVars PROVE KsInv'
    OBVIOUS
  <1>0. KsTypeOK /\ ReadersRead
    BY DEF KsInv, KsSound
  <1>1. ASSUME NEW c \in KeyCalls, NEW r \in Requests, Call(c, r) PROVE KsInv'
    BY <1>0, <1>1, CallSteps, CallKeeps DEF KsInv
  <1>2. ASSUME NEW c \in KeyCalls, NEW r \in Unlocks, Unlock(c, r) PROVE KsInv'
    BY <1>0, <1>2, OpeningSteps, OpeningKeeps DEF KsInv
  <1>3. ASSUME NEW c \in KeyCalls, RestoreTrusted(c) \/ PersistTrusted(c) PROVE KsInv'
    BY <1>0, <1>3, TrustSteps, TrustedKeeps DEF KsInv
  <1>4. ASSUME NEW c \in KeyCalls, Restored(c) PROVE KsInv'
    BY <1>0, <1>4, OpeningSteps, RestoredKeeps DEF KsInv
  <1>5. ASSUME NEW c \in KeyCalls, Exported(c) PROVE KsInv'
    BY <1>0, <1>5, OpeningSteps, OpeningKeeps DEF KsInv
  <1>6. ASSUME NEW c \in KeyCalls, Unlocked(c) PROVE KsInv'
    BY <1>0, <1>6, OpeningSteps, UnlockedKeeps DEF KsInv
  <1>7. CASE TrustSettles
    BY <1>0, <1>7, SettlesSteps, SettlesKeeps DEF KsInv
  <1>8. CASE StorageDone
    BY <1>0, <1>8, StorageSteps, DoneKeeps DEF KsInv
  <1>9. CASE StorageFails
    <2>1. KsTypeOK'
      BY <1>0, <1>9, StorageSteps
    <2> QED BY <1>9, <2>1, FailureKeeps DEF KsInv
  <1>10. CASE Lock \/ Expire \/ Tick
    BY <1>0, <1>10, ClosingSteps, ClosingKeeps DEF KsInv
  <1>11. CASE KsWorkerRestarts
    BY <1>0, <1>11, ClosingSteps, RestartKeeps DEF KsInv
  <1>12. CASE UNCHANGED ksVars
    BY <1>0, <1>12, ClosingSteps, StutterKeeps DEF KsInv, ksVars
  <1> QED BY <1>1, <1>2, <1>3, <1>4, <1>5, <1>6, <1>7, <1>8, <1>9, <1>10, <1>11, <1>12 DEF KsNext

-------------------------------------------------------------------------------
(* Theorems                                                                *)

\* The invariant holds: the record that the storage will be left with, what the
\* restores will read, and the session in memory agree in every reachable state.
THEOREM KeySessionInv == KsSpec => []KsInv
  BY KsInitSound, KsNextSound, PTL DEF KsSpec

\* Every variable of the key session has its type, the local variables of the calls
\* and the storage operations under way included.
THEOREM KeySessionTypes == KsSpec => []KsTypeOK
  BY KeySessionInv, PTL DEF KsInv

\* A session that was locked, or that expired, leaves no record that the next worker
\* could restore, however the lock met the calls, the restores and the writes.
THEOREM LocksSurvive == KsSpec => []LockSurvivesRestart
  <1>1. KsInv => LockSurvivesRestart
    <2> SUFFICES ASSUME KsInv, Quiet, attempted, session = Locked, IsUsable(record) PROVE FALSE
      BY DEF LockSurvivesRestart
    <2>1. DOMAIN ops = {} /\ Len(ops) = 0
      BY DEF Quiet
    <2>2. \A c \in KeyCalls : keyCall[c].pc = "idle"
      BY DEF Quiet, Rest
    <2>3. Final(record)
      BY <2>1 DEF Final, After
    <2>4. record \in Records
      BY DEF KsInv, KsTypeOK, IsUsable, NoRecord
    <2>5. ~Importing /\ \A c \in KeyCalls : \A q : ~WillFind(c, q)
      BY <2>1, <2>2 DEF Importing, WillFind, Reading
    <2> QED BY <2>3, <2>4, <2>5 DEF KsInv, KsSound, LockErases
  <1> QED BY <1>1, KeySessionInv, PTL

\* A restart of the worker loses no activity: what the next worker could restore is
\* as recent as the session that this one has.
THEOREM ActivityOutlivesWorker == KsSpec => []ActivityIsRecorded
  <1>1. KsInv => ActivityIsRecorded
    <2> SUFFICES ASSUME KsInv, Quiet, session # Locked, IsUsable(record)
                 PROVE  record.activity >= session.activity
      BY DEF ActivityIsRecorded
    <2>1. Len(ops) = 0
      BY DEF Quiet
    <2>2. \A c \in KeyCalls : keyCall[c].pc = "idle"
      BY DEF Quiet, Rest
    <2>3. Final(record) /\ record \in Records
      BY <2>1 DEF Final, After, KsInv, KsTypeOK, IsUsable, NoRecord
    <2>4. ~Importing /\ ~LastWrites(session)
      BY <2>2 DEF Importing, LastWrites, Quiet
    <2> QED BY <2>3, <2>4 DEF KsInv, KsSound, OpenIsRecorded
  <1> QED BY <1>1, KeySessionInv, PTL
===============================================================================
