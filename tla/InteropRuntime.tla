----------------------------- MODULE InteropRuntime -----------------------------
(***************************************************************************)
(* The dispatcher above Move and Sync (background/interop-runtime*.ts).    *)
(* One record of preferences names the selected provider and operation     *)
(* and, for each operation, the route of its active journal.  A dispatch   *)
(* reads that record, awaits journals and providers, and saves it whole.   *)
(*                                                                         *)
(* Journals are reduced to their phase; MoveSource and SecureSync model    *)
(* what happens inside them.                                               *)
(***************************************************************************)
EXTENDS Integers, FiniteSets

CONSTANTS
  Dispatches,      \* dispatches that may overlap: the runtime's callers are tabs
  Selections,      \* reviewed selections of records
  RouteProviders,  \* the transports
  LocalProvider,   \* the Overlook on this computer; its id in the code is an earlier transport's, icloud-drive
  MaxJournals      \* bound: how many journals may be started

ASSUME MaxJournalsAssumption == MaxJournals \in Nat
ASSUME RouteProvidersAssumption == "unknown" \notin RouteProviders
ASSUME SelectionsAssumption == "none" \notin Selections

VARIABLES
  prefs,     \* the stored preferences
  journal,   \* journal[n]: the durable journal with id n
  used,      \* ids given out
  dispatch   \* dispatch[d]: a dispatch in flight, with the preferences it read

rtVars == <<prefs, journal, used, dispatch>>

Operations == {"move", "sync"}
Ids == 1..MaxJournals
NoRoute == [id |-> 0, provider |-> "unknown", selection |-> "none"]

\* A route kept by an earlier version of the program may not name its provider.
Routes == [id: Ids, provider: RouteProviders \cup {"unknown"}, selection: Selections]

Preferences ==
  [provider: RouteProviders, operation: Operations,
   route: [Operations -> Routes \cup {NoRoute}]]

NoJournal ==
  [operation |-> "none", provider |-> "unknown", selection |-> "none", phase |-> "none"]

Journals ==
  [operation: Operations, provider: RouteProviders, selection: Selections,
   phase: {"running", "paused", "cancelled", "completed"}]
    \cup {NoJournal}

Actions ==
  [name: {"select-provider"}, provider: RouteProviders]
    \cup [name: {"set-operation"}, operation: Operations]
    \cup [name: {"start", "resume", "status", "pause", "cancel"}]

Idle == [pc |-> "idle"]

RtTypeOK ==
  /\ prefs \in Preferences
  /\ journal \in [Ids -> Journals]
  /\ used \in 0..MaxJournals
  /\ dispatch \in [Dispatches ->
       {Idle} \cup [pc: {"recover", "route", "start", "work", "clear"}, action: Actions,
                   selection: Selections \cup {"none"}, prefs: Preferences]]

\* The selected operation's route.
Active(p) == p.route[p.operation]
HasActive(p) == Active(p).id # 0

Cleared(p) == [p EXCEPT !.route[p.operation] = NoRoute]

\* Mutant: the provider stays as selected.
WithOperationOnly(p, operation) == [p EXCEPT !.operation = operation]

\* Mutant: the provider of a route that is not there is taken.
WithOperationUnchecked(p, operation) ==
  [p EXCEPT !.operation = operation, !.provider = p.route[operation].provider]

WithOperation(p, operation) ==
  LET provider == p.route[operation].provider
  IN [p EXCEPT !.operation = operation,
               !.provider = IF provider = "unknown" THEN @ ELSE provider]

WithRoute(p, n, selection) ==
  [p EXCEPT !.route[p.operation] = [id |-> n, provider |-> p.provider, selection |-> selection]]

\* Mutant: the selected provider is taken for the session's.
RecoveredAsSelected(p) ==
  IF p.route["sync"].id = 0 THEN p
  ELSE [p EXCEPT !.route["sync"].provider = IF @ = "unknown" THEN p.provider ELSE @]

\* A Sync session knows its provider; a route that does not agree is repaired.
Recovered(p) ==
  LET n == p.route["sync"].id
  IN IF n = 0 \/ journal[n].phase = "none" THEN p
     ELSE [p EXCEPT !.route["sync"].provider = journal[n].provider,
                    !.provider = IF p.operation = "sync" THEN journal[n].provider ELSE @]

\* Fresh preferences, or those of an earlier version: one journal, whose route
\* has no provider.
RtInit ==
  /\ dispatch = [d \in Dispatches |-> Idle]
  /\ \/ /\ used = 0
        /\ journal = [n \in Ids |-> NoJournal]
        /\ \E p \in RouteProviders :
             prefs = [provider |-> p, operation |-> "move", route |-> [o \in Operations |-> NoRoute]]
     \/ \E p, q \in RouteProviders, o \in Operations, s \in Selections :
          /\ MaxJournals > 0
          /\ used = 1
          /\ journal = [n \in Ids |->
               IF n = 1 THEN [operation |-> o, provider |-> q, selection |-> s, phase |-> "running"]
               ELSE NoJournal]
          /\ prefs = [provider |-> p, operation |-> o,
                      route |-> [x \in Operations |->
                        IF x = o THEN [id |-> 1, provider |-> "unknown", selection |-> s] ELSE NoRoute]]

-------------------------------------------------------------------------------
Goto(d, pc) == dispatch' = [dispatch EXCEPT ![d].pc = pc]
Return(d) == dispatch' = [dispatch EXCEPT ![d] = Idle]
Save(p) == prefs' = p

\* A message from a tab, with the selection its workflow was opened for; to
\* choose a provider or an operation makes no use of it.
Dispatch(d, action, selection) ==
  /\ dispatch[d] = Idle
  /\ selection = "none" <=> action.name \in {"select-provider", "set-operation"}
  /\ dispatch' = [dispatch EXCEPT ![d] =
       [pc |-> IF Recovered(prefs) = prefs THEN "route" ELSE "recover",
        action |-> action, selection |-> selection, prefs |-> prefs]]
  /\ UNCHANGED <<prefs, journal, used>>

RecoverPreferences(d) ==
  /\ dispatch[d].pc = "recover"
  /\ LET p == Recovered(dispatch[d].prefs)
     IN /\ Save(p)
        /\ dispatch' = [dispatch EXCEPT ![d].pc = "route", ![d].prefs = p]
  /\ UNCHANGED <<journal, used>>

\* A route without a provider can only be cancelled or left for the other operation.
RouteIsKnown(p, action) ==
  \/ ~HasActive(p)
  \/ Active(p).provider # "unknown"
  \/ action.name \in {"cancel", "set-operation"}

Refused(d) ==
  LET p == dispatch[d].prefs
      action == dispatch[d].action
  IN /\ dispatch[d].pc = "route"
     /\ \/ ~RouteIsKnown(p, action)
        \/ /\ action.name = "select-provider"
           /\ HasActive(p) /\ Active(p).provider # action.provider
        \/ /\ action.name \in {"cancel", "pause"}
           /\ HasActive(p) /\ Active(p).selection # dispatch[d].selection
        \/ /\ action.name = "pause"
           /\ ~HasActive(p) \/ p.operation = "move"
        \/ /\ action.name = "resume"
           /\ ~HasActive(p) \/ Active(p).selection # dispatch[d].selection
     /\ Return(d)
     /\ UNCHANGED <<prefs, journal, used>>

SelectProvider(d) ==
  LET p == dispatch[d].prefs
      action == dispatch[d].action
  IN /\ dispatch[d].pc = "route"
     /\ action.name = "select-provider"
     /\ RouteIsKnown(p, action)
     /\ HasActive(p) => Active(p).provider = action.provider
     /\ Save([p EXCEPT !.provider = action.provider])
     /\ Return(d)
     /\ UNCHANGED <<journal, used>>

SetOperation(d) ==
  /\ dispatch[d].pc = "route"
  /\ dispatch[d].action.name = "set-operation"
  /\ Save(WithOperation(dispatch[d].prefs, dispatch[d].action.operation))
  /\ Return(d)
  /\ UNCHANGED <<journal, used>>

\* The workflow's own selection is the one it may control.
Owns(d) == Active(dispatch[d].prefs).selection = dispatch[d].selection

\* The Sync journal takes the control; a cancel goes on to clear the route.
ControlSync(d) ==
  LET p == dispatch[d].prefs
      n == Active(p).id
      name == dispatch[d].action.name
      phase == IF name = "cancel" THEN "cancelled" ELSE "paused"
  IN /\ dispatch[d].pc = "route"
     /\ name \in {"pause", "cancel"}
     /\ p.operation = "sync" /\ HasActive(p) /\ Owns(d)
     /\ RouteIsKnown(p, dispatch[d].action)
     /\ IF journal[n].phase = "none" \/ (name = "pause" /\ journal[n].phase = "cancelled")
        THEN Return(d) /\ UNCHANGED journal
        ELSE /\ journal' = [journal EXCEPT ![n].phase = phase]
             /\ IF name = "cancel" THEN Goto(d, "clear") ELSE Return(d)
     /\ UNCHANGED <<prefs, used>>

\* A Move has no control: to cancel it is to forget its route.
CancelMove(d) ==
  LET p == dispatch[d].prefs
  IN /\ dispatch[d].pc = "route"
     /\ dispatch[d].action.name = "cancel"
     /\ p.operation = "move" \/ ~HasActive(p)
     /\ HasActive(p) => Owns(d)
     /\ IF HasActive(p) THEN Goto(d, "clear") ELSE Return(d)
     /\ UNCHANGED <<prefs, journal, used>>

\* The local session of a cancelled transfer cannot be closed: the route stays.
CancelFails(d) ==
  /\ dispatch[d].pc = "clear"
  /\ dispatch[d].action.name = "cancel"
  /\ Active(dispatch[d].prefs).provider \in {"unknown", LocalProvider}
  /\ Return(d)
  /\ UNCHANGED <<prefs, journal, used>>

\* The route is forgotten, after a cancel or when its journal has completed.
ClearRoute(d) ==
  /\ dispatch[d].pc = "clear"
  /\ Save(Cleared(dispatch[d].prefs))
  /\ Return(d)
  /\ UNCHANGED <<journal, used>>

\* The route is saved before its journal exists.
Start(d) ==
  LET p == dispatch[d].prefs
      active == WithRoute(p, used + 1, dispatch[d].selection)
  IN /\ dispatch[d].pc = "route"
     /\ dispatch[d].action.name = "start"
     /\ RouteIsKnown(p, dispatch[d].action)
     /\ used < MaxJournals
     /\ used' = used + 1
     /\ Save(active)
     /\ dispatch' = [dispatch EXCEPT ![d].pc = "start", ![d].prefs = active]
     /\ UNCHANGED journal

\* The operation's own start queues the journal and publishes it.
QueueJournal(d) ==
  LET p == dispatch[d].prefs
      n == Active(p).id
  IN /\ dispatch[d].pc = "start"
     /\ journal' = [journal EXCEPT ![n] =
          [operation |-> p.operation, provider |-> p.provider,
           selection |-> dispatch[d].selection, phase |-> "running"]]
     /\ Return(d)
     /\ UNCHANGED <<prefs, used>>

\* A refused start or resume (locked, not paired, not connected), or one that
\* fails before it stores anything.
Fails(d) ==
  /\ \/ dispatch[d].pc = "start"
     \/ /\ dispatch[d].pc = "route"
        /\ dispatch[d].action.name \in {"start", "resume", "status"}
  /\ Return(d)
  /\ UNCHANGED <<prefs, journal, used>>

\* Resume and status find the journal of their own selection.  Status without
\* the selected provider only reads; a Sync session checks its provider.
Continue(d) ==
  LET p == dispatch[d].prefs
      n == Active(p).id
  IN /\ dispatch[d].pc = "route"
     /\ dispatch[d].action.name \in {"resume", "status"}
     /\ HasActive(p) /\ Owns(d)
     /\ RouteIsKnown(p, dispatch[d].action)
     /\ journal[n].phase # "none"
     /\ p.operation = "sync" => journal[n].provider = p.provider
     /\ Goto(d, "work")
     /\ UNCHANGED <<prefs, journal, used>>

\* The operation goes on through p.provider.  A resumed session leaves pause,
\* and a Move may complete.
Work(d) ==
  LET p == dispatch[d].prefs
      n == Active(p).id
      resumed == dispatch[d].action.name = "resume"
  IN /\ dispatch[d].pc = "work"
     /\ \E phase \in {journal[n].phase}
                       \cup (IF resumed /\ journal[n].phase = "paused" THEN {"running"} ELSE {})
                       \cup (IF p.operation = "move" THEN {"completed"} ELSE {}) :
          /\ journal' = [journal EXCEPT ![n].phase = phase]
          /\ IF phase = "completed" THEN Goto(d, "clear") ELSE Return(d)
     /\ UNCHANGED <<prefs, used>>

\* The browser stops the worker: every dispatch in flight is gone.
RtWorkerStops ==
  /\ \E d \in Dispatches : dispatch[d] # Idle
  /\ dispatch' = [d \in Dispatches |-> Idle]
  /\ UNCHANGED <<prefs, journal, used>>

RtStep(d) ==
  \/ RecoverPreferences(d) \/ Refused(d) \/ SelectProvider(d) \/ SetOperation(d)
  \/ ControlSync(d) \/ CancelMove(d) \/ CancelFails(d) \/ ClearRoute(d)
  \/ Start(d) \/ QueueJournal(d) \/ Fails(d) \/ Continue(d) \/ Work(d)

RtNext ==
  \/ \E d \in Dispatches, a \in Actions, s \in Selections \cup {"none"} : Dispatch(d, a, s)
  \/ \E d \in Dispatches : RtStep(d)
  \/ RtWorkerStops

RtSpec == RtInit /\ [][RtNext]_rtVars

-------------------------------------------------------------------------------
(* Properties                                                              *)

\* A route is true of its journal, in the stored record and in every copy a
\* dispatch holds: the operation, the selection and, when it is known, the
\* provider.
TrueOf(p) ==
  \A o \in Operations :
    LET r == p.route[o]
    IN r.id # 0 /\ journal[r.id].phase # "none" =>
         /\ journal[r.id].operation = o
         /\ journal[r.id].selection = r.selection
         /\ r.provider \in {journal[r.id].provider, "unknown"}

RoutesAreTrue ==
  /\ TrueOf(prefs)
  /\ \A d \in Dispatches : dispatch[d] # Idle => TrueOf(dispatch[d].prefs)

\* A journal is continued through the provider it was started with, whatever was
\* selected since: a Move's journal does not name its provider, only the route
\* and the selected provider do.
WorkKeepsProvider ==
  \A d \in Dispatches :
    dispatch[d].pc = "work" =>
      journal[Active(dispatch[d].prefs).id].provider = dispatch[d].prefs.provider

\* The route of a journal that is not finished is dropped only by a dispatch that
\* cancels this journal, so that it can be resumed until then.
UnfinishedIsReachable ==
  [][\A o \in Operations :
       LET n == prefs.route[o].id
       IN /\ n # 0
          /\ journal[n].phase \in {"running", "paused"}
          /\ prefs'.route[o].id # n
          => \E d \in Dispatches :
               /\ dispatch[d].pc = "clear"
               /\ Active(dispatch[d].prefs).id = n]_rtVars
===============================================================================
