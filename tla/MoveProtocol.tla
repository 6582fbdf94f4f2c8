------------------------------ MODULE MoveProtocol ------------------------------
(***************************************************************************)
(* The library's Move protocol between two products                        *)
(* (data/interop/move-protocol.ts, move-journal-repository.ts): the source *)
(* queues requests and keeps an item of each, the target imports the       *)
(* record of a request as a pin (record-translation.ts) and answers, the   *)
(* source applies the answer and finalizes what was accepted.              *)
(*                                                                         *)
(* Requests and answers may arrive late, again, or never, and in any       *)
(* order; either product may stop between two awaits.  A step is one       *)
(* transaction or one await; what a call has read is in the call.  The     *)
(* target's translator keeps a listing of the stored pins in memory, which *)
(* its user's deletions do not reach.                                      *)
(***************************************************************************)
EXTENDS Integers, FiniteSets

CONSTANTS
  MoveRequests,    \* request messages; each has an item of its own
  RequestRecord,   \* the record that a request moves
  RequestTransfer, \* the transfer it belongs to
  RequestCategory, \* its review category
  OriginalState,   \* what a record says of its original
  ProtocolCalls,   \* calls that may overlap, of either product
  MaxAnswers,      \* bound: acknowledgements made
  MaxPins          \* bound: pins ever made

Categories == {"eligible", "metadata-only", "duplicate", "conflict", "unsupported", "skipped"}

Verifications == {"verified", "metadata-only", "unavailable"}

ASSUME RequestCategoryAssumption == RequestCategory \in [MoveRequests -> Categories]
ASSUME ProtocolBoundsAssumption == MaxAnswers \in Nat /\ MaxPins \in Nat

ASSUME OriginalStateAssumption ==
  OriginalState \in [{RequestRecord[m] : m \in MoveRequests} -> {"available", "metadata-only", "unavailable"}]

MoveRecords == {RequestRecord[m] : m \in MoveRequests}
Transfers == {RequestTransfer[m] : m \in MoveRequests}
PinIds == 1..MaxPins

VARIABLES
  sourceItem,    \* the source's item of each request
  sourcePhase,   \* the phase of each transfer's journal
  ackReceipts,   \* the answers that the source has applied
  removed,       \* requests whose record the source's finalizer has removed
  targetItem,    \* the target's item of each request, with the answer on its receipt
  answers,       \* the answers recorded: from then on they may arrive
  pin,           \* the target's bookmarks
  listing,       \* storedInteropPins, once they are read
  verified,      \* requests whose original the target has verified
  protocolCall

sourceVars == <<sourceItem, sourcePhase, ackReceipts, removed>>
targetVars == <<targetItem, answers, pin, listing, verified>>
mpVars == <<sourceVars, targetVars, protocolCall>>

NoMoveItem == [state |-> "none"]
SourceItems ==
  [state: {"queued", "acknowledged", "rejected", "finalizing", "finalized", "failed"},
   verification: {"pending", "verified", "metadata-only", "unavailable"},
   acknowledged: BOOLEAN, finalized: BOOLEAN]

Answers ==
  [id: 1..MaxAnswers, request: MoveRequests, accepted: BOOLEAN, persisted: BOOLEAN,
   verification: Verifications, retryable: BOOLEAN]

TargetItems == [category: Categories, answer: Answers]

\* A pin holds a record as it was sent, under its identity with other contents, or
\* under another identity with the same content hash.  One that shares only the
\* origin is a conflict as well, and stands with the divergent ones.
NoPin == [kind |-> "none"]
Pins == [record: MoveRecords, kind: {"exact", "divergent", "twin"}, original: BOOLEAN]
Listings == [PinIds -> Pins \cup {NoPin}]

Unread == <<>>

NoProtocolCall == [pc |-> "none"]
TargetCalls ==
  [pc: {"replay"}, request: MoveRequests, answer: Answers]
    \cup [pc: {"preview"}, request: MoveRequests]
    \cup [pc: {"verify"}, request: MoveRequests, reviewed: Categories]
    \cup [pc: {"import"}, request: MoveRequests, reviewed: Categories, verification: Verifications,
          failed: BOOLEAN]
    \cup [pc: {"refresh", "seal", "record"}, request: MoveRequests, reviewed: Categories,
          verification: Verifications, failed: BOOLEAN, category: Categories, pin: 0..MaxPins,
          persisted: BOOLEAN]
SourceCalls ==
  [pc: {"apply"}, answer: Answers]
    \cup [pc: {"finalize"}, todo: SUBSET MoveRequests]
    \cup [pc: {"finalizer", "finalized", "failed"}, request: MoveRequests, todo: SUBSET MoveRequests]

MpTypeOK ==
  /\ sourceItem \in [MoveRequests -> SourceItems \cup {NoMoveItem}]
  /\ sourcePhase \in [Transfers ->
       {"none", "awaiting-acknowledgement", "acknowledged", "finalizing", "completed", "failed"}]
  /\ ackReceipts \subseteq 1..MaxAnswers
  /\ removed \subseteq MoveRequests
  /\ targetItem \in [MoveRequests -> TargetItems \cup {NoMoveItem}]
  /\ answers \subseteq Answers
  /\ pin \in Listings
  /\ listing # Unread => listing \in Listings
  /\ verified \subseteq MoveRequests
  /\ protocolCall \in [ProtocolCalls -> TargetCalls \cup SourceCalls \cup {NoProtocolCall}]

\* The target may hold one pin from an earlier exchange.
MpInit ==
  /\ sourceItem = [m \in MoveRequests |-> NoMoveItem]
  /\ sourcePhase = [t \in Transfers |-> "none"]
  /\ ackReceipts = {} /\ removed = {}
  /\ targetItem = [m \in MoveRequests |-> NoMoveItem]
  /\ answers = {} /\ verified = {}
  /\ pin \in {[i \in PinIds |-> IF i = 1 THEN p ELSE NoPin] : p \in Pins \cup {NoPin}}
  /\ listing = Unread
  /\ protocolCall = [c \in ProtocolCalls |-> NoProtocolCall]

InProtocol(c, call) == protocolCall' = [protocolCall EXCEPT ![c] = call]
EndProtocol(c) == InProtocol(c, NoProtocolCall)

-------------------------------------------------------------------------------
(* The source queues a request, or queues it once more.                    *)

ItemsOf(t) == {m \in MoveRequests : RequestTransfer[m] = t /\ sourceItem[m] # NoMoveItem}

QueueRequest(m) ==
  /\ sourceItem' = [sourceItem EXCEPT ![m] =
       IF @ = NoMoveItem
       THEN [state |-> "queued", verification |-> "pending", acknowledged |-> FALSE, finalized |-> FALSE]
       ELSE @]
  /\ sourcePhase' = [sourcePhase EXCEPT ![RequestTransfer[m]] =
       IF sourceItem'[m].state = "queued" THEN "awaiting-acknowledgement" ELSE @]
  /\ UNCHANGED <<ackReceipts, removed, targetVars, protocolCall>>

-------------------------------------------------------------------------------
(* receive: the target answers a request it has answered before, or        *)
(* imports the record and records a new answer.                            *)

HasOriginal(m) == OriginalState[RequestRecord[m]] = "available"

ReceiveRequest(c, m) ==
  /\ protocolCall[c] = NoProtocolCall
  /\ sourceItem[m] # NoMoveItem
  /\ InProtocol(c,
       IF targetItem[m] = NoMoveItem THEN [pc |-> "preview", request |-> m]
       ELSE [pc |-> "replay", request |-> m, answer |-> targetItem[m].answer])
  /\ UNCHANGED <<sourceVars, targetVars>>

\* The item must be what the request says, or the request is refused; the item holds
\* the category of the import.
SameIdentity(m) == targetItem[m].category = RequestCategory[m]

ReplayResponse(c) ==
  LET m == protocolCall[c].request
      answer == protocolCall[c].answer
  IN /\ protocolCall[c].pc = "replay"
     /\ IF SameIdentity(m) /\ answer.retryable
        THEN InProtocol(c, [pc |-> "preview", request |-> m])
        ELSE EndProtocol(c)
     /\ UNCHANGED <<sourceVars, targetVars>>

\* The listing is read once and then kept.
Listed == IF listing = Unread THEN pin ELSE listing

Identical(stored, r) ==
  {i \in PinIds : stored[i] # NoPin /\ stored[i].record = r /\ stored[i].kind # "twin"}
Twins(stored, r) ==
  {i \in PinIds : stored[i] # NoPin /\ stored[i].record = r /\ stored[i].kind = "twin"}

\* Whether a record is there under its identity is asked before its content hash.
\* The listing has the order of random keys, so any match may be the first.  Where
\* nothing matches, the category that is asked with stays.
Previews(stored, m, reviewed) ==
  LET r == RequestRecord[m]
      category(i) == IF stored[i].kind = "divergent" THEN "conflict" ELSE "duplicate"
      matches == IF Identical(stored, r) # {} THEN Identical(stored, r) ELSE Twins(stored, r)
  IN IF matches # {} THEN {[category |-> category(i), pin |-> i] : i \in matches}
     ELSE {[category |-> reviewed, pin |-> 0]}

AcceptedCategory(category) == category \in {"eligible", "duplicate", "metadata-only"}
Persistable(category) == category \in {"eligible", "metadata-only"}

Unverified(m) ==
  IF OriginalState[RequestRecord[m]] = "metadata-only" THEN "metadata-only" ELSE "unavailable"

\* The import starts from the category of the preview, not of the request.
Importing(m, reviewed, verification, failed) ==
  [pc |-> "import", request |-> m, reviewed |-> reviewed, verification |-> verification, failed |-> failed]

PreviewRecord(c) ==
  LET m == protocolCall[c].request
  IN /\ protocolCall[c].pc = "preview"
     /\ listing' = Listed
     /\ \E preview \in Previews(Listed, m, RequestCategory[m]) :
          InProtocol(c,
            IF HasOriginal(m) /\ AcceptedCategory(preview.category)
            THEN [pc |-> "verify", request |-> m, reviewed |-> preview.category]
            ELSE Importing(m, preview.category, Unverified(m), FALSE))
     /\ UNCHANGED <<sourceVars, targetItem, answers, pin, verified>>

\* Mutant: an original that fails the comparison passes.
VerifyOriginalTrusting(c) ==
  LET m == protocolCall[c].request
  IN /\ protocolCall[c].pc = "verify"
     /\ InProtocol(c, Importing(m, protocolCall[c].reviewed, "verified", FALSE))
     /\ (verified' = verified \cup {m} \/ UNCHANGED verified)
     /\ UNCHANGED <<sourceVars, targetItem, answers, pin, listing>>

\* The product's verifier compares the original it has received and hands it over,
\* or fails.
VerifyOriginal(c) ==
  LET m == protocolCall[c].request
      reviewed == protocolCall[c].reviewed
  IN /\ protocolCall[c].pc = "verify"
     /\ \/ /\ verified' = verified \cup {m}
           /\ InProtocol(c, Importing(m, reviewed, "verified", FALSE))
        \/ /\ UNCHANGED verified
           /\ InProtocol(c, Importing(m, reviewed, Unverified(m), TRUE))
     /\ UNCHANGED <<sourceVars, targetItem, answers, pin, listing>>

\* What the original of a duplicate adds to the pin of the same identity.
Enriches(call, preview, stored) ==
  /\ preview.category = "duplicate" /\ preview.pin # 0
  /\ stored[preview.pin].kind = "exact"
  /\ call.verification = "verified" /\ ~stored[preview.pin].original

ImportStep(call, pc, preview) ==
  [pc |-> pc, request |-> call.request, reviewed |-> call.reviewed, verification |-> call.verification,
   failed |-> call.failed, category |-> preview.category, pin |-> preview.pin, persisted |-> FALSE]

ImportRecord(c) ==
  LET call == protocolCall[c]
  IN /\ call.pc = "import"
     /\ listing' = Listed
     /\ \E preview \in Previews(Listed, call.request, call.reviewed) :
          InProtocol(c, ImportStep(call,
            IF Enriches(call, preview, Listed) THEN "refresh"
            ELSE IF Persistable(preview.category) THEN "seal" ELSE "record", preview))
     /\ UNCHANGED <<sourceVars, targetItem, answers, pin, verified>>

\* A pin that is to be enriched is read again first; when it is gone the record keeps
\* the category of the preview, a duplicate of nothing perhaps.
RefreshPin(c) ==
  LET call == protocolCall[c]
      stored == [Listed EXCEPT ![call.pin] = pin[call.pin]]
  IN /\ call.pc = "refresh"
     /\ listing' = stored
     /\ \E preview \in Previews(stored, call.request, call.reviewed) :
          InProtocol(c, ImportStep(call,
            IF Persistable(preview.category) \/ Enriches(call, preview, stored) THEN "seal" ELSE "record",
            preview))
     /\ UNCHANGED <<sourceVars, targetItem, answers, pin, verified>>

NewPins == {i \in PinIds : pin[i] = NoPin /\ Listed[i] = NoPin}

\* The pin is put under a new identity of its own, or over the one it enriches.
SealPin(c) ==
  LET call == protocolCall[c]
      sealed == [record |-> RequestRecord[call.request], kind |-> "exact",
                 original |-> call.verification = "verified"]
  IN /\ call.pc = "seal"
     /\ \E i \in IF Persistable(call.category) THEN NewPins ELSE {call.pin} :
          /\ pin' = [pin EXCEPT ![i] = sealed]
          /\ listing' = [Listed EXCEPT ![i] = sealed]
     /\ InProtocol(c, [call EXCEPT !.pc = "record", !.persisted = TRUE])
     /\ UNCHANGED <<sourceVars, targetItem, answers, verified>>

Answer(call) ==
  LET persisted == call.persisted \/ (call.category = "duplicate" /\ call.pin # 0)
  IN [id |-> Cardinality(answers) + 1,
      request |-> call.request,
      accepted |-> persisted /\ AcceptedCategory(call.category)
                     /\ (HasOriginal(call.request) => call.verification = "verified"),
      persisted |-> persisted,
      verification |-> call.verification,
      retryable |-> call.failed \/ call.category = "conflict"]

\* One transaction: the item, the receipt and the answer in the outbox.
RecordTargetAcknowledgement(c) ==
  LET call == protocolCall[c]
      m == call.request
  IN /\ call.pc = "record"
     /\ IF targetItem[m] # NoMoveItem /\ ~SameIdentity(m)
        THEN EndProtocol(c) /\ UNCHANGED <<targetItem, answers>>
        ELSE /\ Cardinality(answers) < MaxAnswers
             /\ targetItem' = [targetItem EXCEPT ![m] = [category |-> call.category, answer |-> Answer(call)]]
             /\ answers' = answers \cup {Answer(call)}
             /\ EndProtocol(c)
     /\ UNCHANGED <<sourceVars, pin, listing, verified>>

\* The target's user deletes a bookmark.
DeletePin(i) ==
  /\ pin[i] # NoPin
  /\ pin' = [pin EXCEPT ![i] = NoPin]
  /\ UNCHANGED <<sourceVars, targetItem, answers, listing, verified, protocolCall>>

-------------------------------------------------------------------------------
(* acknowledge: the source checks an answer, then applies it.              *)

\* An accepted answer must prove the custody that the record claims.
Durable(answer) ==
  /\ answer.persisted
  /\ answer.verification = IF HasOriginal(answer.request) THEN "verified" ELSE Unverified(answer.request)

Acknowledge(c, answer) ==
  /\ protocolCall[c] = NoProtocolCall
  /\ answer.id \notin ackReceipts
  /\ sourceItem[answer.request] # NoMoveItem
  /\ answer.accepted => Durable(answer)
  /\ InProtocol(c, [pc |-> "apply", answer |-> answer])
  /\ UNCHANGED <<sourceVars, targetVars>>

\* Mutant: an answer that comes late replaces what was accepted.
AppliedLast(item, answer) ==
  [item EXCEPT !.state = IF answer.accepted THEN "acknowledged" ELSE "rejected",
     !.verification = answer.verification, !.acknowledged = answer.accepted]

Applied(item, answer) ==
  IF item.acknowledged THEN item
  ELSE [item EXCEPT !.state = IF answer.accepted THEN "acknowledged" ELSE "rejected",
          !.verification = answer.verification, !.acknowledged = answer.accepted]

QueuedBeside(m) == \E n \in ItemsOf(RequestTransfer[m]) \ {m} : sourceItem[n].state = "queued"

ApplyAcknowledgement(c) ==
  LET answer == protocolCall[c].answer
      m == answer.request
  IN /\ protocolCall[c].pc = "apply"
     /\ ackReceipts' = ackReceipts \cup {answer.id}
     /\ sourceItem' = [sourceItem EXCEPT ![m] = Applied(@, answer)]
     /\ sourcePhase' = [sourcePhase EXCEPT ![RequestTransfer[m]] =
          CASE sourceItem[m].acknowledged -> @
            [] ~sourceItem[m].acknowledged /\ ~answer.accepted -> "failed"
            [] OTHER -> IF QueuedBeside(m) THEN "awaiting-acknowledgement" ELSE "acknowledged"]
     /\ EndProtocol(c)
     /\ UNCHANGED <<removed, targetVars>>

-------------------------------------------------------------------------------
(* resumeFinalization                                                      *)

PendingFinalization(t) ==
  {m \in ItemsOf(t) : sourceItem[m].acknowledged /\ ~sourceItem[m].finalized}

ResumeFinalization(c, t) ==
  /\ protocolCall[c] = NoProtocolCall
  /\ PendingFinalization(t) # {}
  /\ InProtocol(c, [pc |-> "finalize", todo |-> PendingFinalization(t)])
  /\ UNCHANGED <<sourceVars, targetVars>>

FinalizationPhase(items, state) ==
  CASE state = "failed" \/ \E i \in items : i.state \in {"failed", "rejected"} -> "failed"
    [] OTHER -> CASE \E i \in items : i.acknowledged /\ ~i.finalized -> "finalizing"
                  [] OTHER -> IF \E i \in items : i.state = "queued" THEN "awaiting-acknowledgement"
                              ELSE "completed"

\* finalizedAt is never taken back.  The guard of the code, that the item is
\* acknowledged, holds of every pending item.
UpdateFinalization(m, state) ==
  LET t == RequestTransfer[m]
  IN /\ sourceItem' = [sourceItem EXCEPT
          ![m].state = state, ![m].finalized = @ \/ state = "finalized"]
     /\ sourcePhase' = [sourcePhase EXCEPT
          ![t] = FinalizationPhase({sourceItem'[n] : n \in ItemsOf(t)}, state)]

\* The items are taken one after the other, here in any order.  An original that is
\* not verified stops the whole call.
MarkFinalizing(c, m) ==
  LET call == protocolCall[c]
  IN /\ call.pc = "finalize" /\ m \in call.todo
     /\ IF HasOriginal(m) /\ sourceItem[m].verification # "verified"
        THEN EndProtocol(c) /\ UNCHANGED <<sourceItem, sourcePhase>>
        ELSE /\ UpdateFinalization(m, "finalizing")
             /\ InProtocol(c, [pc |-> "finalizer", request |-> m, todo |-> call.todo \ {m}])
     /\ UNCHANGED <<ackReceipts, removed, targetVars>>

\* The product's finalizer removes the record, or fails before or after that.
Finalizer(c) ==
  LET call == protocolCall[c]
  IN /\ call.pc = "finalizer"
     /\ \/ /\ removed' = removed \cup {call.request}
           /\ \E outcome \in {"finalized", "failed"} : InProtocol(c, [call EXCEPT !.pc = outcome])
        \/ UNCHANGED removed /\ InProtocol(c, [call EXCEPT !.pc = "failed"])
     /\ UNCHANGED <<sourceItem, sourcePhase, ackReceipts, targetVars>>

MarkFinalization(c) ==
  LET call == protocolCall[c]
  IN /\ call.pc \in {"finalized", "failed"}
     /\ UpdateFinalization(call.request, call.pc)
     /\ IF call.todo = {} THEN EndProtocol(c)
        ELSE InProtocol(c, [pc |-> "finalize", todo |-> call.todo])
     /\ UNCHANGED <<ackReceipts, removed, targetVars>>

-------------------------------------------------------------------------------
(* A transaction may fail, and either product may stop; what is in its     *)
(* database stays.                                                         *)

ProtocolFails(c) ==
  /\ protocolCall[c].pc \in {"replay", "seal", "record", "apply", "finalize", "failed"}
  /\ EndProtocol(c)
  /\ UNCHANGED <<sourceVars, targetVars>>

TargetPcs == {"replay", "preview", "verify", "import", "refresh", "seal", "record"}
Stopped(pcs) ==
  protocolCall' = [c \in ProtocolCalls |->
    IF protocolCall[c].pc \in pcs THEN NoProtocolCall ELSE protocolCall[c]]

TargetStops ==
  /\ listing' = Unread
  /\ Stopped(TargetPcs)
  /\ UNCHANGED <<sourceVars, targetItem, answers, pin, verified>>

SourceStops ==
  /\ Stopped({"apply", "finalize", "finalizer", "finalized", "failed"})
  /\ UNCHANGED <<sourceVars, targetVars>>

MpNext ==
  \/ \E m \in MoveRequests : QueueRequest(m)
  \/ \E c \in ProtocolCalls :
       \/ \E m \in MoveRequests : ReceiveRequest(c, m) \/ MarkFinalizing(c, m)
       \/ ReplayResponse(c) \/ PreviewRecord(c) \/ VerifyOriginal(c) \/ ImportRecord(c)
       \/ RefreshPin(c) \/ SealPin(c) \/ RecordTargetAcknowledgement(c)
       \/ \E answer \in answers : Acknowledge(c, answer)
       \/ ApplyAcknowledgement(c)
       \/ \E t \in Transfers : ResumeFinalization(c, t)
       \/ Finalizer(c) \/ MarkFinalization(c) \/ ProtocolFails(c)
  \/ \E i \in PinIds : DeletePin(i)
  \/ TargetStops \/ SourceStops

MpSpec == MpInit /\ [][MpNext]_mpVars

-------------------------------------------------------------------------------
(* Properties                                                              *)

\* The source removes a record only when the target has answered that it took it,
\* and with an original only after the target has verified that original, however
\* old the answers are and however calls overlap.
RemovalIsProven ==
  \A m \in removed :
    /\ \E a \in answers : a.request = m /\ a.accepted /\ a.persisted
    /\ HasOriginal(m) => m \in verified

\* What was accepted or finalized stays so: no late answer and no second
\* finalization takes it back.
AcceptanceStays ==
  [][\A m \in MoveRequests : sourceItem[m] # NoMoveItem =>
       /\ sourceItem[m].acknowledged => sourceItem'[m].acknowledged
       /\ sourceItem[m].finalized => sourceItem'[m].finalized]_mpVars
===============================================================================
