------------------------------- MODULE SyncJournal -------------------------------
(***************************************************************************)
(* The library's side of a Sync session (data/interop/sync-protocol.ts and *)
(* sync-journal-repository.ts): the durable session, its items with the    *)
(* reviewer's decisions, the receipts of messages, and the application of  *)
(* reviewed items to a library.                                            *)
(*                                                                         *)
(* Every operation reads in one transaction and puts whole records in      *)
(* another, so a call carries what it has read from step to step.          *)
(* What a message makes of an item is its analysis (SyncResolution),       *)
(* which depends on the local record that the caller reads beside it.      *)
(***************************************************************************)
EXTENDS Integers, FiniteSets

CONSTANTS
  JournalCalls,   \* calls that may overlap
  JournalItems,   \* records of the session
  Messages,
  ItemOf,         \* the record that a message carries
  JournalFields,  \* fields that may conflict
  AnalysesOf,     \* the analyses that a message may get
  Sides,          \* the products
  MaxCheckpoint   \* bound: checkpoints

\* What analyzeSyncRecords returns, and whether one of the records is a tombstone;
\* the merged record of an eligible item is none, but an older one may be.
Analyses ==
  {a \in [category: {"eligible", "duplicate", "conflict", "delete-review"},
          conflicts: SUBSET JournalFields, tombstone: BOOLEAN] :
     /\ a.category = "conflict" <=> a.conflicts # {}
     /\ a.category = "delete-review" => a.tombstone}

ASSUME ItemOfAssumption == ItemOf \in [Messages -> JournalItems]
ASSUME AnalysesAssumption == AnalysesOf \in [Messages -> SUBSET Analyses]
ASSUME JournalBoundsAssumption == MaxCheckpoint \in Nat

VARIABLES
  journalSession,
  journalItem,  \* journalItem[i]: the stored item of record i
  receipts,     \* messages with a receipt
  approved,     \* deletions that the reviewer has approved: message and analysis
  unapproved,   \* a tombstone has reached the library without approval
  journalCall

sjVars == <<journalSession, journalItem, receipts, approved, unapproved, journalCall>>

NoSession == [phase |-> "none"]
JournalSessions ==
  [phase: {"reviewing", "paused", "cancelled"}, connected: BOOLEAN, checkpoint: [Sides -> 0..MaxCheckpoint]]

NoItem == [state |-> "none"]
SyncItems ==
  [message: Messages, analysis: Analyses, decided: SUBSET JournalFields,
   delete: {"none", "apply", "keep"},
   state: {"eligible", "duplicate", "conflict", "delete-review", "ready", "skipped", "failed", "applied"}]

ItemRequests ==
  [name: {"decide"}, item: JournalItems, field: JournalFields, all: BOOLEAN]
    \cup [name: {"reviewDelete"}, item: JournalItems, delete: {"apply", "keep"}]
    \cup [name: {"apply", "markApplied", "markFailed"}, item: JournalItems]

NoCall == [pc |-> "none"]

SjTypeOK ==
  /\ journalSession \in JournalSessions \cup {NoSession}
  /\ journalItem \in [JournalItems -> SyncItems \cup {NoItem}]
  /\ receipts \subseteq Messages
  /\ approved \subseteq Messages \X Analyses
  /\ unapproved \in BOOLEAN
  /\ journalCall \in [JournalCalls ->
       {NoCall}
         \cup [pc: {"active", "put", "receipt"}, message: Messages, analysis: Analyses]
         \cup [pc: {"read"}, request: ItemRequests]
         \cup [pc: {"update"}, item: SyncItems]
         \cup [pc: {"applier"}, item: SyncItems]
         \cup [pc: {"control"}, session: JournalSessions]]

SjInit ==
  /\ journalSession = NoSession
  /\ journalItem = [i \in JournalItems |-> NoItem]
  /\ receipts = {}
  /\ approved = {} /\ unapproved = FALSE
  /\ journalCall = [c \in JournalCalls |-> NoCall]

-------------------------------------------------------------------------------
ActiveSession ==
  journalSession # NoSession /\ journalSession.connected /\ journalSession.phase = "reviewing"

InCall(c, call) == journalCall' = [journalCall EXCEPT ![c] = call]
EndCall(c) == InCall(c, NoCall)

CreateSession ==
  /\ journalSession = NoSession
  /\ journalSession' =
       [phase |-> "reviewing", connected |-> TRUE, checkpoint |-> [p \in Sides |-> 0]]
  /\ UNCHANGED <<journalItem, receipts, approved, unapproved, journalCall>>

-------------------------------------------------------------------------------
(* receive: a message without a receipt becomes the item of its record.    *)

Receive(c, m, analysis) ==
  /\ journalCall[c] = NoCall /\ journalSession # NoSession
  /\ m \notin receipts
  /\ InCall(c, [pc |-> "active", message |-> m, analysis |-> analysis])
  /\ UNCHANGED <<journalSession, journalItem, receipts, approved, unapproved>>

ReceiveActive(c) ==
  /\ journalCall[c].pc = "active"
  /\ IF ActiveSession THEN InCall(c, [journalCall[c] EXCEPT !.pc = "put"]) ELSE EndCall(c)
  /\ UNCHANGED <<journalSession, journalItem, receipts, approved, unapproved>>

PutItem(c) ==
  LET m == journalCall[c].message
      analysis == journalCall[c].analysis
  IN /\ journalCall[c].pc = "put"
     /\ journalItem' = [journalItem EXCEPT ![ItemOf[m]] =
          [message |-> m, analysis |-> analysis, decided |-> {}, delete |-> "none",
           state |-> analysis.category]]
     /\ InCall(c, [journalCall[c] EXCEPT !.pc = "receipt"])
     /\ UNCHANGED <<journalSession, receipts, approved, unapproved>>

RecordReceipt(c) ==
  /\ journalCall[c].pc = "receipt"
  /\ receipts' = receipts \cup {journalCall[c].message}
  /\ EndCall(c)
  /\ UNCHANGED <<journalSession, journalItem, approved, unapproved>>

-------------------------------------------------------------------------------
(* decide, reviewDelete and apply: the session is read, then the item.     *)

Request(c, request) ==
  /\ journalCall[c] = NoCall
  /\ ActiveSession
  /\ InCall(c, [pc |-> "read", request |-> request])
  /\ UNCHANGED <<journalSession, journalItem, receipts, approved, unapproved>>

Read(c, name) == journalCall[c].pc = "read" /\ journalCall[c].request.name = name
ItemRead(c) == journalItem[journalCall[c].request.item]

AllDecided(item) == item.analysis.conflicts \subseteq item.decided

\* Mutant: with the last decision the item is ready, a deletion too.
DecideReady(c) ==
  LET request == journalCall[c].request
      item == ItemRead(c)
      decided == IF request.all THEN item.decided \cup item.analysis.conflicts
                 ELSE item.decided \cup {request.field}
      next == [item EXCEPT !.decided = decided]
  IN /\ Read(c, "decide")
     /\ IF item # NoItem /\ request.field \in item.analysis.conflicts
        THEN InCall(c, [pc |-> "update", item |->
               [next EXCEPT !.state = IF AllDecided(next) THEN "ready" ELSE "conflict"]])
        ELSE EndCall(c)
     /\ UNCHANGED <<journalSession, journalItem, receipts, approved, unapproved>>

Decide(c) ==
  LET request == journalCall[c].request
      item == ItemRead(c)
      decided == IF request.all THEN item.decided \cup item.analysis.conflicts
                 ELSE item.decided \cup {request.field}
      next == [item EXCEPT !.decided = decided]
      state == IF ~AllDecided(next) THEN "conflict"
               ELSE IF item.analysis.tombstone THEN "delete-review" ELSE "ready"
  IN /\ Read(c, "decide")
     /\ IF item # NoItem /\ request.field \in item.analysis.conflicts
        THEN InCall(c, [pc |-> "update", item |-> [next EXCEPT !.state = state]])
        ELSE EndCall(c)
     /\ UNCHANGED <<journalSession, journalItem, receipts, approved, unapproved>>

ReviewDelete(c) ==
  LET delete == journalCall[c].request.delete
      item == ItemRead(c)
  IN /\ Read(c, "reviewDelete")
     /\ IF item # NoItem /\ item.state = "delete-review"
        THEN /\ InCall(c, [pc |-> "update", item |->
                  [item EXCEPT !.delete = delete,
                               !.state = IF delete = "apply" THEN "ready" ELSE "skipped"]])
             /\ approved' = IF delete = "apply" THEN approved \cup {<<item.message, item.analysis>>}
                            ELSE approved
        ELSE EndCall(c) /\ UNCHANGED approved
     /\ UNCHANGED <<journalSession, journalItem, receipts, unapproved>>

\* The whole item that was read, changed, is put over whatever is there now.
PutItemUpdate(c) ==
  LET item == journalCall[c].item
  IN /\ journalCall[c].pc = "update"
     /\ journalItem' = [journalItem EXCEPT ![ItemOf[item.message]] = item]
     /\ EndCall(c)
     /\ UNCHANGED <<journalSession, receipts, approved, unapproved>>

\* Mutant: what is eligible needs no review.
MayApplyEligible(item) == item.state = "eligible" \/ (item.analysis.tombstone => item.delete = "apply")

MayApply(item) == item.analysis.tombstone => item.delete = "apply"

Apply(c) ==
  LET item == ItemRead(c)
  IN /\ Read(c, "apply")
     /\ CASE item.state = "duplicate" ->
               InCall(c, [journalCall[c] EXCEPT !.request.name = "markApplied"])
          [] item.state \in {"eligible", "ready"} /\ MayApply(item) ->
               InCall(c, [pc |-> "applier", item |-> item])
          [] OTHER -> EndCall(c)
     /\ UNCHANGED <<journalSession, journalItem, receipts, approved, unapproved>>

\* The product's applier takes the item it is given to the library, and may fail
\* before or after that.
Applier(c) ==
  LET item == journalCall[c].item
      m == item.message
  IN /\ journalCall[c].pc = "applier"
     /\ \/ /\ unapproved' = (unapproved \/ (item.analysis.tombstone /\ <<m, item.analysis>> \notin approved))
           /\ \E mark \in {"markApplied", "markFailed"} :
                InCall(c, [pc |-> "read", request |-> [name |-> mark, item |-> ItemOf[m]]])
        \/ /\ InCall(c, [pc |-> "read", request |-> [name |-> "markFailed", item |-> ItemOf[m]]])
           /\ UNCHANGED unapproved
     /\ UNCHANGED <<journalSession, journalItem, receipts, approved>>

\* markApplied and markFailed read the item once more.
Mark(c) ==
  LET state == IF journalCall[c].request.name = "markApplied" THEN "applied" ELSE "failed"
  IN /\ Read(c, "markApplied") \/ Read(c, "markFailed")
     /\ InCall(c, [pc |-> "update", item |-> [ItemRead(c) EXCEPT !.state = state]])
     /\ UNCHANGED <<journalSession, journalItem, receipts, approved, unapproved>>

-------------------------------------------------------------------------------
(* Controls and checkpoints                                                *)

Control(c, control) ==
  /\ journalCall[c] = NoCall /\ journalSession # NoSession
  /\ control # "disconnect" => journalSession.connected /\ journalSession.phase # "cancelled"
  /\ InCall(c, [pc |-> "control", session |->
       [journalSession EXCEPT
          !.phase = CASE control = "pause" -> "paused"
                      [] control = "resume" -> "reviewing"
                      [] control \in {"cancel", "disconnect"} -> "cancelled",
          !.connected = IF control = "disconnect" THEN FALSE ELSE @]])
  /\ UNCHANGED <<journalSession, journalItem, receipts, approved, unapproved>>

AdvanceCheckpoint(c, side, checkpoint) ==
  /\ journalCall[c] = NoCall /\ ActiveSession
  /\ InCall(c, [pc |-> "control", session |->
       [journalSession EXCEPT !.checkpoint[side] = IF @ >= checkpoint THEN @ ELSE checkpoint]])
  /\ UNCHANGED <<journalSession, journalItem, receipts, approved, unapproved>>

PutSession(c) ==
  /\ journalCall[c].pc = "control"
  /\ journalSession' = journalCall[c].session
  /\ EndCall(c)
  /\ UNCHANGED <<journalItem, receipts, approved, unapproved>>

\* The process stops; the database stays.
SjStops ==
  /\ \E c \in JournalCalls : journalCall[c] # NoCall
  /\ journalCall' = [c \in JournalCalls |-> NoCall]
  /\ UNCHANGED <<journalSession, journalItem, receipts, approved, unapproved>>

SjNext ==
  \/ CreateSession
  \/ \E c \in JournalCalls :
       \/ \E m \in Messages : \E a \in AnalysesOf[m] : Receive(c, m, a)
       \/ ReceiveActive(c) \/ PutItem(c) \/ RecordReceipt(c)
       \/ \E r \in ItemRequests :
            r.name \in {"decide", "reviewDelete", "apply"} /\ Request(c, r)
       \/ Decide(c) \/ ReviewDelete(c) \/ Apply(c) \/ PutItemUpdate(c)
       \/ Applier(c) \/ Mark(c)
       \/ \E control \in {"pause", "resume", "cancel", "disconnect"} : Control(c, control)
       \/ \E s \in Sides, n \in 1..MaxCheckpoint : AdvanceCheckpoint(c, s, n)
       \/ PutSession(c)
  \/ SjStops

SjSpec == SjInit /\ [][SjNext]_sjVars

-------------------------------------------------------------------------------
(* Properties                                                              *)

\* An item is offered for application only when it is fully reviewed, however
\* decisions, reviews of its deletion, new messages and marks have overwritten one
\* another: all conflicts decided, and a deletion approved.
Reviewed(item) ==
  /\ item.state = "ready" =>
       AllDecided(item) /\ (item.analysis.tombstone => item.delete = "apply")
  /\ item.state = "eligible" => item.analysis.conflicts = {}

ReadyIsReviewed == \A i \in JournalItems : journalItem[i] # NoItem => Reviewed(journalItem[i])

\* A tombstone reaches the library only after the reviewer approved the deletion of
\* this very message, as it was analysed.
DeletionsAreApproved == ~unapproved
===============================================================================
