------------------------------- MODULE LibraryProofs -------------------------------
(***************************************************************************)
(* Proofs about the library's records in the two protocols.                *)
(*                                                                         *)
(* Sync: the journal's types, that only reviewed items are offered for     *)
(* application, and that no deletion reaches the library unapproved.       *)
(*                                                                         *)
(* Move: that a record is removed only after the target has answered that  *)
(* it took it, and that no late answer takes an acceptance back.           *)
(*                                                                         *)
(* Convergence: that no apply of a stored item loses an edit unseen, and   *)
(* that copies with the same revision of a field agree on it unless a      *)
(* reviewer has decided, for any fields and any number of edits and        *)
(* snapshots, if the applier checks; and what holds of any applier.        *)
(*                                                                         *)
(* Together: that the parts which exchange data (MCExchange) behave as     *)
(* their own specifications say.                                           *)
(***************************************************************************)
EXTENDS MCExchange, TransportProofs, FiniteSetTheorems, TLAPS

-------------------------------------------------------------------------------
(* The Sync journal                                                        *)


Pending(item) == <<item.message, item.analysis>>

\* An item, stored or carried by a call, is reviewed as far as its state says.
ItemSound(item) ==
  /\ Reviewed(item)
  /\ item.state = "delete-review" => AllDecided(item)
  /\ item.delete = "apply" => Pending(item) \in approved

StoredSound(i) ==
  journalItem[i] # NoItem => ItemOf[journalItem[i].message] = i /\ ItemSound(journalItem[i])

CallTypes ==
  {NoCall}
    \cup [pc: {"active", "put", "receipt"}, message: Messages, analysis: Analyses]
    \cup [pc: {"read"}, request: ItemRequests]
    \cup [pc: {"update"}, item: SyncItems]
    \cup [pc: {"applier"}, item: SyncItems]
    \cup [pc: {"control"}, session: JournalSessions]

Marks(request) == request.name \in {"markApplied", "markFailed"}

CallSound(x) ==
  /\ x \in CallTypes
  /\ x.pc \in {"update", "applier"} =>
       ItemSound(x.item) /\ journalItem[ItemOf[x.item.message]] # NoItem
  /\ x.pc = "applier" => MayApply(x.item)
  /\ x.pc = "read" => (Marks(x.request) => journalItem[x.request.item] # NoItem)

JournalInv ==
  /\ SjTypeOK
  /\ \A i \in JournalItems : StoredSound(i)
  /\ \A c \in JournalCalls : CallSound(journalCall[c])
  /\ unapproved = FALSE

-------------------------------------------------------------------------------
\* Items are not removed and approvals are not withdrawn, so what a call carries
\* stays sound.
LEMMA SoundStays ==
  ASSUME NEW x, CallSound(x), approved \subseteq approved',
         \A i \in JournalItems : journalItem[i] # NoItem => journalItem'[i] # NoItem
  PROVE  CallSound(x)'
  <1>1. x.pc \in {"update", "applier"} => x.item \in SyncItems /\ ItemOf[x.item.message] \in JournalItems
    BY ItemOfAssumption DEF CallSound, CallTypes, NoCall, SyncItems
  <1>2. x.pc = "read" => x.request \in ItemRequests /\ x.request.item \in JournalItems
    BY DEF CallSound, CallTypes, NoCall, ItemRequests
  <1>3. ASSUME NEW item, ItemSound(item) PROVE ItemSound(item)'
    BY <1>3 DEF ItemSound, Reviewed, AllDecided, Pending
  <1>4. x.pc \in {"update", "applier"} =>
          ItemSound(x.item)' /\ journalItem'[ItemOf[x.item.message]] # NoItem
    BY <1>1, <1>3 DEF CallSound
  <1>5. x.pc = "read" => (Marks(x.request) => journalItem'[x.request.item] # NoItem)
    BY <1>2 DEF CallSound
  <1> QED
    BY <1>4, <1>5 DEF CallSound, CallTypes, MayApply, Marks, NoCall, SyncItems, ItemRequests, JournalSessions, Analyses

\* What a step of call c has to show.
LEMMA CallStep ==
  ASSUME JournalInv, NEW c \in JournalCalls, NEW x, CallSound(x)', InCall(c, x),
         journalSession' \in JournalSessions \cup {NoSession}, receipts' \subseteq Messages,
         approved \subseteq approved', approved' \subseteq Messages \X Analyses, unapproved' = FALSE,
         journalItem' \in [JournalItems -> SyncItems \cup {NoItem}],
         \A i \in JournalItems :
           journalItem'[i] = journalItem[i] \/ (journalItem'[i] \in SyncItems /\ StoredSound(i)')
  PROVE  JournalInv'
  <1>1. /\ journalCall' = [journalCall EXCEPT ![c] = x]
        /\ \A b \in JournalCalls : journalCall[b] \in CallTypes /\ CallSound(journalCall[b])
        /\ journalCall \in [JournalCalls -> CallTypes]
    BY DEF InCall, JournalInv, CallSound, SjTypeOK, CallTypes
  <1>2. x \in CallTypes
    BY DEF CallSound, CallTypes, NoCall, SyncItems, ItemRequests, JournalSessions, Analyses
  <1>3. /\ journalCall' \in [JournalCalls -> CallTypes] /\ journalCall'[c] = x
        /\ \A b \in JournalCalls : b # c => journalCall'[b] = journalCall[b]
    BY <1>1, <1>2
  <1>4. \A i \in JournalItems : journalItem[i] # NoItem => journalItem'[i] # NoItem
    BY DEF NoItem, SyncItems
  <1>5. \A b \in JournalCalls : CallSound(journalCall[b])'
    <2>1. \A y : CallSound(y) => CallSound(y)'
      BY <1>4, SoundStays
    <2> QED
      BY <1>1, <1>3, <2>1
  <1>6. \A i \in JournalItems : StoredSound(i)'
    <2> SUFFICES ASSUME NEW i \in JournalItems, journalItem'[i] = journalItem[i] PROVE StoredSound(i)'
      OBVIOUS
    <2>1. StoredSound(i)
      BY DEF JournalInv
    <2> QED
      BY <2>1 DEF StoredSound, ItemSound, Reviewed, AllDecided, Pending, NoItem
  <1>7. SjTypeOK'
    BY <1>3 DEF SjTypeOK, CallTypes, JournalSessions, NoSession, SyncItems, NoItem, Analyses, NoCall, ItemRequests
  <1> QED
    BY <1>5, <1>6, <1>7 DEF JournalInv

\* A step that changes only what its call carries.
LEMMA QuietCall ==
  ASSUME JournalInv, NEW c \in JournalCalls, NEW x, CallSound(x), InCall(c, x),
         UNCHANGED <<journalSession, journalItem, receipts, approved, unapproved>>
  PROVE  JournalInv'
  <1>1. CallSound(x)'
    BY SoundStays
  <1> QED
    BY <1>1, CallStep DEF JournalInv, SjTypeOK

LEMMA NoCallSound == CallSound(NoCall) /\ CallSound(NoCall)'
  BY DEF CallSound, NoCall, CallTypes

LEMMA EndStep ==
  ASSUME JournalInv, NEW c \in JournalCalls, EndCall(c),
         UNCHANGED <<journalSession, journalItem, receipts, approved, unapproved>>
  PROVE  JournalInv'
  BY QuietCall, NoCallSound DEF EndCall

\* What the invariant says of a call and of the item it reads.
LEMMA CallFacts ==
  ASSUME JournalInv, NEW c \in JournalCalls
  PROVE  /\ CallSound(journalCall[c]) /\ journalCall[c] \in CallTypes
         /\ journalCall[c].pc = "read" =>
              /\ journalCall[c].request \in ItemRequests /\ journalCall[c].request.item \in JournalItems
              /\ ItemRead(c) # NoItem =>
                   ItemRead(c) \in SyncItems /\ ItemSound(ItemRead(c))
                   /\ ItemOf[ItemRead(c).message] = journalCall[c].request.item
         /\ journalCall[c].pc \in {"update", "applier"} =>
              journalCall[c].item \in SyncItems /\ ItemOf[journalCall[c].item.message] \in JournalItems
         /\ journalCall[c].pc \in {"active", "put", "receipt"} =>
              journalCall[c].message \in Messages /\ journalCall[c].analysis \in Analyses
  <1>1. CallSound(journalCall[c]) /\ journalCall[c] \in CallTypes
    BY DEF JournalInv, CallSound
  <1>2. journalCall[c].pc = "read" =>
          journalCall[c].request \in ItemRequests /\ journalCall[c].request.item \in JournalItems
    BY <1>1 DEF CallTypes, NoCall, ItemRequests
  <1>3. journalCall[c].pc \in {"update", "applier"} =>
          journalCall[c].item \in SyncItems /\ ItemOf[journalCall[c].item.message] \in JournalItems
    BY <1>1, ItemOfAssumption DEF CallTypes, NoCall, SyncItems
  <1>4. journalCall[c].pc \in {"active", "put", "receipt"} =>
          journalCall[c].message \in Messages /\ journalCall[c].analysis \in Analyses
    BY <1>1 DEF CallTypes, NoCall
  <1> QED
    BY <1>1, <1>2, <1>3, <1>4 DEF JournalInv, SjTypeOK, StoredSound, ItemRead
-------------------------------------------------------------------------------
(* The actions                                                             *)

LEMMA ReceiveKeeps ==
  ASSUME JournalInv, NEW c \in JournalCalls, NEW m \in Messages, NEW a \in AnalysesOf[m], Receive(c, m, a)
  PROVE  JournalInv'
  <1> DEFINE x == [pc |-> "active", message |-> m, analysis |-> a]
  <1>1. a \in Analyses
    BY AnalysesAssumption
  <1>2. CallSound(x)
    BY <1>1 DEF CallSound, CallTypes
  <1> QED
    BY <1>2, QuietCall DEF Receive

LEMMA ReceiveActiveKeeps ==
  ASSUME JournalInv, NEW c \in JournalCalls, ReceiveActive(c)
  PROVE  JournalInv'
  <1> DEFINE x == [journalCall[c] EXCEPT !.pc = "put"]
  <1>1. journalCall[c] \in [pc: {"active", "put", "receipt"}, message: Messages, analysis: Analyses]
    BY CallFacts DEF ReceiveActive, CallTypes, NoCall
  <1>2. x \in [pc: {"active", "put", "receipt"}, message: Messages, analysis: Analyses] /\ x.pc = "put"
    BY <1>1
  <1>3. CallSound(x)
    BY <1>2 DEF CallSound, CallTypes
  <1> QED
    BY <1>3, QuietCall, EndStep DEF ReceiveActive

\* The new item of a message says no more than its analysis.
LEMMA PutItemKeeps ==
  ASSUME JournalInv, NEW c \in JournalCalls, PutItem(c)
  PROVE  JournalInv'
  <1>0. PICK x, item, i :
          /\ x = [journalCall[c] EXCEPT !.pc = "receipt"]
          /\ item = [message |-> journalCall[c].message, analysis |-> journalCall[c].analysis,
                     decided |-> {}, delete |-> "none", state |-> journalCall[c].analysis.category]
          /\ i = ItemOf[journalCall[c].message]
    OBVIOUS
  <1>1. /\ journalCall[c].pc = "put" /\ journalItem' = [journalItem EXCEPT ![i] = item] /\ InCall(c, x)
        /\ UNCHANGED <<journalSession, receipts, approved, unapproved>>
    BY <1>0 DEF PutItem
  <1>2. journalCall[c] \in [pc: {"active", "put", "receipt"}, message: Messages, analysis: Analyses]
    BY <1>1, CallFacts DEF CallTypes, NoCall
  <1>3. x \in [pc: {"active", "put", "receipt"}, message: Messages, analysis: Analyses] /\ x.pc = "receipt"
    BY <1>0, <1>2
  <1>4. CallSound(x)'
    BY <1>3 DEF CallSound, CallTypes
  <1>5. /\ item \in SyncItems /\ i \in JournalItems /\ ItemOf[item.message] = i
        /\ item.delete = "none" /\ item.state = item.analysis.category /\ item.analysis \in Analyses
    BY <1>0, <1>2, ItemOfAssumption DEF SyncItems, Analyses
  <1>6. ItemSound(item)'
    BY <1>5 DEF ItemSound, Reviewed, AllDecided, Analyses
  <1>7. /\ journalItem' \in [JournalItems -> SyncItems \cup {NoItem}] /\ journalItem'[i] = item
        /\ \A k \in JournalItems : k # i => journalItem'[k] = journalItem[k]
    BY <1>1, <1>5 DEF JournalInv, SjTypeOK
  <1>8. StoredSound(i)'
    BY <1>5, <1>6, <1>7 DEF StoredSound, ItemSound, Reviewed, AllDecided, Pending
  <1> QED
    BY <1>1, <1>4, <1>5, <1>7, <1>8, CallStep DEF JournalInv, SjTypeOK

LEMMA RecordReceiptKeeps ==
  ASSUME JournalInv, NEW c \in JournalCalls, RecordReceipt(c)
  PROVE  JournalInv'
  <1>1. receipts' \subseteq Messages
    BY CallFacts DEF RecordReceipt, JournalInv, SjTypeOK
  <1> QED
    BY <1>1, CallStep, NoCallSound DEF RecordReceipt, EndCall, JournalInv, SjTypeOK

LEMMA RequestKeeps ==
  ASSUME JournalInv, NEW c \in JournalCalls, NEW r \in ItemRequests,
         r.name \in {"decide", "reviewDelete", "apply"}, Request(c, r)
  PROVE  JournalInv'
  <1>1. CallSound([pc |-> "read", request |-> r])
    BY DEF CallSound, CallTypes, Marks
  <1> QED
    BY <1>1, QuietCall DEF Request

\* An item to be put, made from the one that was read.
LEMMA UpdateSound ==
  ASSUME JournalInv, NEW c \in JournalCalls, journalCall[c].pc = "read", ItemRead(c) # NoItem,
         NEW item \in SyncItems, item.message = ItemRead(c).message, NEW x,
         \/ x = [pc |-> "update", item |-> item]
         \/ x = [pc |-> "applier", item |-> item] /\ MayApply(item)
  PROVE  /\ ItemSound(item) => CallSound(x)
         /\ ItemSound(item)' /\ UNCHANGED journalItem => CallSound(x)'
  <1>1. journalItem[ItemOf[item.message]] # NoItem
    BY CallFacts DEF ItemRead
  <1>2. x \in CallTypes /\ x.pc \in {"update", "applier"} /\ x.item = item /\ (x.pc = "applier" => MayApply(item))
    BY DEF CallTypes
  <1> QED
    BY <1>1, <1>2 DEF CallSound, CallTypes, MayApply, NoCall, SyncItems, ItemRequests, JournalSessions, Analyses

LEMMA DecideKeeps ==
  ASSUME JournalInv, NEW c \in JournalCalls, Decide(c)
  PROVE  JournalInv'
  <1> DEFINE request == journalCall[c].request
             item == ItemRead(c)
             fields == IF request.all THEN item.decided \cup item.analysis.conflicts
                       ELSE item.decided \cup {request.field}
             next == [item EXCEPT !.decided = fields]
             state == IF ~AllDecided(next) THEN "conflict"
                      ELSE IF item.analysis.tombstone THEN "delete-review" ELSE "ready"
             last == [next EXCEPT !.state = state]
  <1>1. /\ journalCall[c].pc = "read" /\ request.name = "decide"
        /\ UNCHANGED <<journalSession, journalItem, receipts, approved, unapproved>>
    BY DEF Decide, Read
  <1>2. CASE ~(item # NoItem /\ request.field \in item.analysis.conflicts)
    BY <1>1, <1>2, EndStep DEF Decide
  <1>3. CASE item # NoItem /\ request.field \in item.analysis.conflicts
    <2>1. item \in SyncItems /\ ItemSound(item)
      BY <1>1, <1>3, CallFacts
    <2>2. fields \subseteq JournalFields
      BY <1>3, <2>1 DEF SyncItems, Analyses
    <2>3. next \in SyncItems /\ next.analysis = item.analysis /\ next.message = item.message /\ next.delete = item.delete
      BY <2>1, <2>2 DEF SyncItems
    <2> HIDE DEF fields
    <2>4. /\ last \in SyncItems /\ last.message = item.message /\ last.analysis = item.analysis
          /\ last.delete = item.delete /\ last.state = state /\ last.decided = next.decided
      BY <2>3 DEF SyncItems
    <2> HIDE DEF next, last
    <2>5. ItemSound(last)
      BY <2>1, <2>3, <2>4 DEF ItemSound, Reviewed, AllDecided, Pending
    <2>6. CallSound([pc |-> "update", item |-> last])
      BY <1>1, <1>3, <2>4, <2>5, UpdateSound
    <2>7. InCall(c, [pc |-> "update", item |-> last])
      BY <1>3 DEF Decide, last, next, fields
    <2> QED
      BY <1>1, <2>6, <2>7, QuietCall
  <1> QED
    BY <1>2, <1>3

LEMMA ReviewDeleteKeeps ==
  ASSUME JournalInv, NEW c \in JournalCalls, ReviewDelete(c)
  PROVE  JournalInv'
  <1>0. PICK item, delete, last :
          /\ item = ItemRead(c) /\ delete = journalCall[c].request.delete
          /\ last = [item EXCEPT !.delete = delete, !.state = IF delete = "apply" THEN "ready" ELSE "skipped"]
    OBVIOUS
  <1>1. /\ journalCall[c].pc = "read" /\ journalCall[c].request.name = "reviewDelete"
        /\ UNCHANGED <<journalSession, journalItem, receipts, unapproved>>
    BY DEF ReviewDelete, Read
  <1>2. delete \in {"apply", "keep"}
    BY <1>0, <1>1, CallFacts DEF ItemRequests
  <1>3. CASE ~(item # NoItem /\ item.state = "delete-review")
    BY <1>0, <1>1, <1>3, EndStep DEF ReviewDelete
  <1>4. CASE item # NoItem /\ item.state = "delete-review"
    <2>1. item \in SyncItems /\ ItemSound(item)
      BY <1>0, <1>1, <1>4, CallFacts
    <2>2. /\ last \in SyncItems /\ last.message = item.message /\ last.analysis = item.analysis
          /\ last.delete = delete /\ last.state = (IF delete = "apply" THEN "ready" ELSE "skipped")
          /\ last.decided = item.decided
      BY <1>0, <1>2, <2>1 DEF SyncItems
    <2>3. /\ approved' = IF delete = "apply" THEN approved \cup {Pending(item)} ELSE approved
          /\ InCall(c, [pc |-> "update", item |-> last])
      BY <1>0, <1>4 DEF ReviewDelete, Pending
    <2>4. Pending(item) \in Messages \X Analyses /\ Pending(last) = Pending(item)
      BY <2>1, <2>2 DEF SyncItems, Pending
    <2>5. ItemSound(last)'
      BY <1>4, <2>1, <2>2, <2>3, <2>4 DEF ItemSound, Reviewed, AllDecided, Pending
    <2>6. PICK x : x = [pc |-> "update", item |-> last]
      OBVIOUS
    <2>7. CallSound(x)'
      BY <1>0, <1>1, <1>4, <2>2, <2>5, <2>6, UpdateSound
    <2>8. approved \subseteq approved' /\ approved' \subseteq Messages \X Analyses
      BY <2>3, <2>4 DEF JournalInv, SjTypeOK
    <2> QED
      BY <1>1, <2>3, <2>6, <2>7, <2>8, CallStep DEF JournalInv, SjTypeOK
  <1> QED
    BY <1>3, <1>4

\* The item that is put is as sound as when it was made.
LEMMA PutItemUpdateKeeps ==
  ASSUME JournalInv, NEW c \in JournalCalls, PutItemUpdate(c)
  PROVE  JournalInv'
  <1>0. PICK item, i : item = journalCall[c].item /\ i = ItemOf[item.message]
    OBVIOUS
  <1>1. /\ journalCall[c].pc = "update" /\ journalItem' = [journalItem EXCEPT ![i] = item] /\ EndCall(c)
        /\ UNCHANGED <<journalSession, receipts, approved, unapproved>>
    BY <1>0 DEF PutItemUpdate
  <1>2. item \in SyncItems /\ i \in JournalItems /\ ItemSound(item)
    BY <1>0, <1>1, CallFacts DEF CallSound
  <1>3. /\ journalItem' \in [JournalItems -> SyncItems \cup {NoItem}] /\ journalItem'[i] = item
        /\ \A k \in JournalItems : k # i => journalItem'[k] = journalItem[k]
    BY <1>1, <1>2 DEF JournalInv, SjTypeOK
  <1>4. StoredSound(i)'
    BY <1>0, <1>1, <1>2, <1>3 DEF StoredSound, ItemSound, Reviewed, AllDecided, Pending
  <1> QED
    BY <1>1, <1>2, <1>3, <1>4, CallStep, NoCallSound DEF EndCall, JournalInv, SjTypeOK

LEMMA ApplyKeeps ==
  ASSUME JournalInv, NEW c \in JournalCalls, Apply(c)
  PROVE  JournalInv'
  <1> DEFINE item == ItemRead(c)
  <1>1. /\ journalCall[c].pc = "read" /\ journalCall[c].request.name = "apply"
        /\ UNCHANGED <<journalSession, journalItem, receipts, approved, unapproved>>
    BY DEF Apply, Read
  <1>2. CASE item.state = "duplicate"
    <2> DEFINE x == [journalCall[c] EXCEPT !.request.name = "markApplied"]
    <2>1. item # NoItem
      BY <1>2 DEF NoItem
    <2>2. journalCall[c] \in [pc: {"read"}, request: ItemRequests]
      BY <1>1, CallFacts DEF CallTypes, NoCall
    <2>3. journalCall[c].request \in [name: {"apply", "markApplied", "markFailed"}, item: JournalItems]
      BY <1>1, <2>2 DEF ItemRequests
    <2>4. /\ x.request = [journalCall[c].request EXCEPT !.name = "markApplied"]
          /\ x = [pc |-> "read", request |-> x.request]
      BY <2>2, <2>3
    <2>5. x.request \in ItemRequests /\ x.request.item = journalCall[c].request.item /\ x.pc = "read"
      BY <2>3, <2>4 DEF ItemRequests
    <2> HIDE DEF x
    <2>6. CallSound(x)
      BY <2>1, <2>4, <2>5 DEF CallSound, CallTypes, ItemRead
    <2>7. InCall(c, x)
      BY <1>2 DEF Apply, x
    <2> QED
      BY <1>1, <2>6, <2>7, QuietCall
  <1>3. CASE item.state # "duplicate" /\ item.state \in {"eligible", "ready"} /\ MayApply(item)
    <2>1. item # NoItem
      BY <1>3 DEF NoItem
    <2>2. item \in SyncItems /\ ItemSound(item)
      BY <1>1, <2>1, CallFacts
    <2>3. CallSound([pc |-> "applier", item |-> item])
      BY <1>1, <1>3, <2>1, <2>2, UpdateSound
    <2>4. InCall(c, [pc |-> "applier", item |-> item])
      BY <1>3 DEF Apply
    <2> QED
      BY <1>1, <2>3, <2>4, QuietCall
  <1>4. CASE item.state # "duplicate" /\ ~(item.state \in {"eligible", "ready"} /\ MayApply(item))
    <2>1. EndCall(c)
      BY <1>4 DEF Apply
    <2> QED
      BY <1>1, <2>1, EndStep
  <1> QED
    BY <1>2, <1>3, <1>4

\* What goes to the library was approved when the item was made ready.
LEMMA ApplierKeeps ==
  ASSUME JournalInv, NEW c \in JournalCalls, Applier(c)
  PROVE  JournalInv'
  <1> DEFINE item == journalCall[c].item
  <1>1. journalCall[c].pc = "applier" /\ UNCHANGED <<journalSession, journalItem, receipts, approved>>
    BY DEF Applier
  <1>2. /\ item \in SyncItems /\ ItemOf[item.message] \in JournalItems
        /\ ItemSound(item) /\ MayApply(item) /\ journalItem[ItemOf[item.message]] # NoItem
    BY <1>1, CallFacts DEF CallSound
  <1>3. unapproved' = FALSE
    BY <1>2 DEF Applier, ItemSound, MayApply, Pending, JournalInv
  <1>4. PICK mark \in {"markApplied", "markFailed"} :
          InCall(c, [pc |-> "read", request |-> [name |-> mark, item |-> ItemOf[item.message]]])
    BY DEF Applier
  <1>5. CallSound([pc |-> "read", request |-> [name |-> mark, item |-> ItemOf[item.message]]])
    BY <1>2 DEF CallSound, CallTypes, ItemRequests
  <1>6. unapproved' = unapproved
    BY <1>3 DEF JournalInv
  <1> QED
    BY <1>1, <1>4, <1>5, <1>6, QuietCall

LEMMA MarkKeeps ==
  ASSUME JournalInv, NEW c \in JournalCalls, Mark(c)
  PROVE  JournalInv'
  <1> DEFINE state == IF journalCall[c].request.name = "markApplied" THEN "applied" ELSE "failed"
             item == ItemRead(c)
             last == [item EXCEPT !.state = state]
  <1>1. /\ journalCall[c].pc = "read" /\ Marks(journalCall[c].request)
        /\ InCall(c, [pc |-> "update", item |-> last])
        /\ UNCHANGED <<journalSession, journalItem, receipts, approved, unapproved>>
    BY DEF Mark, Read, Marks
  <1>2. item # NoItem
    BY <1>1, CallFacts DEF CallSound, ItemRead
  <1>3. item \in SyncItems /\ ItemSound(item)
    BY <1>1, <1>2, CallFacts
  <1>4. /\ last \in SyncItems /\ last.message = item.message /\ last.analysis = item.analysis
        /\ last.delete = item.delete /\ last.state \in {"applied", "failed"}
    BY <1>3 DEF SyncItems
  <1> HIDE DEF last
  <1>5. ItemSound(last)
    BY <1>3, <1>4 DEF ItemSound, Reviewed, Pending
  <1>6. CallSound([pc |-> "update", item |-> last])
    BY <1>1, <1>2, <1>4, <1>5, UpdateSound
  <1> QED
    BY <1>1, <1>6, QuietCall

LEMMA SessionStepsKeep ==
  ASSUME JournalInv, NEW c \in JournalCalls, NEW stored,
         journalSession # NoSession => stored \in JournalSessions,
         journalSession # NoSession, InCall(c, [pc |-> "control", session |-> stored]),
         UNCHANGED <<journalSession, journalItem, receipts, approved, unapproved>>
  PROVE  JournalInv'
  <1>1. CallSound([pc |-> "control", session |-> stored])
    BY DEF CallSound, CallTypes
  <1> QED
    BY <1>1, QuietCall

LEMMA ControlKeeps ==
  ASSUME JournalInv, NEW c \in JournalCalls, NEW control \in {"pause", "resume", "cancel", "disconnect"},
         Control(c, control)
  PROVE  JournalInv'
  <1> DEFINE next == CASE control = "pause" -> "paused"
                        [] control = "resume" -> "reviewing"
                        [] control \in {"cancel", "disconnect"} -> "cancelled"
             connected == IF control = "disconnect" THEN FALSE ELSE journalSession.connected
             stored == [journalSession EXCEPT !.phase = next, !.connected = connected]
  <1>1. journalSession # NoSession /\ InCall(c, [pc |-> "control", session |-> stored])
        /\ UNCHANGED <<journalSession, journalItem, receipts, approved, unapproved>>
    BY DEF Control
  <1>2. journalSession \in JournalSessions /\ next \in {"reviewing", "paused", "cancelled"}
    BY <1>1 DEF JournalInv, SjTypeOK
  <1>3. stored \in JournalSessions
    BY <1>2 DEF JournalSessions
  <1> HIDE DEF stored
  <1> QED
    BY <1>1, <1>3, SessionStepsKeep

LEMMA CheckpointKeeps ==
  ASSUME JournalInv, NEW c \in JournalCalls, NEW s \in Sides, NEW n \in 1..MaxCheckpoint, AdvanceCheckpoint(c, s, n)
  PROVE  JournalInv'
  <1> DEFINE old == journalSession.checkpoint[s]
             new == IF old >= n THEN old ELSE n
             stored == [journalSession EXCEPT !.checkpoint[s] = new]
  <1>1. journalSession # NoSession /\ InCall(c, [pc |-> "control", session |-> stored])
        /\ UNCHANGED <<journalSession, journalItem, receipts, approved, unapproved>>
    BY DEF AdvanceCheckpoint, ActiveSession
  <1>2. journalSession \in JournalSessions
    BY <1>1 DEF JournalInv, SjTypeOK
  <1>3. new \in 0..MaxCheckpoint
    BY <1>2, JournalBoundsAssumption DEF JournalSessions
  <1>4. [journalSession.checkpoint EXCEPT ![s] = new] \in [Sides -> 0..MaxCheckpoint]
    BY <1>2, <1>3 DEF JournalSessions
  <1>5. stored \in JournalSessions
    BY <1>2, <1>4 DEF JournalSessions
  <1> HIDE DEF stored
  <1> QED
    BY <1>1, <1>5, SessionStepsKeep

LEMMA PutSessionKeeps ==
  ASSUME JournalInv, NEW c \in JournalCalls, PutSession(c)
  PROVE  JournalInv'
  <1>1. journalSession' \in JournalSessions
    BY CallFacts DEF PutSession, CallTypes, NoCall
  <1> QED
    BY <1>1, CallStep, NoCallSound DEF PutSession, EndCall, JournalInv, SjTypeOK

\* Steps that leave the calls or end them all.
LEMMA CallsEnd ==
  ASSUME JournalInv, \A c \in JournalCalls : journalCall'[c] \in {journalCall[c], NoCall},
         journalCall' \in [JournalCalls -> CallTypes],
         journalSession' \in JournalSessions \cup {NoSession},
         UNCHANGED <<journalItem, receipts, approved, unapproved>>
  PROVE  JournalInv'
  <1>1. \A y : CallSound(y) => CallSound(y)'
    BY SoundStays
  <1>2. \A c \in JournalCalls : CallSound(journalCall[c])'
    BY <1>1, NoCallSound DEF JournalInv
  <1>3. \A i \in JournalItems : StoredSound(i)'
    BY DEF JournalInv, StoredSound, ItemSound, Reviewed, AllDecided, Pending, NoItem
  <1>4. SjTypeOK'
    BY DEF JournalInv, SjTypeOK, CallTypes, JournalSessions, NoSession, SyncItems, NoItem, Analyses, NoCall, ItemRequests
  <1> QED
    BY <1>2, <1>3, <1>4 DEF JournalInv

LEMMA JournalNext == JournalInv /\ [SjNext]_sjVars => JournalInv'
  <1> SUFFICES ASSUME JournalInv, [SjNext]_sjVars PROVE JournalInv'
    OBVIOUS
  <1>1. journalCall \in [JournalCalls -> CallTypes] /\ NoCall \in CallTypes
    BY DEF JournalInv, SjTypeOK, CallTypes
  <1>2. CASE CreateSession
    <2>1. journalSession' \in JournalSessions
      BY <1>2, JournalBoundsAssumption DEF CreateSession, JournalSessions
    <2> QED
      BY <1>1, <1>2, <2>1, CallsEnd DEF CreateSession
  <1>3. CASE SjStops
    <2>1. journalCall' \in [JournalCalls -> CallTypes]
          /\ \A c \in JournalCalls : journalCall'[c] \in {journalCall[c], NoCall}
      BY <1>1, <1>3 DEF SjStops
    <2> QED
      BY <1>3, <2>1, CallsEnd DEF SjStops, JournalInv, SjTypeOK
  <1>4. CASE UNCHANGED sjVars
    BY <1>1, <1>4, CallsEnd DEF sjVars, JournalInv, SjTypeOK
  <1>5. CASE SjNext /\ ~CreateSession /\ ~SjStops
    BY <1>5, ReceiveKeeps, ReceiveActiveKeeps, PutItemKeeps, RecordReceiptKeeps, RequestKeeps, DecideKeeps,
       ReviewDeleteKeeps, PutItemUpdateKeeps, ApplyKeeps, ApplierKeeps, MarkKeeps, ControlKeeps,
       CheckpointKeeps, PutSessionKeeps
    DEF SjNext
  <1> QED
    BY <1>2, <1>3, <1>4, <1>5

\* The invariant holds, whatever the number of calls, records, messages and fields.
THEOREM JournalInvariance == SjSpec => []JournalInv
  <1>1. ASSUME SjInit PROVE JournalInv
    <2>1. \A c \in JournalCalls : journalCall[c] = NoCall
      BY <1>1 DEF SjInit
    <2>2. \A c \in JournalCalls : CallSound(journalCall[c])
      BY <2>1, NoCallSound
    <2>3. SjTypeOK /\ unapproved = FALSE /\ \A i \in JournalItems : StoredSound(i)
      BY <1>1 DEF SjInit, SjTypeOK, StoredSound
    <2> QED
      BY <2>2, <2>3 DEF JournalInv
  <1>2. JournalInv /\ [SjNext]_sjVars => JournalInv'
    BY JournalNext
  <1> QED
    BY <1>1, <1>2, PTL DEF SjSpec

\* Sessions, items and the calls that carry them keep their types.
THEOREM JournalTypes == SjSpec => []SjTypeOK
<1>1. JournalInv => SjTypeOK
  BY DEF JournalInv
<1> QED
  BY <1>1, JournalInvariance, PTL

\* An item offered for application is fully reviewed, in every interleaving of
\* calls that put back whole items they have read.
THEOREM OfferedItemsAreReviewed == SjSpec => []ReadyIsReviewed
  <1>1. JournalInv => ReadyIsReviewed
    BY DEF JournalInv, StoredSound, ItemSound, ReadyIsReviewed
  <1> QED
    BY <1>1, JournalInvariance, PTL

\* No deletion reaches the library that was not approved for its message and analysis.
THEOREM DeletionsWereApproved == SjSpec => []DeletionsAreApproved
  <1>1. JournalInv => DeletionsAreApproved
    BY DEF JournalInv, DeletionsAreApproved
  <1> QED
    BY <1>1, JournalInvariance, PTL

-------------------------------------------------------------------------------
(* The Move protocol                                                       *)


ProtocolCallTypes == TargetCalls \cup SourceCalls \cup {NoProtocolCall}

StoreTypes ==
  /\ sourceItem \in [MoveRequests -> SourceItems \cup {NoMoveItem}]
  /\ sourcePhase \in [Transfers ->
       {"none", "awaiting-acknowledgement", "acknowledged", "finalizing", "completed", "failed"}]
  /\ ackReceipts \subseteq 1..MaxAnswers
  /\ removed \subseteq MoveRequests
  /\ targetItem \in [MoveRequests -> TargetItems \cup {NoMoveItem}]
  /\ answers \subseteq Answers
  /\ pin \in Listings
  /\ listing # Unread => listing \in Listings
  /\ verified \subseteq MoveRequests

\* An answer of the target proves what it says.
AnswerSound(a) ==
  /\ a.accepted => a.persisted /\ (HasOriginal(a.request) => a.verification = "verified")
  /\ a.verification = "verified" => a.request \in verified

Taken(m) == \E a \in answers : a.request = m /\ a.accepted

\* A request that may be finalized.
Released(m) == sourceItem[m] # NoMoveItem /\ Taken(m)

ProtocolCallSound(x) ==
  /\ x \in ProtocolCallTypes
  /\ x.pc \in {"import", "refresh", "seal", "record"} =>
       (x.verification = "verified" => x.request \in verified)
  /\ x.pc = "apply" => x.answer \in answers /\ sourceItem[x.answer.request] # NoMoveItem
  /\ x.pc \in {"finalize", "finalizer", "finalized", "failed"} => \A m \in x.todo : Released(m)
  /\ x.pc \in {"finalizer", "finalized", "failed"} => Released(x.request)

ItemJustified(m) ==
  /\ sourceItem[m] # NoMoveItem => (sourceItem[m].acknowledged => Taken(m))
  /\ m \in removed => Taken(m)

MoveInv ==
  /\ StoreTypes
  /\ IsFiniteSet(answers)
  /\ \A a \in answers : AnswerSound(a)
  /\ \A m \in MoveRequests : ItemJustified(m)
  /\ protocolCall \in [ProtocolCalls -> ProtocolCallTypes]
  /\ \A c \in ProtocolCalls : ProtocolCallSound(protocolCall[c])

-------------------------------------------------------------------------------
\* What no step takes back.
Grows ==
  /\ verified \subseteq verified'
  /\ answers \subseteq answers'
  /\ \A m \in MoveRequests : sourceItem[m] # NoMoveItem => sourceItem'[m] # NoMoveItem

LEMMA ReleasedStays ==
  ASSUME Grows, NEW m \in MoveRequests
  PROVE  (Taken(m) => Taken(m)') /\ (Released(m) => Released(m)')
  BY DEF Grows, Taken, Released

LEMMA ProtocolCallStays ==
  ASSUME NEW x, ProtocolCallSound(x), Grows
  PROVE  ProtocolCallSound(x)'
  <1>1. x.pc \in {"finalize", "finalizer", "finalized", "failed"} => x.todo \subseteq MoveRequests
    BY DEF ProtocolCallSound, ProtocolCallTypes, TargetCalls, SourceCalls, NoProtocolCall
  <1>2. x.pc \in {"finalizer", "finalized", "failed"} => x.request \in MoveRequests
    BY DEF ProtocolCallSound, ProtocolCallTypes, TargetCalls, SourceCalls, NoProtocolCall
  <1>3. x.pc = "apply" => x.answer.request \in MoveRequests
    BY DEF ProtocolCallSound, ProtocolCallTypes, TargetCalls, SourceCalls, NoProtocolCall, Answers
  <1>4. x.pc \in {"import", "refresh", "seal", "record"} =>
          (x.verification = "verified" => x.request \in verified')
    BY DEF ProtocolCallSound, Grows
  <1>5. x.pc = "apply" => x.answer \in answers' /\ sourceItem'[x.answer.request] # NoMoveItem
    BY <1>3 DEF ProtocolCallSound, Grows
  <1>6. x.pc \in {"finalize", "finalizer", "finalized", "failed"} => \A m \in x.todo : Released(m)'
    BY <1>1, ReleasedStays DEF ProtocolCallSound
  <1>7. x.pc \in {"finalizer", "finalized", "failed"} => Released(x.request)'
    BY <1>2, ReleasedStays DEF ProtocolCallSound
  <1> QED
    BY <1>4, <1>5, <1>6, <1>7 DEF ProtocolCallSound

LEMMA NoProtocolCallSound == ProtocolCallSound(NoProtocolCall)
  BY DEF ProtocolCallSound, NoProtocolCall, ProtocolCallTypes

\* One call changes, the others stay sound.
LEMMA OneCallChanges ==
  ASSUME MoveInv, Grows, NEW c \in ProtocolCalls, NEW x, InProtocol(c, x), ProtocolCallSound(x)'
  PROVE  /\ protocolCall' \in [ProtocolCalls -> ProtocolCallTypes]
         /\ \A d \in ProtocolCalls : ProtocolCallSound(protocolCall[d])'
  <1>1. x \in ProtocolCallTypes
    BY DEF ProtocolCallSound
  <1>2. protocolCall' = [protocolCall EXCEPT ![c] = x]
    BY DEF InProtocol
  <1>3. /\ protocolCall' \in [ProtocolCalls -> ProtocolCallTypes] /\ protocolCall'[c] = x
        /\ \A d \in ProtocolCalls : d # c => protocolCall'[d] = protocolCall[d]
    BY <1>1, <1>2 DEF MoveInv
  <1>4. \A y : ProtocolCallSound(y) => ProtocolCallSound(y)'
    BY ProtocolCallStays
  <1> QED
    BY <1>3, <1>4 DEF MoveInv

\* What a step has to show.
LEMMA MoveStep ==
  ASSUME MoveInv, Grows, StoreTypes', IsFiniteSet(answers'),
         \A a \in answers' : a \in answers \/ AnswerSound(a)',
         \A m \in MoveRequests :
           \/ ItemJustified(m)'
           \/ sourceItem'[m] = sourceItem[m] /\ (m \in removed' => m \in removed),
         protocolCall' \in [ProtocolCalls -> ProtocolCallTypes],
         \A d \in ProtocolCalls : ProtocolCallSound(protocolCall[d])'
  PROVE  MoveInv'
  <1>1. \A a \in answers : AnswerSound(a) => AnswerSound(a)'
    BY DEF AnswerSound, Grows
  <1>2. \A m \in MoveRequests : ItemJustified(m)'
    BY ReleasedStays DEF MoveInv, ItemJustified
  <1> QED
    BY <1>1, <1>2 DEF MoveInv

\* A step that leaves items and answers alone.
LEMMA QuietMove ==
  ASSUME MoveInv, NEW c \in ProtocolCalls, NEW x, InProtocol(c, x), ProtocolCallSound(x)',
         UNCHANGED <<sourceVars, targetItem, answers>>,
         verified \subseteq verified', verified' \subseteq MoveRequests,
         pin' \in Listings, listing' # Unread => listing' \in Listings
  PROVE  MoveInv'
  <1>1. Grows
    BY DEF Grows, sourceVars
  <1>2. StoreTypes' /\ IsFiniteSet(answers')
    BY DEF MoveInv, StoreTypes, sourceVars
  <1>3. /\ \A a \in answers' : a \in answers
        /\ \A m \in MoveRequests : sourceItem'[m] = sourceItem[m] /\ (m \in removed' => m \in removed)
    BY DEF sourceVars
  <1> QED
    BY <1>1, <1>2, <1>3, OneCallChanges, MoveStep

LEMMA SoundNow ==
  ASSUME MoveInv, NEW c \in ProtocolCalls
  PROVE  /\ ProtocolCallSound(protocolCall[c])
         /\ protocolCall[c] \in ProtocolCallTypes
         /\ StoreTypes
  BY DEF MoveInv

\* A call that ends.
LEMMA EndKeeps ==
  ASSUME MoveInv, NEW c \in ProtocolCalls, EndProtocol(c), UNCHANGED <<sourceVars, targetVars>>
  PROVE  MoveInv'
  <1>1. ProtocolCallSound(NoProtocolCall)'
    BY DEF ProtocolCallSound, NoProtocolCall, ProtocolCallTypes
  <1>2. StoreTypes
    BY DEF MoveInv
  <1> QED
    BY <1>1, <1>2, QuietMove DEF EndProtocol, targetVars, StoreTypes

-------------------------------------------------------------------------------
(* The target                                                              *)

\* A call that has found out nothing yet is sound in any state.
LEMMA PlainCall ==
  ASSUME NEW x \in ProtocolCallTypes, x.pc \in {"none", "replay", "preview", "verify"}
  PROVE  ProtocolCallSound(x)'
  BY DEF ProtocolCallSound

LEMMA ReceiveRequestKeeps ==
  ASSUME MoveInv, NEW c \in ProtocolCalls, NEW m \in MoveRequests, ReceiveRequest(c, m)
  PROVE  MoveInv'
  <1> DEFINE preview == [pc |-> "preview", request |-> m]
             replay == [pc |-> "replay", request |-> m, answer |-> targetItem[m].answer]
  <1>1. StoreTypes
    BY DEF MoveInv
  <1>2. \A x : InProtocol(c, x) /\ ProtocolCallSound(x)' => MoveInv'
    BY <1>1, QuietMove DEF ReceiveRequest, targetVars, StoreTypes
  <1>3. CASE targetItem[m] = NoMoveItem
    <2>1. preview \in ProtocolCallTypes /\ preview.pc = "preview"
      BY DEF ProtocolCallTypes, TargetCalls
    <2> QED
      BY <1>2, <1>3, <2>1, PlainCall DEF ReceiveRequest
  <1>4. CASE targetItem[m] # NoMoveItem
    <2>1. targetItem[m].answer \in Answers
      BY <1>1, <1>4 DEF StoreTypes, TargetItems
    <2>2. replay \in ProtocolCallTypes /\ replay.pc = "replay"
      BY <2>1 DEF ProtocolCallTypes, TargetCalls
    <2> QED
      BY <1>2, <1>4, <2>2, PlainCall DEF ReceiveRequest
  <1> QED
    BY <1>3, <1>4

LEMMA ReplayResponseKeeps ==
  ASSUME MoveInv, NEW c \in ProtocolCalls, ReplayResponse(c)
  PROVE  MoveInv'
  <1>1. StoreTypes /\ protocolCall[c] \in ProtocolCallTypes
    BY DEF MoveInv
  <1>2. protocolCall[c].request \in MoveRequests
    BY <1>1 DEF ReplayResponse, ProtocolCallTypes, TargetCalls, SourceCalls, NoProtocolCall
  <1>3. CASE EndProtocol(c)
    BY <1>3, EndKeeps DEF ReplayResponse
  <1>4. CASE InProtocol(c, [pc |-> "preview", request |-> protocolCall[c].request])
    <2>1. ProtocolCallSound([pc |-> "preview", request |-> protocolCall[c].request])
      BY <1>2 DEF ProtocolCallSound, ProtocolCallTypes, TargetCalls
    <2>2. Grows
      BY DEF ReplayResponse, sourceVars, targetVars, Grows
    <2> QED
      BY <1>1, <1>4, <2>1, <2>2, ProtocolCallStays, QuietMove DEF ReplayResponse, targetVars, StoreTypes
  <1> QED
    BY <1>3, <1>4 DEF ReplayResponse

LEMMA ListedTyped == ASSUME StoreTypes PROVE Listed \in Listings
  BY DEF StoreTypes, Listed

LEMMA PreviewsTyped ==
  ASSUME NEW stored \in Listings, NEW m \in MoveRequests, NEW reviewed \in Categories,
         NEW preview \in Previews(stored, m, reviewed)
  PROVE  preview.category \in Categories /\ preview.pin \in 0..MaxPins
  <1> DEFINE kind(i) == IF stored[i].kind = "divergent" THEN "conflict" ELSE "duplicate"
  <1>1. 0 \in 0..MaxPins /\ PinIds \subseteq 0..MaxPins
    BY ProtocolBoundsAssumption DEF PinIds
  <1>2. Identical(stored, RequestRecord[m]) \subseteq PinIds /\ Twins(stored, RequestRecord[m]) \subseteq PinIds
    BY DEF Identical, Twins
  <1>3. \/ preview = [category |-> reviewed, pin |-> 0]
        \/ \E i \in PinIds : preview = [category |-> kind(i), pin |-> i]
    BY <1>2 DEF Previews
  <1>4. \A i : kind(i) \in Categories
    BY DEF Categories
  <1> HIDE DEF kind
  <1> QED
    BY <1>1, <1>3, <1>4

\* The steps of an import, with what they have found.
LEMMA ImportStepSound ==
  ASSUME NEW call \in ProtocolCallTypes, call.pc \in {"import", "refresh"}, ProtocolCallSound(call),
         NEW preview, preview.category \in Categories, preview.pin \in 0..MaxPins,
         NEW pc \in {"refresh", "seal", "record"}
  PROVE  ProtocolCallSound(ImportStep(call, pc, preview))
  <1>1. /\ call.request \in MoveRequests /\ call.reviewed \in Categories
        /\ call.verification \in Verifications /\ call.failed \in BOOLEAN
    BY DEF ProtocolCallTypes, TargetCalls, SourceCalls, NoProtocolCall
  <1>2. ImportStep(call, pc, preview) \in TargetCalls
    BY <1>1 DEF ImportStep, TargetCalls
  <1> QED
    BY <1>2 DEF ProtocolCallSound, ImportStep, ProtocolCallTypes

LEMMA UnverifiedSound ==
  ASSUME NEW m \in MoveRequests, NEW reviewed \in Categories, NEW failed \in BOOLEAN
  PROVE  ProtocolCallSound(Importing(m, reviewed, Unverified(m), failed))'
  <1> DEFINE x == Importing(m, reviewed, Unverified(m), failed)
  <1>1. Unverified(m) \in {"metadata-only", "unavailable"}
    BY DEF Unverified
  <1>2. x \in ProtocolCallTypes /\ x.pc = "import" /\ x.verification # "verified"
    BY <1>1 DEF ProtocolCallTypes, TargetCalls, Verifications, Importing
  <1> QED
    BY <1>2 DEF ProtocolCallSound

LEMMA PreviewRecordKeeps ==
  ASSUME MoveInv, NEW c \in ProtocolCalls, PreviewRecord(c)
  PROVE  MoveInv'
  <1>0. PICK call : call = protocolCall[c]
    OBVIOUS
  <1> DEFINE m == call.request
  <1>1. StoreTypes /\ call \in ProtocolCallTypes /\ Listed \in Listings
    BY <1>0, ListedTyped DEF MoveInv
  <1>2. m \in MoveRequests
    BY <1>0, <1>1 DEF PreviewRecord, ProtocolCallTypes, TargetCalls, SourceCalls, NoProtocolCall
  <1>3. \A x : InProtocol(c, x) /\ ProtocolCallSound(x)' => MoveInv'
    BY <1>1, QuietMove DEF PreviewRecord, StoreTypes
  <1>4. PICK preview \in Previews(Listed, m, RequestCategory[m]) :
          \/ InProtocol(c, [pc |-> "verify", request |-> m, reviewed |-> preview.category])
          \/ InProtocol(c, Importing(m, preview.category, Unverified(m), FALSE))
    BY <1>0 DEF PreviewRecord
  <1>5. preview.category \in Categories
    BY <1>1, <1>2, PreviewsTyped, RequestCategoryAssumption
  <1> DEFINE verify == [pc |-> "verify", request |-> m, reviewed |-> preview.category]
  <1>6. ProtocolCallSound(verify)'
    <2>1. verify \in ProtocolCallTypes /\ verify.pc = "verify"
      BY <1>2, <1>5 DEF ProtocolCallTypes, TargetCalls
    <2> QED
      BY <2>1, PlainCall
  <1>7. ProtocolCallSound(Importing(m, preview.category, Unverified(m), FALSE))'
    BY <1>2, <1>5, UnverifiedSound
  <1> QED
    BY <1>3, <1>4, <1>6, <1>7

LEMMA VerifyOriginalKeeps ==
  ASSUME MoveInv, NEW c \in ProtocolCalls, VerifyOriginal(c)
  PROVE  MoveInv'
  <1>0. PICK call : call = protocolCall[c]
    OBVIOUS
  <1> DEFINE m == call.request
             passed == Importing(m, call.reviewed, "verified", FALSE)
             failure == Importing(m, call.reviewed, Unverified(m), TRUE)
  <1>1. StoreTypes /\ call \in ProtocolCallTypes
    BY <1>0 DEF MoveInv
  <1>2. m \in MoveRequests /\ call.reviewed \in Categories
    BY <1>0, <1>1 DEF VerifyOriginal, ProtocolCallTypes, TargetCalls, SourceCalls, NoProtocolCall
  <1>3. \A x : /\ InProtocol(c, x) /\ ProtocolCallSound(x)'
               /\ verified \subseteq verified' /\ verified' \subseteq MoveRequests
               => MoveInv'
    BY <1>1, QuietMove DEF VerifyOriginal, StoreTypes
  <1>4. CASE verified' = verified \cup {m} /\ InProtocol(c, passed)
    <2>1. passed \in ProtocolCallTypes
      BY <1>2 DEF ProtocolCallTypes, TargetCalls, Verifications, Importing
    <2>2. passed.request \in verified' /\ passed.pc = "import"
      BY <1>4 DEF Importing
    <2>3. ProtocolCallSound(passed)'
      BY <2>1, <2>2 DEF ProtocolCallSound
    <2> QED
      BY <1>1, <1>2, <1>3, <1>4, <2>3 DEF StoreTypes
  <1>5. CASE UNCHANGED verified /\ InProtocol(c, failure)
    <2>1. ProtocolCallSound(failure)'
      BY <1>2, UnverifiedSound
    <2> QED
      BY <1>1, <1>3, <1>5, <2>1 DEF StoreTypes
  <1> QED
    BY <1>0, <1>4, <1>5 DEF VerifyOriginal

LEMMA ImportRecordKeeps ==
  ASSUME MoveInv, NEW c \in ProtocolCalls, ImportRecord(c)
  PROVE  MoveInv'
  <1>0. PICK call : call = protocolCall[c]
    OBVIOUS
  <1>1. StoreTypes /\ call \in ProtocolCallTypes /\ Listed \in Listings /\ ProtocolCallSound(call)
    BY <1>0, ListedTyped DEF MoveInv
  <1>2. call.request \in MoveRequests /\ call.reviewed \in Categories /\ call.pc = "import"
    BY <1>0, <1>1 DEF ImportRecord, ProtocolCallTypes, TargetCalls, SourceCalls, NoProtocolCall
  <1>3. PICK preview \in Previews(Listed, call.request, call.reviewed), pc \in {"refresh", "seal", "record"} :
          InProtocol(c, ImportStep(call, pc, preview))
    BY <1>0 DEF ImportRecord
  <1>4. preview.category \in Categories /\ preview.pin \in 0..MaxPins
    BY <1>1, <1>2, PreviewsTyped
  <1>5. ProtocolCallSound(ImportStep(call, pc, preview))
    BY <1>1, <1>2, <1>4, ImportStepSound
  <1>6. Grows
    BY DEF ImportRecord, sourceVars, Grows
  <1>7. ProtocolCallSound(ImportStep(call, pc, preview))'
    BY <1>5, <1>6, ProtocolCallStays
  <1> QED
    BY <1>1, <1>3, <1>7, QuietMove DEF ImportRecord, StoreTypes

LEMMA RefreshPinKeeps ==
  ASSUME MoveInv, NEW c \in ProtocolCalls, RefreshPin(c)
  PROVE  MoveInv'
  <1>0. PICK call : call = protocolCall[c]
    OBVIOUS
  <1> DEFINE stored == [Listed EXCEPT ![call.pin] = pin[call.pin]]
  <1>1. StoreTypes /\ call \in ProtocolCallTypes /\ Listed \in Listings /\ ProtocolCallSound(call)
    BY <1>0, ListedTyped DEF MoveInv
  <1>2. call.request \in MoveRequests /\ call.reviewed \in Categories /\ call.pc = "refresh"
    BY <1>0, <1>1 DEF RefreshPin, ProtocolCallTypes, TargetCalls, SourceCalls, NoProtocolCall
  <1>3. stored \in Listings
    BY <1>1 DEF StoreTypes, Listings
  <1>4. PICK preview \in Previews(stored, call.request, call.reviewed), pc \in {"seal", "record"} :
          InProtocol(c, ImportStep(call, pc, preview))
    BY <1>0 DEF RefreshPin
  <1>5. preview.category \in Categories /\ preview.pin \in 0..MaxPins
    BY <1>2, <1>3, PreviewsTyped
  <1>6. ProtocolCallSound(ImportStep(call, pc, preview))
    BY <1>1, <1>2, <1>5, ImportStepSound
  <1>7. Grows
    BY DEF RefreshPin, sourceVars, Grows
  <1>8. ProtocolCallSound(ImportStep(call, pc, preview))'
    BY <1>6, <1>7, ProtocolCallStays
  <1>9. listing' \in Listings
    BY <1>0, <1>3 DEF RefreshPin
  <1> QED
    BY <1>1, <1>4, <1>8, <1>9, QuietMove DEF RefreshPin, StoreTypes

LEMMA SealPinKeeps ==
  ASSUME MoveInv, NEW c \in ProtocolCalls, SealPin(c)
  PROVE  MoveInv'
  <1>0. PICK call : call = protocolCall[c]
    OBVIOUS
  <1> DEFINE next == [call EXCEPT !.pc = "record", !.persisted = TRUE]
             sealed == [record |-> RequestRecord[call.request], kind |-> "exact",
                        original |-> call.verification = "verified"]
  <1>1. StoreTypes /\ call \in ProtocolCallTypes /\ Listed \in Listings /\ ProtocolCallSound(call)
    BY <1>0, ListedTyped DEF MoveInv
  <1>2. call.request \in MoveRequests /\ call.pc = "seal"
    BY <1>0, <1>1 DEF SealPin, ProtocolCallTypes, TargetCalls, SourceCalls, NoProtocolCall
  <1>3. sealed \in Pins
    BY <1>2 DEF Pins, MoveRecords
  <1>4. pin' \in Listings /\ listing' \in Listings
    BY <1>0, <1>1, <1>3 DEF SealPin, StoreTypes, Listings
  <1>5. next \in ProtocolCallTypes
    <2>1. call \in [pc: {"refresh", "seal", "record"}, request: MoveRequests, reviewed: Categories,
                    verification: Verifications, failed: BOOLEAN, category: Categories,
                    pin: 0..MaxPins, persisted: BOOLEAN]
      BY <1>1, <1>2 DEF ProtocolCallTypes, TargetCalls, SourceCalls, NoProtocolCall
    <2>2. next \in [pc: {"refresh", "seal", "record"}, request: MoveRequests, reviewed: Categories,
                    verification: Verifications, failed: BOOLEAN, category: Categories,
                    pin: 0..MaxPins, persisted: BOOLEAN]
      BY <2>1
    <2> QED
      BY <2>2 DEF ProtocolCallTypes, TargetCalls
  <1>6. ProtocolCallSound(next)
    <2>1. /\ next.pc = "record" /\ next.request = call.request /\ next.verification = call.verification
      BY <1>1, <1>2 DEF ProtocolCallTypes, TargetCalls, SourceCalls, NoProtocolCall
    <2> QED
      BY <1>1, <1>2, <1>5, <2>1 DEF ProtocolCallSound
  <1>7. Grows
    BY DEF SealPin, sourceVars, Grows
  <1>8. ProtocolCallSound(next)'
    BY <1>6, <1>7, ProtocolCallStays
  <1>9. InProtocol(c, next)
    BY <1>0 DEF SealPin
  <1> HIDE DEF next
  <1> QED
    BY <1>1, <1>4, <1>8, <1>9, QuietMove DEF SealPin, StoreTypes

LEMMA AnswerOfCall ==
  ASSUME MoveInv, NEW call \in ProtocolCallTypes, call.pc = "record", ProtocolCallSound(call),
         Cardinality(answers) < MaxAnswers
  PROVE  /\ Answer(call) \in Answers /\ AnswerSound(Answer(call))
         /\ call.request \in MoveRequests /\ call.category \in Categories
  <1>1. call \in [pc: {"refresh", "seal", "record"}, request: MoveRequests, reviewed: Categories,
                  verification: Verifications, failed: BOOLEAN, category: Categories,
                  pin: 0..MaxPins, persisted: BOOLEAN]
    BY DEF ProtocolCallTypes, TargetCalls, SourceCalls, NoProtocolCall
  <1>2. /\ call.request \in MoveRequests /\ call.category \in Categories
        /\ call.verification \in Verifications
    BY <1>1
  <1>3. Cardinality(answers) + 1 \in 1..MaxAnswers
    BY FS_CardinalityType, ProtocolBoundsAssumption DEF MoveInv
  <1>4. Answer(call) \in Answers
    BY <1>2, <1>3 DEF Answer, Answers
  <1>5. /\ Answer(call).request = call.request /\ Answer(call).verification = call.verification
        /\ Answer(call).accepted =>
             Answer(call).persisted /\ (HasOriginal(call.request) => call.verification = "verified")
    BY DEF Answer
  <1> QED
    BY <1>2, <1>4, <1>5 DEF AnswerSound, ProtocolCallSound

LEMMA RecordTargetAcknowledgementKeeps ==
  ASSUME MoveInv, NEW c \in ProtocolCalls, RecordTargetAcknowledgement(c)
  PROVE  MoveInv'
  <1>0. PICK call : call = protocolCall[c]
    OBVIOUS
  <1>1. StoreTypes /\ call \in ProtocolCallTypes /\ ProtocolCallSound(call)
    BY <1>0 DEF MoveInv
  <1>2. CASE UNCHANGED <<targetItem, answers>> /\ EndProtocol(c)
    BY <1>2, EndKeeps DEF RecordTargetAcknowledgement, targetVars
  <1>3. CASE /\ Cardinality(answers) < MaxAnswers /\ EndProtocol(c)
             /\ targetItem' = [targetItem EXCEPT ![call.request] =
                                 [category |-> call.category, answer |-> Answer(call)]]
             /\ answers' = answers \cup {Answer(call)}
    <2>1. call.pc = "record"
      BY <1>0 DEF RecordTargetAcknowledgement
    <2>2. /\ Answer(call) \in Answers /\ AnswerSound(Answer(call))
          /\ call.request \in MoveRequests /\ call.category \in Categories
      BY <1>1, <1>3, <2>1, AnswerOfCall
    <2>3. UNCHANGED <<sourceItem, sourcePhase, ackReceipts, removed, pin, listing, verified>>
      BY DEF RecordTargetAcknowledgement, sourceVars
    <2>4. Grows
      BY <1>3, <2>3 DEF Grows
    <2>5. StoreTypes'
      <3>1. targetItem' \in [MoveRequests -> TargetItems \cup {NoMoveItem}]
        BY <1>1, <1>3, <2>2 DEF StoreTypes, TargetItems
      <3> QED
        BY <1>1, <1>3, <2>2, <2>3, <3>1 DEF StoreTypes
    <2>6. IsFiniteSet(answers')
      BY <1>3, FS_AddElement DEF MoveInv
    <2>7. \A a \in answers' : a \in answers \/ AnswerSound(a)'
      BY <1>3, <2>2, <2>3 DEF AnswerSound
    <2>8. ProtocolCallSound(NoProtocolCall)'
      BY DEF ProtocolCallSound, NoProtocolCall, ProtocolCallTypes
    <2>9. /\ protocolCall' \in [ProtocolCalls -> ProtocolCallTypes]
          /\ \A d \in ProtocolCalls : ProtocolCallSound(protocolCall[d])'
      BY <1>3, <2>4, <2>8, OneCallChanges DEF EndProtocol
    <2> QED
      BY <2>3, <2>4, <2>5, <2>6, <2>7, <2>9, MoveStep
  <1> QED
    BY <1>0, <1>2, <1>3 DEF RecordTargetAcknowledgement

\* A step that changes no call and no item.
LEMMA IdleMove ==
  ASSUME MoveInv, StoreTypes', UNCHANGED <<sourceItem, removed, answers, verified>>,
         protocolCall' \in [ProtocolCalls -> ProtocolCallTypes],
         \A d \in ProtocolCalls : protocolCall'[d] \in {protocolCall[d], NoProtocolCall}
  PROVE  MoveInv'
  <1>1. Grows
    BY DEF Grows
  <1>2. ProtocolCallSound(NoProtocolCall)'
    BY DEF ProtocolCallSound, NoProtocolCall, ProtocolCallTypes
  <1>3. \A y : ProtocolCallSound(y) => ProtocolCallSound(y)'
    BY <1>1, ProtocolCallStays
  <1>4. \A d \in ProtocolCalls : ProtocolCallSound(protocolCall[d])'
    BY <1>2, <1>3 DEF MoveInv
  <1>5. IsFiniteSet(answers')
    BY DEF MoveInv
  <1> QED
    BY <1>1, <1>4, <1>5, MoveStep

LEMMA DeletePinKeeps ==
  ASSUME MoveInv, NEW i \in PinIds, DeletePin(i)
  PROVE  MoveInv'
  <1>1. StoreTypes
    BY DEF MoveInv
  <1>2. pin' \in Listings
    BY <1>1 DEF DeletePin, StoreTypes, Listings
  <1>3. StoreTypes'
    BY <1>1, <1>2 DEF DeletePin, StoreTypes, sourceVars
  <1> QED
    BY <1>3, IdleMove DEF DeletePin, sourceVars, MoveInv

LEMMA StopsKeep ==
  ASSUME MoveInv, TargetStops \/ SourceStops
  PROVE  MoveInv'
  <1>1. StoreTypes
    BY DEF MoveInv
  <1>2. StoreTypes' /\ UNCHANGED <<sourceItem, removed, answers, verified>>
    BY <1>1 DEF TargetStops, SourceStops, StoreTypes, sourceVars, targetVars
  <1>3. NoProtocolCall \in ProtocolCallTypes
    BY DEF ProtocolCallTypes
  <1>4. /\ protocolCall' \in [ProtocolCalls -> ProtocolCallTypes]
        /\ \A d \in ProtocolCalls : protocolCall'[d] \in {protocolCall[d], NoProtocolCall}
    BY <1>3 DEF TargetStops, SourceStops, Stopped, MoveInv
  <1> QED
    BY <1>2, <1>4, IdleMove

-------------------------------------------------------------------------------
(* The source                                                              *)

Phases == {"none", "awaiting-acknowledgement", "acknowledged", "finalizing", "completed", "failed"}

LEMMA QueueRequestKeeps ==
  ASSUME MoveInv, NEW m \in MoveRequests, QueueRequest(m)
  PROVE  MoveInv'
  <1>1. StoreTypes
    BY DEF MoveInv
  <1>2. UNCHANGED <<ackReceipts, removed, targetItem, answers, pin, listing, verified, protocolCall>>
    BY DEF QueueRequest, targetVars
  <1>3. /\ sourceItem' \in [MoveRequests -> SourceItems \cup {NoMoveItem}]
        /\ \A n \in MoveRequests : \/ sourceItem'[n] = sourceItem[n]
                                   \/ n = m /\ sourceItem[m] = NoMoveItem /\ ~sourceItem'[n].acknowledged
                                      /\ sourceItem'[n] \in SourceItems
    BY <1>1 DEF QueueRequest, StoreTypes, SourceItems
  <1>4. NoMoveItem \notin SourceItems
    BY DEF NoMoveItem, SourceItems
  <1>5. Grows
    BY <1>2, <1>3, <1>4 DEF Grows
  <1>6. sourcePhase' \in [Transfers -> Phases]
    BY <1>1 DEF QueueRequest, StoreTypes, Transfers, Phases
  <1>7. StoreTypes'
    BY <1>1, <1>2, <1>3, <1>6 DEF StoreTypes, Phases
  <1>8. \A n \in MoveRequests : \/ ItemJustified(n)'
                                \/ sourceItem'[n] = sourceItem[n] /\ (n \in removed' => n \in removed)
    <2>1. SUFFICES ASSUME NEW n \in MoveRequests, sourceItem'[n] # sourceItem[n]
                   PROVE  ItemJustified(n)'
      BY <1>2
    <2>2. n \in removed => Taken(n)
      BY DEF MoveInv, ItemJustified
    <2>3. ~sourceItem'[n].acknowledged
      BY <1>3, <2>1
    <2> QED
      BY <1>2, <1>5, <2>2, <2>3, ReleasedStays DEF ItemJustified
  <1>9. /\ IsFiniteSet(answers') /\ \A a \in answers' : a \in answers
        /\ protocolCall' \in [ProtocolCalls -> ProtocolCallTypes]
    BY <1>2 DEF MoveInv
  <1>10. \A d \in ProtocolCalls : ProtocolCallSound(protocolCall[d])'
    <2>1. \A y : ProtocolCallSound(y) => ProtocolCallSound(y)'
      BY <1>5, ProtocolCallStays
    <2> QED
      BY <1>2, <2>1 DEF MoveInv
  <1> QED
    BY <1>5, <1>7, <1>8, <1>9, <1>10, MoveStep

LEMMA AcknowledgeKeeps ==
  ASSUME MoveInv, NEW c \in ProtocolCalls, NEW a \in answers, Acknowledge(c, a)
  PROVE  MoveInv'
  <1> DEFINE x == [pc |-> "apply", answer |-> a]
  <1>1. StoreTypes /\ a \in Answers
    BY DEF MoveInv, StoreTypes
  <1>2. x \in ProtocolCallTypes
    BY <1>1 DEF ProtocolCallTypes, SourceCalls
  <1>3. ProtocolCallSound(x)'
    BY <1>2 DEF ProtocolCallSound, Acknowledge, sourceVars, targetVars
  <1> QED
    BY <1>1, <1>3, QuietMove DEF Acknowledge, targetVars, StoreTypes

LEMMA ResumeFinalizationKeeps ==
  ASSUME MoveInv, NEW c \in ProtocolCalls, NEW t \in Transfers, ResumeFinalization(c, t)
  PROVE  MoveInv'
  <1>0. PICK todo : todo = PendingFinalization(t)
    OBVIOUS
  <1> DEFINE x == [pc |-> "finalize", todo |-> todo]
  <1>1. StoreTypes
    BY DEF MoveInv
  <1>2. x \in ProtocolCallTypes
    BY <1>0 DEF ProtocolCallTypes, SourceCalls, PendingFinalization, ItemsOf
  <1>3. \A m \in todo : Released(m)
    BY <1>0 DEF PendingFinalization, ItemsOf, Released, MoveInv, ItemJustified
  <1>4. ProtocolCallSound(x)
    BY <1>2, <1>3 DEF ProtocolCallSound
  <1>5. Grows
    BY DEF ResumeFinalization, sourceVars, targetVars, Grows
  <1>6. ProtocolCallSound(x)'
    BY <1>4, <1>5, ProtocolCallStays
  <1>7. InProtocol(c, x)
    BY <1>0 DEF ResumeFinalization
  <1> QED
    BY <1>1, <1>6, <1>7, QuietMove DEF ResumeFinalization, targetVars, StoreTypes

\* A step of the source that gives one item a new state.
LEMMA ItemChanges ==
  ASSUME MoveInv, NEW m \in MoveRequests, sourceItem[m] # NoMoveItem, NEW item \in SourceItems,
         sourceItem' = [sourceItem EXCEPT ![m] = item], item.acknowledged => Taken(m),
         sourcePhase' \in [Transfers -> Phases], ackReceipts' \subseteq 1..MaxAnswers,
         UNCHANGED <<removed, targetVars>>,
         NEW c \in ProtocolCalls, NEW x, InProtocol(c, x), ProtocolCallSound(x)
  PROVE  MoveInv'
  <1>1. StoreTypes
    BY DEF MoveInv
  <1>2. UNCHANGED <<removed, targetItem, answers, pin, listing, verified>>
    BY DEF targetVars
  <1>3. /\ sourceItem' \in [MoveRequests -> SourceItems \cup {NoMoveItem}]
        /\ sourceItem'[m] = item
        /\ \A n \in MoveRequests : n # m => sourceItem'[n] = sourceItem[n]
    BY <1>1 DEF StoreTypes
  <1>4. NoMoveItem \notin SourceItems
    BY DEF NoMoveItem, SourceItems
  <1>5. Grows
    BY <1>2, <1>3, <1>4 DEF Grows
  <1>6. StoreTypes'
    BY <1>1, <1>2, <1>3 DEF StoreTypes, Phases
  <1>7. \A n \in MoveRequests : \/ ItemJustified(n)'
                                \/ sourceItem'[n] = sourceItem[n] /\ (n \in removed' => n \in removed)
    <2>1. m \in removed => Taken(m)
      BY DEF MoveInv, ItemJustified
    <2>2. ItemJustified(m)'
      BY <1>2, <1>3, <1>5, <2>1, ReleasedStays DEF ItemJustified
    <2> QED
      BY <1>2, <1>3, <2>2
  <1>8. IsFiniteSet(answers') /\ \A a \in answers' : a \in answers
    BY <1>2 DEF MoveInv
  <1>9. ProtocolCallSound(x)'
    BY <1>5, ProtocolCallStays
  <1> QED
    BY <1>5, <1>6, <1>7, <1>8, <1>9, OneCallChanges, MoveStep

LEMMA ApplyAcknowledgementKeeps ==
  ASSUME MoveInv, NEW c \in ProtocolCalls, ApplyAcknowledgement(c)
  PROVE  MoveInv'
  <1>0. PICK a : a = protocolCall[c].answer
    OBVIOUS
  <1> DEFINE m == a.request
  <1>1. StoreTypes /\ protocolCall[c] \in ProtocolCallTypes /\ ProtocolCallSound(protocolCall[c])
    BY DEF MoveInv
  <1>2. a \in answers /\ sourceItem[m] # NoMoveItem
    BY <1>0, <1>1 DEF ApplyAcknowledgement, ProtocolCallSound
  <1>3. /\ a \in Answers /\ m \in MoveRequests /\ a.id \in 1..MaxAnswers /\ a.accepted \in BOOLEAN
        /\ a.verification \in Verifications
    BY <1>1, <1>2 DEF StoreTypes, Answers
  <1>4. sourceItem[m] \in SourceItems
    BY <1>1, <1>2, <1>3 DEF StoreTypes
  <1>5. PICK item : item = Applied(sourceItem[m], a)
    OBVIOUS
  <1>6. item \in SourceItems
    BY <1>3, <1>4, <1>5 DEF Applied, SourceItems, Verifications
  <1>7. item.acknowledged => Taken(m)
    <2>1. CASE sourceItem[m].acknowledged
      BY <1>2, <1>3, <2>1 DEF MoveInv, ItemJustified
    <2>2. CASE ~sourceItem[m].acknowledged
      <3>1. item.acknowledged = a.accepted
        BY <1>4, <1>5, <2>2 DEF Applied, SourceItems
      <3> QED
        BY <1>2, <3>1 DEF Taken
    <2> QED
      BY <2>1, <2>2
  <1>8. sourceItem' = [sourceItem EXCEPT ![m] = item]
    BY <1>0, <1>5 DEF ApplyAcknowledgement
  <1>9. RequestTransfer[m] \in Transfers
    BY <1>3 DEF Transfers
  <1>10. PICK next \in Phases : sourcePhase' = [sourcePhase EXCEPT ![RequestTransfer[m]] = next]
    BY <1>0, <1>1, <1>9 DEF ApplyAcknowledgement, StoreTypes, Phases
  <1>11. sourcePhase' \in [Transfers -> Phases]
    BY <1>1, <1>10 DEF StoreTypes, Phases
  <1>12. ackReceipts' \subseteq 1..MaxAnswers
    BY <1>0, <1>1, <1>3 DEF ApplyAcknowledgement, StoreTypes
  <1>13. UNCHANGED <<removed, targetVars>> /\ InProtocol(c, NoProtocolCall)
    BY DEF ApplyAcknowledgement, EndProtocol
  <1> QED
    BY <1>2, <1>3, <1>6, <1>7, <1>8, <1>11, <1>12, <1>13, ItemChanges, NoProtocolCallSound

LEMMA UpdateFinalizationChanges ==
  ASSUME MoveInv, NEW m \in MoveRequests, sourceItem[m] # NoMoveItem,
         NEW state \in {"finalizing", "finalized", "failed"}, UpdateFinalization(m, state)
  PROVE  /\ \E item \in SourceItems : /\ sourceItem' = [sourceItem EXCEPT ![m] = item]
                                      /\ item.acknowledged = sourceItem[m].acknowledged
         /\ sourcePhase' \in [Transfers -> Phases]
  <1>1. StoreTypes
    BY DEF MoveInv
  <1>2. sourceItem[m] \in SourceItems
    BY <1>1 DEF StoreTypes
  <1>3. PICK item : item = [sourceItem[m] EXCEPT !.state = state, !.finalized = @ \/ state = "finalized"]
    OBVIOUS
  <1>4. item \in SourceItems /\ item.acknowledged = sourceItem[m].acknowledged
    BY <1>2, <1>3 DEF SourceItems
  <1>5. sourceItem' = [sourceItem EXCEPT ![m] = item]
    BY <1>3 DEF UpdateFinalization
  <1>6. \A items : FinalizationPhase(items, state) \in Phases
    BY DEF FinalizationPhase, Phases
  <1>7. sourcePhase' \in [Transfers -> Phases]
    BY <1>1, <1>6 DEF UpdateFinalization, StoreTypes, Phases
  <1> QED
    BY <1>4, <1>5, <1>7

LEMMA MarkFinalizingKeeps ==
  ASSUME MoveInv, NEW c \in ProtocolCalls, NEW m \in MoveRequests, MarkFinalizing(c, m)
  PROVE  MoveInv'
  <1>0. PICK call : call = protocolCall[c]
    OBVIOUS
  <1> DEFINE x == [pc |-> "finalizer", request |-> m, todo |-> call.todo \ {m}]
  <1>1. StoreTypes /\ call \in ProtocolCallTypes /\ ProtocolCallSound(call)
    BY <1>0 DEF MoveInv
  <1>2. call.pc = "finalize" /\ m \in call.todo
    BY <1>0 DEF MarkFinalizing
  <1>3. Released(m) /\ \A n \in call.todo : Released(n)
    BY <1>1, <1>2 DEF ProtocolCallSound
  <1>4. CASE EndProtocol(c) /\ UNCHANGED <<sourceItem, sourcePhase>>
    BY <1>4, EndKeeps DEF MarkFinalizing, sourceVars
  <1>5. CASE UpdateFinalization(m, "finalizing") /\ InProtocol(c, x)
    <2>1. PICK item \in SourceItems : /\ sourceItem' = [sourceItem EXCEPT ![m] = item]
                                      /\ item.acknowledged = sourceItem[m].acknowledged
      BY <1>3, <1>5, UpdateFinalizationChanges DEF Released
    <2>2. sourcePhase' \in [Transfers -> Phases]
      BY <1>3, <1>5, UpdateFinalizationChanges DEF Released
    <2>3. call.todo \subseteq MoveRequests
      BY <1>1, <1>2 DEF ProtocolCallTypes, TargetCalls, SourceCalls, NoProtocolCall
    <2>4. x \in ProtocolCallTypes
      BY <2>3 DEF ProtocolCallTypes, SourceCalls
    <2>5. ProtocolCallSound(x)
      BY <1>3, <2>4 DEF ProtocolCallSound
    <2>6. ackReceipts' \subseteq 1..MaxAnswers /\ UNCHANGED <<removed, targetVars>>
      BY <1>1 DEF MarkFinalizing, StoreTypes
    <2> HIDE DEF x
    <2> QED
      BY <1>3, <1>5, <2>1, <2>2, <2>5, <2>6, ItemChanges DEF Released
  <1> QED
    BY <1>0, <1>4, <1>5 DEF MarkFinalizing

LEMMA MarkFinalizationKeeps ==
  ASSUME MoveInv, NEW c \in ProtocolCalls, MarkFinalization(c)
  PROVE  MoveInv'
  <1>0. PICK call : call = protocolCall[c]
    OBVIOUS
  <1>1. StoreTypes /\ call \in ProtocolCallTypes /\ ProtocolCallSound(call)
    BY <1>0 DEF MoveInv
  <1>2. call.pc \in {"finalized", "failed"} /\ UpdateFinalization(call.request, call.pc)
    BY <1>0 DEF MarkFinalization
  <1>3. call.request \in MoveRequests /\ call.todo \subseteq MoveRequests
    BY <1>1, <1>2 DEF ProtocolCallTypes, TargetCalls, SourceCalls, NoProtocolCall
  <1>4. Released(call.request) /\ \A n \in call.todo : Released(n)
    BY <1>1, <1>2 DEF ProtocolCallSound
  <1>5. PICK item \in SourceItems : /\ sourceItem' = [sourceItem EXCEPT ![call.request] = item]
                                    /\ item.acknowledged = sourceItem[call.request].acknowledged
    BY <1>2, <1>3, <1>4, UpdateFinalizationChanges DEF Released
  <1>6. sourcePhase' \in [Transfers -> Phases]
    BY <1>2, <1>3, <1>4, UpdateFinalizationChanges DEF Released
  <1>7. PICK x : InProtocol(c, x) /\ x \in {NoProtocolCall, [pc |-> "finalize", todo |-> call.todo]}
    BY <1>0 DEF MarkFinalization, EndProtocol
  <1>8. ProtocolCallSound(x)
    <2>1. [pc |-> "finalize", todo |-> call.todo] \in ProtocolCallTypes
      BY <1>3 DEF ProtocolCallTypes, SourceCalls
    <2>2. ProtocolCallSound([pc |-> "finalize", todo |-> call.todo])
      BY <1>4, <2>1 DEF ProtocolCallSound
    <2> QED
      BY <1>7, <2>2, NoProtocolCallSound
  <1>9. ackReceipts' \subseteq 1..MaxAnswers /\ UNCHANGED <<removed, targetVars>>
    BY <1>1 DEF MarkFinalization, StoreTypes
  <1> QED
    BY <1>3, <1>4, <1>5, <1>6, <1>7, <1>8, <1>9, ItemChanges DEF Released

LEMMA FinalizerKeeps ==
  ASSUME MoveInv, NEW c \in ProtocolCalls, Finalizer(c)
  PROVE  MoveInv'
  <1>0. PICK call : call = protocolCall[c]
    OBVIOUS
  <1>1. StoreTypes /\ call \in ProtocolCallTypes /\ ProtocolCallSound(call) /\ call.pc = "finalizer"
    BY <1>0 DEF MoveInv, Finalizer
  <1>2. /\ call \in [pc: {"finalizer", "finalized", "failed"}, request: MoveRequests, todo: SUBSET MoveRequests]
        /\ call.request \in MoveRequests
    BY <1>1 DEF ProtocolCallTypes, TargetCalls, SourceCalls, NoProtocolCall
  <1>3. PICK outcome \in {"finalized", "failed"} : InProtocol(c, [call EXCEPT !.pc = outcome])
    BY <1>0 DEF Finalizer
  <1> DEFINE x == [call EXCEPT !.pc = outcome]
  <1>4. /\ x \in [pc: {"finalizer", "finalized", "failed"}, request: MoveRequests, todo: SUBSET MoveRequests]
        /\ x.pc = outcome /\ x.request = call.request /\ x.todo = call.todo
    BY <1>2
  <1>5. ProtocolCallSound(x)
    <2>1. x \in ProtocolCallTypes
      BY <1>4 DEF ProtocolCallTypes, SourceCalls
    <2> QED
      BY <1>1, <1>4, <2>1 DEF ProtocolCallSound
  <1>6. UNCHANGED <<sourceItem, sourcePhase, ackReceipts, targetItem, answers, pin, listing, verified>>
    BY DEF Finalizer, targetVars
  <1>7. Grows
    BY <1>6 DEF Grows
  <1>8. ProtocolCallSound(x)'
    BY <1>5, <1>7, ProtocolCallStays
  <1>9. /\ removed \subseteq removed'
        /\ \A m \in removed' : m \in removed \/ m = call.request
    BY <1>0 DEF Finalizer
  <1>10. StoreTypes'
    BY <1>1, <1>2, <1>6, <1>9 DEF StoreTypes
  <1>11. \A m \in MoveRequests : \/ ItemJustified(m)'
                                 \/ sourceItem'[m] = sourceItem[m] /\ (m \in removed' => m \in removed)
    <2>1. Taken(call.request)'
      BY <1>1, <1>2, <1>7, ReleasedStays DEF ProtocolCallSound, Released
    <2>2. ItemJustified(call.request)'
      BY <2>1 DEF ItemJustified
    <2> QED
      BY <1>6, <1>9, <2>2
  <1>12. IsFiniteSet(answers') /\ \A a \in answers' : a \in answers
    BY <1>6 DEF MoveInv
  <1> HIDE DEF x
  <1> QED
    BY <1>3, <1>7, <1>8, <1>10, <1>11, <1>12, OneCallChanges, MoveStep DEF x

-------------------------------------------------------------------------------
LEMMA MpInitSound == MpInit => MoveInv
  <1> SUFFICES ASSUME MpInit PROVE MoveInv
    OBVIOUS
  <1>1. pin \in Listings
    BY DEF MpInit, Listings
  <1>2. StoreTypes
    BY <1>1 DEF MpInit, StoreTypes
  <1>3. IsFiniteSet(answers) /\ answers = {}
    BY FS_EmptySet DEF MpInit
  <1>4. \A m \in MoveRequests : ItemJustified(m)
    BY DEF MpInit, ItemJustified
  <1>5. /\ protocolCall \in [ProtocolCalls -> ProtocolCallTypes]
        /\ \A c \in ProtocolCalls : ProtocolCallSound(protocolCall[c])
    BY NoProtocolCallSound DEF MpInit, ProtocolCallTypes
  <1> QED
    BY <1>2, <1>3, <1>4, <1>5 DEF MoveInv

LEMMA MoveInvKeeps == MoveInv /\ [MpNext]_mpVars => MoveInv'
  <1> SUFFICES ASSUME MoveInv, [MpNext]_mpVars PROVE MoveInv'
    OBVIOUS
  <1>1. CASE UNCHANGED mpVars
    <2>1. StoreTypes /\ protocolCall \in [ProtocolCalls -> ProtocolCallTypes]
      BY DEF MoveInv
    <2> QED
      BY <1>1, <2>1, IdleMove DEF mpVars, sourceVars, targetVars, StoreTypes
  <1>2. ASSUME NEW m \in MoveRequests, QueueRequest(m) PROVE MoveInv'
    BY <1>2, QueueRequestKeeps
  <1>3. ASSUME NEW c \in ProtocolCalls, NEW m \in MoveRequests, ReceiveRequest(c, m) \/ MarkFinalizing(c, m)
        PROVE  MoveInv'
    BY <1>3, ReceiveRequestKeeps, MarkFinalizingKeeps
  <1>4. ASSUME NEW c \in ProtocolCalls, \/ ReplayResponse(c) \/ PreviewRecord(c) \/ VerifyOriginal(c)
                                        \/ ImportRecord(c) \/ RefreshPin(c) \/ SealPin(c)
                                        \/ RecordTargetAcknowledgement(c)
        PROVE  MoveInv'
    BY <1>4, ReplayResponseKeeps, PreviewRecordKeeps, VerifyOriginalKeeps, ImportRecordKeeps,
       RefreshPinKeeps, SealPinKeeps, RecordTargetAcknowledgementKeeps
  <1>5. ASSUME NEW c \in ProtocolCalls, NEW a \in answers, Acknowledge(c, a) PROVE MoveInv'
    BY <1>5, AcknowledgeKeeps
  <1>6. ASSUME NEW c \in ProtocolCalls, NEW t \in Transfers, ResumeFinalization(c, t) PROVE MoveInv'
    BY <1>6, ResumeFinalizationKeeps
  <1>7. ASSUME NEW c \in ProtocolCalls, ApplyAcknowledgement(c) \/ Finalizer(c) \/ MarkFinalization(c)
        PROVE  MoveInv'
    BY <1>7, ApplyAcknowledgementKeeps, FinalizerKeeps, MarkFinalizationKeeps
  <1>10. ASSUME NEW c \in ProtocolCalls, ProtocolFails(c) PROVE MoveInv'
    BY <1>10, EndKeeps DEF ProtocolFails
  <1>8. ASSUME NEW i \in PinIds, DeletePin(i) PROVE MoveInv'
    BY <1>8, DeletePinKeeps
  <1>9. CASE TargetStops \/ SourceStops
    BY <1>9, StopsKeep
  <1> QED
    BY <1>1, <1>2, <1>3, <1>4, <1>5, <1>6, <1>7, <1>8, <1>9, <1>10 DEF MpNext

\* An accepted item, and a removed record, have an answer that accepted the request;
\* every answer proves what it says; every call in flight carries only what is so.
THEOREM MoveInvariance == MpSpec => []MoveInv
  BY MpInitSound, MoveInvKeeps, PTL DEF MpSpec

\* Items, answers, pins and the calls of either side keep their types.
THEOREM MoveTypes == MpSpec => []MpTypeOK
<1>1. MoveInv => MpTypeOK
  BY DEF MoveInv, StoreTypes, MpTypeOK, ProtocolCallTypes
<1> QED
  BY <1>1, MoveInvariance, PTL

LEMMA MoveInvProvesRemovals == MoveInv => RemovalIsProven
  <1> SUFFICES ASSUME MoveInv, NEW m \in removed
               PROVE  /\ \E a \in answers : a.request = m /\ a.accepted /\ a.persisted
                      /\ HasOriginal(m) => m \in verified
    BY DEF RemovalIsProven
  <1>1. m \in MoveRequests
    BY DEF MoveInv, StoreTypes
  <1>2. PICK a \in answers : a.request = m /\ a.accepted
    BY <1>1 DEF MoveInv, ItemJustified, Taken
  <1>3. AnswerSound(a)
    BY DEF MoveInv
  <1> QED
    BY <1>2, <1>3 DEF AnswerSound

\* For any set of requests and calls: the source removes a record only after the target
\* has answered that it took it, and its original if it has one.
THEOREM RemovalsAreProven == MpSpec => []RemovalIsProven
  BY MoveInvariance, MoveInvProvesRemovals, PTL

LEMMA AcceptedItemStays ==
  ASSUME MoveInv, [MpNext]_mpVars, NEW m \in MoveRequests, sourceItem[m] # NoMoveItem
  PROVE  /\ sourceItem[m].acknowledged => sourceItem'[m].acknowledged
         /\ sourceItem[m].finalized => sourceItem'[m].finalized
  <1>1. sourceItem \in [MoveRequests -> SourceItems \cup {NoMoveItem}] /\ sourceItem[m] \in SourceItems
    BY DEF MoveInv, StoreTypes
  <1>2. CASE UNCHANGED sourceItem
    BY <1>2
  <1>3. ASSUME NEW n \in MoveRequests, QueueRequest(n)
        PROVE  sourceItem'[m] = sourceItem[m]
    BY <1>1, <1>3 DEF QueueRequest
  <1>4. ASSUME NEW n, NEW state, UpdateFinalization(n, state)
        PROVE  /\ sourceItem'[m].acknowledged = sourceItem[m].acknowledged
               /\ sourceItem[m].finalized => sourceItem'[m].finalized
    BY <1>1, <1>4 DEF UpdateFinalization, SourceItems
  <1>5. ASSUME NEW c \in ProtocolCalls, ApplyAcknowledgement(c)
        PROVE  /\ sourceItem[m].acknowledged => sourceItem'[m].acknowledged
               /\ sourceItem'[m].finalized = sourceItem[m].finalized
    BY <1>1, <1>5 DEF ApplyAcknowledgement, Applied, SourceItems
  <1>6. ASSUME NEW c \in ProtocolCalls, NEW n \in MoveRequests, MarkFinalizing(c, n)
        PROVE  UNCHANGED sourceItem \/ UpdateFinalization(n, "finalizing")
    BY <1>6 DEF MarkFinalizing
  <1>7. ASSUME NEW c \in ProtocolCalls, MarkFinalization(c)
        PROVE  UpdateFinalization(protocolCall[c].request, protocolCall[c].pc)
    BY <1>7 DEF MarkFinalization
  <1>8. \/ UNCHANGED sourceItem
        \/ \E n \in MoveRequests : QueueRequest(n)
        \/ \E c \in ProtocolCalls : ApplyAcknowledgement(c) \/ MarkFinalization(c)
        \/ \E c \in ProtocolCalls, n \in MoveRequests : MarkFinalizing(c, n)
    BY DEF MpNext, mpVars, sourceVars, ReceiveRequest, ReplayResponse, PreviewRecord, VerifyOriginal,
       ImportRecord, RefreshPin, SealPin, RecordTargetAcknowledgement, Acknowledge, ResumeFinalization,
       Finalizer, ProtocolFails, DeletePin, TargetStops, SourceStops
  <1> QED
    BY <1>2, <1>3, <1>4, <1>5, <1>6, <1>7, <1>8

\* For any set of requests and calls: no late answer and no later finalization takes
\* an acceptance or a finalization back.
THEOREM AcceptancesStay == MpSpec => AcceptanceStays
  <1>1. MoveInv /\ [MpNext]_mpVars =>
          [\A m \in MoveRequests : sourceItem[m] # NoMoveItem =>
             /\ sourceItem[m].acknowledged => sourceItem'[m].acknowledged
             /\ sourceItem[m].finalized => sourceItem'[m].finalized]_mpVars
    BY AcceptedItemStays
  <1> QED
    BY <1>1, MoveInvariance, PTL DEF MpSpec, AcceptanceStays

-------------------------------------------------------------------------------
(* Convergence                                                             *)
(*                                                                         *)
(* The invariant of the first property says of every copy, a library's or  *)
(* a snapshot's, that its field revisions stand for its history: an edit   *)
(* is in the history of a field exactly if its number is covered by the    *)
(* editor's component of the field revision.  The second is about the      *)
(* versions of one field; its argument is given where it begins.           *)

FR(record, f) == R!FieldRevision(record, f)

\* The history s accounts for the revisions of the record, given what each
\* product has in its own library.
Accounts(record, s, libraries, histories) ==
  \A f \in Fields :
    /\ record.value[f] \in s[f]
    /\ \A e \in s[f] :
         e \in Values /\ e[2] <= FR(record, f)[e[1]] /\ e \in histories[e[1]][f]
    /\ \A q \in Products :
         /\ FR(record, f)[q] <= FR(libraries[q], f)[q]
         /\ \A e \in histories[q][f] : e[1] = q /\ e[2] <= FR(record, f)[q] => e \in s[f]

Accounted ==
  /\ \A p \in Products : Accounts(library[p], seen[p], library, seen)
  /\ \A m \in snapshots : Accounts(m.record, m.seen, library, seen)

IInv == ScTypeOK /\ Accounted /\ NoSilentLoss

-----------------------------------------------------------------------------
(* Merging                                                                 *)

\* What any adopted record has of the two copies it was made from.
MadeFrom(record, a, b) ==
  /\ R!IsSnapshot(record)
  /\ \A f \in Fields :
       /\ record.value[f] \in {a.value[f], b.value[f]}
       /\ \A q \in Products :
            /\ FR(a, f)[q] <= FR(record, f)[q]
            /\ FR(b, f)[q] <= FR(record, f)[q]
            /\ FR(record, f)[q] \in {FR(a, f)[q], FR(b, f)[q]}

\* A later revision of a field, in every component.
FieldCovers(b, a, f) == \A q \in Products : FR(a, f)[q] <= FR(b, f)[q]

LEMMA RevisionTyped ==
  ASSUME NEW record, R!IsSnapshot(record), NEW f \in Fields
  PROVE  /\ FR(record, f) \in R!Vectors
         /\ \A q \in Products : FR(record, f)[q] \in Nat
  BY DEF FR, R!IsSnapshot, R!FieldRevision, R!Vectors, Products

LEMMA MergedRevisions ==
  ASSUME NEW it, R!IsSnapshot(it), NEW ov, R!IsSnapshot(ov)
  PROVE  /\ R!IsSnapshot(R!Merged(it, ov))
         /\ \A f \in Fields :
              FR(R!Merged(it, ov), f) = R!MergeRevisions(FR(it, f), FR(ov, f))
<1>1. \A l, r \in R!Vectors : R!MergeRevisions(l, r) \in R!Vectors
  BY DEF R!MergeRevisions, R!Vectors
<1>2. \A f \in Fields : R!MergeRevisions(FR(it, f), FR(ov, f)) \in R!Vectors
  BY <1>1, RevisionTyped
<1>3. R!MergeRevisions(it.revision, ov.revision) \in R!Vectors
  BY <1>1 DEF R!IsSnapshot
<1>4. R!Merged(it, ov).value \in [Fields -> Values]
  BY DEF R!Merged, R!IsSnapshot
<1>5. /\ R!Merged(it, ov).revision \in R!Vectors
      /\ R!Merged(it, ov).fieldRevisions \in [Fields -> R!Vectors]
      /\ DOMAIN R!Merged(it, ov).fieldRevisions = Fields
  BY <1>2, <1>3 DEF R!Merged, FR
<1>6. R!Merged(it, ov)
        = [value |-> R!Merged(it, ov).value, revision |-> R!Merged(it, ov).revision,
           fieldRevisions |-> R!Merged(it, ov).fieldRevisions]
  BY DEF R!Merged
<1>7. R!IsSnapshot(R!Merged(it, ov))
  BY <1>4, <1>5, <1>6 DEF R!IsSnapshot
<1>8. \A f \in Fields : FR(R!Merged(it, ov), f) = R!MergeRevisions(FR(it, f), FR(ov, f))
  BY DEF R!Merged, R!FieldRevision, FR
<1> QED
  BY <1>7, <1>8

LEMMA MergedIsMade ==
  ASSUME NEW it, R!IsSnapshot(it), NEW ov, R!IsSnapshot(ov)
  PROVE  MadeFrom(R!Merged(it, ov), it, ov)
<1>1. ASSUME NEW f \in Fields
      PROVE  R!Merged(it, ov).value[f] \in {it.value[f], ov.value[f]}
  BY DEF R!Merged
<1>2. ASSUME NEW f \in Fields, NEW q \in Products
      PROVE  /\ FR(it, f)[q] <= FR(R!Merged(it, ov), f)[q]
             /\ FR(ov, f)[q] <= FR(R!Merged(it, ov), f)[q]
             /\ FR(R!Merged(it, ov), f)[q] \in {FR(it, f)[q], FR(ov, f)[q]}
  <2>1. FR(R!Merged(it, ov), f)[q]
          = IF FR(it, f)[q] >= FR(ov, f)[q] THEN FR(it, f)[q] ELSE FR(ov, f)[q]
    BY MergedRevisions DEF R!MergeRevisions, Products
  <2>2. FR(it, f)[q] \in Nat /\ FR(ov, f)[q] \in Nat
    BY RevisionTyped
  <2> QED
    BY <2>1, <2>2
<1> QED
  BY <1>1, <1>2, MergedRevisions DEF MadeFrom

\* Where nothing conflicts, the value that was not kept is the earlier one.
LEMMA KeptIsLater ==
  ASSUME NEW it, R!IsSnapshot(it), NEW ov, R!IsSnapshot(ov), NEW f \in Fields,
         f \notin R!Conflicts(it, ov)
  PROVE  /\ R!Merged(it, ov).value[f] # it.value[f] => FieldCovers(ov, it, f)
         /\ R!Merged(it, ov).value[f] # ov.value[f] => FieldCovers(it, ov, f)
<1>1. /\ R!Relation(it, ov, f) = "before" => FieldCovers(ov, it, f)
      /\ R!Relation(it, ov, f) = "after" => FieldCovers(it, ov, f)
      /\ R!Relation(it, ov, f) \in {"before", "after", "equal", "concurrent"}
  BY DEF R!Relation, R!CompareRevisions, R!NoLater, FieldCovers, FR, Products
<1>2. CASE f \in R!Taken(it, ov)
  BY <1>1, <1>2 DEF R!Merged, R!Taken
<1>3. CASE f \notin R!Taken(it, ov)
  <2>1. R!Merged(it, ov).value[f] = it.value[f]
    BY <1>3 DEF R!Merged
  <2>2. it.value[f] # ov.value[f] => R!Relation(it, ov, f) = "after"
    BY <1>1, <1>3 DEF R!Conflicts, R!Taken, R!Differing
  <2> QED
    BY <1>1, <2>1, <2>2
<1> QED
  BY <1>2, <1>3

LEMMA PrimaryIsMade ==
  ASSUME NEW it, R!IsSnapshot(it), NEW ov, R!IsSnapshot(ov), NEW decisions,
         NEW conflicts
  PROVE  LET a == [category |-> "conflict", merged |-> R!Merged(it, ov),
                   conflicts |-> conflicts]
         IN  MadeFrom(R!Primary(a, ov, decisions), it, ov)
<1> DEFINE chosen == R!Choosing(decisions, conflicts, {"keep-overlook"})
           merged == R!Merged(it, ov)
           primary == R!WithValues(merged, chosen, ov)
<1>1. MadeFrom(merged, it, ov)
  BY MergedIsMade
<1>2. R!IsSnapshot(merged)
  BY <1>1 DEF MadeFrom
<1> HIDE DEF chosen, merged
<1>3. merged = [value |-> merged.value, revision |-> merged.revision,
                fieldRevisions |-> merged.fieldRevisions]
  BY <1>2 DEF R!IsSnapshot
<1>4. primary = [value |-> [f \in Fields |-> IF f \in chosen THEN ov.value[f] ELSE merged.value[f]],
                 revision |-> merged.revision, fieldRevisions |-> merged.fieldRevisions]
  BY <1>3 DEF R!WithValues
<1>5. ov.value \in [Fields -> Values] /\ merged.value \in [Fields -> Values]
  BY <1>2 DEF R!IsSnapshot
<1>6. R!IsSnapshot(primary)
  BY <1>2, <1>4, <1>5 DEF R!IsSnapshot
<1>7. \A f \in Fields : FR(primary, f) = FR(merged, f)
  BY <1>4 DEF FR, R!FieldRevision
<1>8. \A f \in Fields : primary.value[f] \in {ov.value[f], merged.value[f]}
  BY <1>4
<1> HIDE DEF primary
<1>9. MadeFrom(primary, it, ov)
  BY <1>1, <1>6, <1>7, <1>8 DEF MadeFrom
<1> QED
  BY <1>9 DEF primary, merged, chosen, R!Primary

LEMMA MadeFromIsSymmetric ==
  ASSUME NEW record, NEW a, NEW b, MadeFrom(record, a, b)
  PROVE  MadeFrom(record, b, a)
  BY DEF MadeFrom

LEMMA MergedCarries ==
  ASSUME NEW it, R!IsSnapshot(it), NEW ov, R!IsSnapshot(ov)
  PROVE  /\ DOMAIN R!Merged(it, ov).fieldRevisions = Fields
         /\ \A f \in Fields : R!Merged(it, ov).fieldRevisions[f] = FR(R!Merged(it, ov), f)
BY DEF R!Merged, FR, R!FieldRevision

\* A decision changes the value of a conflicting field, nothing else.
LEMMA PrimaryKeeps ==
  ASSUME NEW it, R!IsSnapshot(it), NEW ov, R!IsSnapshot(ov), NEW decisions, NEW conflicts
  PROVE  LET merged == R!Merged(it, ov)
             primary == R!Primary([category |-> "conflict", merged |-> merged,
                                   conflicts |-> conflicts], ov, decisions)
         IN  /\ DOMAIN primary.fieldRevisions = Fields
             /\ \A f \in Fields : FR(primary, f) = merged.fieldRevisions[f]
             /\ \A f \in Fields \ conflicts : primary.value[f] = merged.value[f]
<1> DEFINE chosen == R!Choosing(decisions, conflicts, {"keep-overlook"})
           merged == R!Merged(it, ov)
           primary == R!WithValues(merged, chosen, ov)
<1>1. /\ merged = [value |-> merged.value, revision |-> merged.revision,
                   fieldRevisions |-> merged.fieldRevisions]
      /\ DOMAIN merged.fieldRevisions = Fields
  BY MergedRevisions, MergedCarries DEF R!IsSnapshot
<1>2. chosen \subseteq conflicts
  BY DEF R!Choosing
<1> HIDE DEF chosen, merged
<1>3. primary = [value |-> [f \in Fields |-> IF f \in chosen THEN ov.value[f] ELSE merged.value[f]],
                 revision |-> merged.revision, fieldRevisions |-> merged.fieldRevisions]
  BY <1>1 DEF R!WithValues
<1>4. /\ DOMAIN primary.fieldRevisions = Fields
      /\ \A f \in Fields : FR(primary, f) = merged.fieldRevisions[f]
      /\ \A f \in Fields \ conflicts : primary.value[f] = merged.value[f]
  BY <1>1, <1>2, <1>3 DEF FR, R!FieldRevision
<1> HIDE DEF primary
<1> QED BY <1>4 DEF primary, merged, chosen, R!Primary

\* The revisions of a field that conflicts are equal or concurrent.
LEMMA ConflictIsUnordered ==
  ASSUME NEW it, NEW ov, NEW f \in R!Conflicts(it, ov)
  PROVE  R!NoLater(FR(it, f), FR(ov, f)) <=> R!NoLater(FR(ov, f), FR(it, f))
BY DEF R!Conflicts, R!Relation, R!CompareRevisions, FR

-----------------------------------------------------------------------------
(* Applying an item                                                        *)

\* What apply hands to the applier, of any two copies that differ, in whatever state
\* the library is by then: every field has the value and the revision components of
\* one of the two copies and no earlier revision than either; a value given up
\* without a decision is of an earlier revision; and what was decided was unordered.
THEOREM OutcomeBuildsOnBoth ==
  ASSUME NEW p \in Products, NEW i, R!IsSnapshot(i.local), R!IsSnapshot(i.remote.record),
         AnalysisOf(p, i).category # "duplicate"
  PROVE  LET a == AnalysisOf(p, i)
             o == Outcome(p, i)
             m == i.remote.record
         IN  /\ MadeFrom(o, i.local, m)
             /\ DOMAIN o.fieldRevisions = Fields
             /\ a.conflicts \subseteq Fields
             /\ a.merged.fieldRevisions \in [Fields -> R!Vectors]
             /\ \A f \in Fields : FR(o, f) = a.merged.fieldRevisions[f]
             /\ \A f \in Fields \ a.conflicts :
                  /\ o.value[f] # i.local.value[f] => FieldCovers(m, i.local, f)
                  /\ o.value[f] # m.value[f] => FieldCovers(i.local, m, f)
             /\ \A f \in a.conflicts :
                  R!NoLater(FR(i.local, f), FR(m, f)) <=> R!NoLater(FR(m, f), FR(i.local, f))
<1> DEFINE it == ImageTrailCopy(p, i)
           ov == OverlookCopy(p, i)
           a == AnalysisOf(p, i)
           o == Outcome(p, i)
           m == i.remote.record
           conflict == [category |-> "conflict", merged |-> R!Merged(it, ov),
                        conflicts |-> R!Conflicts(it, ov)]
<1>1. R!IsSnapshot(it) /\ R!IsSnapshot(ov)
  BY DEF ImageTrailCopy, OverlookCopy
<1>2. \/ it = i.local /\ ov = m
      \/ it = m /\ ov = i.local
  BY DEF ImageTrailCopy, OverlookCopy
<1>3. a = R!Analyze(it, ov)
  BY DEF AnalysisOf
<1>4. o = R!Primary(a, ov, i.decisions)
  BY DEF Outcome
<1> HIDE DEF it, ov, m, o
<1>5. a.merged = R!Merged(it, ov) /\ a.conflicts = R!Conflicts(it, ov)
  BY <1>3 DEF R!Analyze
<1> HIDE DEF a
<1>6. o = R!Primary(conflict, ov, i.decisions)
  BY <1>4, <1>5 DEF R!Primary
<1>7. MadeFrom(o, it, ov)
  BY <1>1, <1>6, PrimaryIsMade
<1>8. MadeFrom(o, i.local, m)
  BY <1>2, <1>7, MadeFromIsSymmetric
<1>9. /\ DOMAIN o.fieldRevisions = Fields
      /\ \A f \in Fields : FR(o, f) = a.merged.fieldRevisions[f]
      /\ \A f \in Fields \ a.conflicts : o.value[f] = a.merged.value[f]
  BY <1>1, <1>5, <1>6, PrimaryKeeps
<1>10. a.merged.fieldRevisions \in [Fields -> R!Vectors]
  <2>1. R!IsSnapshot(a.merged) /\ DOMAIN a.merged.fieldRevisions = Fields
    BY <1>1, <1>5, MergedRevisions, MergedCarries
  <2> QED
    BY <2>1 DEF R!IsSnapshot
<1>11. a.conflicts \subseteq Fields
  BY <1>5 DEF R!Conflicts, R!Differing
<1>12. \A f \in Fields \ a.conflicts :
         /\ o.value[f] # it.value[f] => FieldCovers(ov, it, f)
         /\ o.value[f] # ov.value[f] => FieldCovers(it, ov, f)
  BY <1>1, <1>5, <1>9, KeptIsLater
<1>13. \A f \in Fields \ a.conflicts :
         /\ o.value[f] # i.local.value[f] => FieldCovers(m, i.local, f)
         /\ o.value[f] # m.value[f] => FieldCovers(i.local, m, f)
  BY <1>2, <1>12
<1>14. \A f \in a.conflicts :
         R!NoLater(FR(i.local, f), FR(m, f)) <=> R!NoLater(FR(m, f), FR(i.local, f))
  BY <1>2, <1>5, ConflictIsUnordered
<1> QED
  BY <1>8, <1>9, <1>10, <1>11, <1>13, <1>14 DEF a, o, m

\* An item in an apply's hands, and what the applier takes of it.
LEMMA ItemInHand ==
  ASSUME ScTypeOK, NEW p \in Products, ApplyOutcome(p)
  PROVE  LET i == applying[p]
         IN  /\ i.remote \in snapshots /\ i.remote.from # p
             /\ R!IsSnapshot(i.local) /\ R!IsSnapshot(i.remote.record)
             /\ AnalysisOf(p, i).category # "duplicate"
             /\ library' = [library EXCEPT ![p] = Outcome(p, i)]
             /\ seen' = [seen EXCEPT ![p] = [f \in Fields |-> seen[p][f] \cup i.remote.seen[f]]]
             /\ decided' = decided \cup
                  {<<f, AnalysisOf(p, i).merged.fieldRevisions[f]>> : f \in AnalysisOf(p, i).conflicts}
             /\ dropped' = dropped \cup Lost(p, i)
             /\ snapshots' = snapshots
             /\ ApplierChecks => library[p] = i.local
<1> DEFINE i == applying[p]
<1>1. i.state \in {"eligible", "ready"}
  BY DEF ApplyOutcome, Handed
<1>2. i = Nothing => i.state = "none"
  BY DEF Nothing
<1>3. IsItem(p, i)
  BY <1>1, <1>2 DEF ScTypeOK, ItemsTyped
<1> HIDE DEF i
<1>4. /\ i.remote \in snapshots /\ i.remote.from # p
      /\ R!IsSnapshot(i.local) /\ R!IsSnapshot(i.remote.record)
      /\ AnalysisOf(p, i).category # "duplicate"
  BY <1>1, <1>3 DEF IsItem, ScTypeOK, CopiesTyped
<1>5. /\ library' = [library EXCEPT ![p] = Outcome(p, i)]
      /\ seen' = [seen EXCEPT ![p] = [f \in Fields |-> seen[p][f] \cup i.remote.seen[f]]]
      /\ decided' = decided \cup
           {<<f, AnalysisOf(p, i).merged.fieldRevisions[f]>> : f \in AnalysisOf(p, i).conflicts}
      /\ dropped' = dropped \cup Lost(p, i)
      /\ snapshots' = snapshots
      /\ ApplierChecks => library[p] = i.local
  BY DEF ApplyOutcome, Adopt, InApply, Current, i
<1> QED
  BY <1>4, <1>5 DEF i

\* The library's copy and its history become those of an outcome and both copies.
Takes(p, m, record) ==
  /\ library' = [library EXCEPT ![p] = record]
  /\ seen' = [seen EXCEPT ![p] = [f \in Fields |-> seen[p][f] \cup m.seen[f]]]
  /\ snapshots' = snapshots

\* An adopted copy, with both histories, is accounted for; so is every other.
LEMMA AdoptAccounts ==
  ASSUME IInv, NEW p \in Products, NEW m \in snapshots, NEW record,
         MadeFrom(record, library[p], m.record), Takes(p, m, record)
  PROVE  Accounted'
<1> DEFINE merged == [f \in Fields |-> seen[p][f] \cup m.seen[f]]
<1>1. /\ library \in [Products -> {library[q] : q \in Products}]
      /\ seen \in [Products -> [Fields -> SUBSET Values]]
  BY DEF IInv, ScTypeOK, CopiesTyped
<1>2. /\ library'[p] = record
      /\ seen'[p] = merged
      /\ \A q \in Products \ {p} : library'[q] = library[q] /\ seen'[q] = seen[q]
      /\ snapshots' = snapshots
  BY <1>1 DEF Takes
<1>3. \A f \in Fields : merged[f] = seen[p][f] \cup m.seen[f]
  OBVIOUS
<1>4. /\ Accounts(library[p], seen[p], library, seen)
      /\ Accounts(m.record, m.seen, library, seen)
  BY DEF IInv, Accounted
<1>5. /\ R!IsSnapshot(library[p])
      /\ R!IsSnapshot(m.record)
      /\ R!IsSnapshot(record)
  BY DEF IInv, ScTypeOK, CopiesTyped, MadeFrom
<1>6. \A f \in Fields, q \in Products :
        /\ FR(library[p], f)[q] \in Nat
        /\ FR(m.record, f)[q] \in Nat
        /\ FR(record, f)[q] \in Nat
  BY <1>5, RevisionTyped
<1>7. \A f \in Fields : \A e \in merged[f] :
        e[1] \in Products /\ e[2] \in Nat /\ e \in Values
  <2>1. m.seen \in [Fields -> SUBSET Values]
    BY DEF IInv, ScTypeOK, CopiesTyped
  <2> QED
    BY <1>1, <2>1, <1>3 DEF Values, Products, R!Products
<1>8. \A f \in Fields, q \in Products :
        \A e \in seen'[q][f] : e[1] = q => e \in seen[q][f]
  BY <1>2, <1>3, <1>4 DEF Accounts
<1>9. \A f \in Fields, q \in Products : seen[q][f] \subseteq seen'[q][f]
  BY <1>2, <1>3
<1>10. \A f \in Fields, q \in Products :
         /\ FR(library[p], f)[q] <= FR(record, f)[q]
         /\ FR(m.record, f)[q] <= FR(record, f)[q]
         /\ FR(record, f)[q] \in {FR(library[p], f)[q], FR(m.record, f)[q]}
  BY DEF MadeFrom
<1>11. \A f \in Fields, q \in Products :
         /\ FR(library'[q], f)[q] \in Nat
         /\ FR(library[q], f)[q] <= FR(library'[q], f)[q]
         /\ FR(library[q], f)[q] \in Nat
  <2>1. \A q \in Products : R!IsSnapshot(library[q])
    BY DEF IInv, ScTypeOK, CopiesTyped
  <2> QED
    BY <2>1, <1>2, <1>6, <1>10, RevisionTyped
<1> HIDE DEF merged
<1>12. ASSUME NEW r, NEW s, Accounts(r, s, library, seen), R!IsSnapshot(r)
       PROVE  Accounts(r, s, library', seen')
  <2>1. ASSUME NEW f \in Fields
        PROVE  /\ r.value[f] \in s[f]
               /\ \A e \in s[f] :
                    e \in Values /\ e[2] <= FR(r, f)[e[1]] /\ e \in seen[e[1]][f]
               /\ \A q \in Products :
                    /\ FR(r, f)[q] <= FR(library[q], f)[q]
                    /\ \A e \in seen[q][f] :
                         e[1] = q /\ e[2] <= FR(r, f)[q] => e \in s[f]
    BY <1>12 DEF Accounts
  <2>2. \A f \in Fields : \A e \in s[f] : e[1] \in Products
    BY <2>1 DEF Values, Products, R!Products
  <2> QED
    BY <2>1, <2>2, <1>8, <1>9, <1>11, <1>12, RevisionTyped DEF Accounts
<1>13. Accounts(record, merged, library', seen')
  <2>1. ASSUME NEW f \in Fields
        PROVE  record.value[f] \in merged[f]
    BY <1>3, <1>4 DEF Accounts, MadeFrom
  <2>2. ASSUME NEW f \in Fields, NEW e \in merged[f]
        PROVE  e \in Values /\ e[2] <= FR(record, f)[e[1]] /\ e \in seen'[e[1]][f]
    <3>1. e[1] \in Products /\ e[2] \in Nat /\ e \in Values
      BY <1>7
    <3>2. CASE e \in seen[p][f]
      BY <3>1, <3>2, <1>4, <1>6, <1>9, <1>10 DEF Accounts
    <3>3. CASE e \in m.seen[f]
      BY <3>1, <3>3, <1>4, <1>6, <1>9, <1>10 DEF Accounts
    <3> QED
      BY <3>2, <3>3, <1>3
  <2>3. ASSUME NEW f \in Fields, NEW q \in Products
        PROVE  FR(record, f)[q] <= FR(library'[q], f)[q]
    <3>1. CASE q = p
      BY <3>1, <1>2, <1>6
    <3>2. CASE q # p
      BY <3>2, <1>2, <1>4, <1>10 DEF Accounts
    <3> QED
      BY <3>1, <3>2
  <2>4. ASSUME NEW f \in Fields, NEW q \in Products, NEW e \in seen'[q][f],
               e[1] = q, e[2] <= FR(record, f)[q]
        PROVE  e \in merged[f]
    <3>1. e \in seen[q][f]
      BY <2>4, <1>8
    <3>2. CASE FR(record, f)[q] = FR(library[p], f)[q]
      BY <3>1, <3>2, <2>4, <1>3, <1>4 DEF Accounts
    <3>3. CASE FR(record, f)[q] = FR(m.record, f)[q]
      BY <3>1, <3>3, <2>4, <1>3, <1>4 DEF Accounts
    <3> QED
      BY <3>2, <3>3, <1>10
  <2> QED
    BY <2>1, <2>2, <2>3, <2>4 DEF Accounts
<1>14. \A q \in Products : Accounts(library'[q], seen'[q], library', seen')
  <2>1. ASSUME NEW q \in Products PROVE Accounts(library'[q], seen'[q], library', seen')
    <3>1. CASE q = p
      BY <3>1, <1>2, <1>13
    <3>2. CASE q # p
      BY <3>2, <1>2, <1>12 DEF IInv, ScTypeOK, CopiesTyped, Accounted
    <3> QED
      BY <3>1, <3>2
  <2> QED
    BY <2>1
<1>15. \A n \in snapshots' : Accounts(n.record, n.seen, library', seen')
  BY <1>2, <1>12 DEF IInv, ScTypeOK, CopiesTyped, Accounted
<1> QED
  BY <1>14, <1>15 DEF Accounted

\* The adopted copy is well typed.
LEMMA AdoptTyped ==
  ASSUME CopiesTyped, NEW p \in Products, NEW m \in snapshots, NEW record,
         R!IsSnapshot(record), Takes(p, m, record)
  PROVE  CopiesTyped'
<1>1. m.seen \in [Fields -> SUBSET Values] /\ seen \in [Products -> [Fields -> SUBSET Values]]
  BY DEF CopiesTyped
<1>2. [f \in Fields |-> seen[p][f] \cup m.seen[f]] \in [Fields -> SUBSET Values]
  BY <1>1
<1>3. seen' \in [Products -> [Fields -> SUBSET Values]]
  BY <1>1, <1>2 DEF Takes
<1> QED
  BY <1>3 DEF CopiesTyped, Takes

\* Where the library still is the analysed copy, a value that the outcome gives up
\* undecided is in the history of the one it keeps.
LEMMA NothingIsLost ==
  ASSUME IInv, ApplierChecks, NEW p \in Products, ApplyOutcome(p)
  PROVE  Lost(p, applying[p]) = {}
<1> DEFINE i == applying[p]
           m == i.remote
           a == AnalysisOf(p, i)
           o == Outcome(p, i)
<1>0. /\ m \in snapshots /\ i.local = library[p] /\ a.category # "duplicate"
      /\ R!IsSnapshot(i.local) /\ R!IsSnapshot(m.record)
  BY ItemInHand DEF IInv
<1>1. SUFFICES ASSUME NEW f \in Fields \ a.conflicts, f \in Lost(p, i)
               PROVE  FALSE
  <2>1. ReviewedFields(p, i) = a.conflicts
    BY <1>0 DEF ReviewedFields
  <2> QED
    BY <2>1 DEF Lost
<1>2. /\ o.value[f] # library[p].value[f] => FieldCovers(m.record, library[p], f)
      /\ o.value[f] # m.record.value[f] => FieldCovers(library[p], m.record, f)
  BY <1>0, OutcomeBuildsOnBoth
<1>3. \/ /\ o.value[f] # library[p].value[f]
         /\ library[p].value[f] \notin m.seen[f]
      \/ /\ o.value[f] # m.record.value[f]
         /\ m.record.value[f] \notin seen[p][f]
  BY <1>1 DEF Lost
<1> HIDE DEF a, o, i
<1>4. /\ R!IsSnapshot(library[p])
      /\ R!IsSnapshot(m.record)
  BY <1>0 DEF IInv, ScTypeOK, CopiesTyped
<1>5. /\ Accounts(library[p], seen[p], library, seen)
      /\ Accounts(m.record, m.seen, library, seen)
  BY <1>0 DEF IInv, Accounted
<1>6. \A r : R!IsSnapshot(r) => r.value[f] \in Values
  BY DEF R!IsSnapshot
<1>7. \A x \in Values : x[1] \in Products /\ x[2] \in Nat
  BY DEF Values, Products, R!Products
<1>8. ASSUME NEW b, NEW sb, NEW c, NEW sc,
             Accounts(b, sb, library, seen), Accounts(c, sc, library, seen),
             R!IsSnapshot(b), R!IsSnapshot(c), FieldCovers(c, b, f)
      PROVE  b.value[f] \in sc[f]
  <2> DEFINE x == b.value[f]
  <2>1. x[1] \in Products /\ x[2] \in Nat
    BY <1>6, <1>7, <1>8
  <2>2. x \in sb[f]
    BY <1>8 DEF Accounts
  <2>3. x[2] <= FR(b, f)[x[1]] /\ x \in seen[x[1]][f]
    BY <1>8, <2>2 DEF Accounts
  <2>4. FR(b, f)[x[1]] <= FR(c, f)[x[1]]
    BY <1>8, <2>1 DEF FieldCovers
  <2>5. FR(b, f)[x[1]] \in Nat /\ FR(c, f)[x[1]] \in Nat
    BY <1>8, <2>1, RevisionTyped
  <2>6. x[2] <= FR(c, f)[x[1]]
    BY <2>1, <2>3, <2>4, <2>5
  <2> QED
    BY <1>8, <2>1, <2>3, <2>6 DEF Accounts
<1> QED
  BY <1>2, <1>3, <1>4, <1>5, <1>8

-----------------------------------------------------------------------------
(* Editing                                                                 *)

\* The revisions an edit leaves: only the editor's own component moves, the
\* edited field's by one.
LEMMA EditedRevisions ==
  ASSUME CopiesTyped, NEW p \in Products, NEW f \in Fields
  PROVE  /\ R!IsSnapshot(Edited(p, f))
         /\ Edited(p, f).value[f] = NextEdit(p, f)
         /\ \A g \in Fields \ {f} : Edited(p, f).value[g] = library[p].value[g]
         /\ FR(Edited(p, f), f)[p] = FR(library[p], f)[p] + 1
         /\ \A g \in Fields, q \in Products :
              /\ FR(library[p], g)[q] <= FR(Edited(p, f), g)[q]
              /\ q # p => FR(Edited(p, f), g)[q] = FR(library[p], g)[q]
         /\ NextEdit(p, f) \in Values
<1> DEFINE old == library[p]
           new == Edited(p, f)
           own == [g \in DOMAIN old.fieldRevisions \cup {f} |->
                     IF g = f THEN R!IncrementRevision(R!FieldRevision(old, f), p)
                     ELSE old.fieldRevisions[g]]
<1>1. R!IsSnapshot(old)
  BY DEF CopiesTyped
<1>2. ASSUME NEW v \in R!Vectors
      PROVE  /\ R!IncrementRevision(v, p) \in R!Vectors
             /\ R!IncrementRevision(v, p)[p] = v[p] + 1
             /\ v[p] \in Nat
             /\ \A q \in Products : v[q] <= R!IncrementRevision(v, p)[q]
             /\ \A q \in Products \ {p} : R!IncrementRevision(v, p)[q] = v[q]
  BY DEF R!Vectors, R!IncrementRevision, Products
<1>3. new = [value |-> [old.value EXCEPT ![f] = NextEdit(p, f)],
             revision |-> R!IncrementRevision(old.revision, p), fieldRevisions |-> own]
  BY DEF Edited
<1>4. FR(old, f) \in R!Vectors /\ old.revision \in R!Vectors
  BY <1>1, RevisionTyped DEF R!IsSnapshot
<1>5. NextEdit(p, f) \in Values
  BY <1>4, <1>2 DEF NextEdit, Values, Products, R!Products, FR
<1>6. own \in [DOMAIN old.fieldRevisions \cup {f} -> R!Vectors]
  BY <1>1, <1>2, <1>4 DEF R!IsSnapshot, FR
<1>7. DOMAIN own \subseteq Fields /\ DOMAIN own = DOMAIN old.fieldRevisions \cup {f}
  BY <1>1 DEF R!IsSnapshot
<1>8. old.value \in [Fields -> Values]
  BY <1>1 DEF R!IsSnapshot
<1>9. own[f] = R!IncrementRevision(FR(old, f), p)
  BY DEF FR
<1>10. \A g \in DOMAIN old.fieldRevisions \ {f} : own[g] = old.fieldRevisions[g]
  OBVIOUS
<1> HIDE DEF own, new, old
<1>11. /\ new.value = [old.value EXCEPT ![f] = NextEdit(p, f)]
       /\ new.revision = R!IncrementRevision(old.revision, p)
       /\ new.fieldRevisions = own
       /\ new = [value |-> new.value, revision |-> new.revision,
                 fieldRevisions |-> new.fieldRevisions]
  BY <1>3
<1>12. R!IsSnapshot(new)
  BY <1>2, <1>4, <1>5, <1>6, <1>7, <1>8, <1>11 DEF R!IsSnapshot
<1>13. FR(new, f) = R!IncrementRevision(FR(old, f), p)
  BY <1>7, <1>9, <1>11 DEF FR, R!FieldRevision
<1>14. \A g \in Fields \ {f} :
         FR(new, g) \in {FR(old, g), R!IncrementRevision(FR(old, g), p)}
  <2>1. ASSUME NEW g \in Fields \ {f}, g \in DOMAIN old.fieldRevisions
        PROVE  FR(new, g) = FR(old, g)
    BY <2>1, <1>7, <1>10, <1>11 DEF FR, R!FieldRevision
  <2>2. ASSUME NEW g \in Fields \ {f}, g \notin DOMAIN old.fieldRevisions
        PROVE  FR(new, g) = R!IncrementRevision(FR(old, g), p)
    BY <2>2, <1>7, <1>11 DEF FR, R!FieldRevision
  <2> QED
    BY <2>1, <2>2
<1>15. ASSUME NEW g \in Fields, NEW q \in Products
       PROVE  /\ FR(old, g)[q] <= FR(new, g)[q]
              /\ q # p => FR(new, g)[q] = FR(old, g)[q]
  <2>1. FR(old, g) \in R!Vectors /\ FR(old, g)[q] \in Nat
    BY <1>1, RevisionTyped DEF old
  <2>2. FR(new, g) \in {FR(old, g), R!IncrementRevision(FR(old, g), p)}
    BY <1>13, <1>14
  <2>3. CASE FR(new, g) = FR(old, g)
    BY <2>1, <2>3
  <2>4. CASE FR(new, g) = R!IncrementRevision(FR(old, g), p)
    BY <2>1, <2>4, <1>2
  <2> QED
    BY <2>2, <2>3, <2>4
<1>16. FR(new, f)[p] = FR(old, f)[p] + 1
  BY <1>2, <1>4, <1>13
<1>17. /\ new.value[f] = NextEdit(p, f)
       /\ \A g \in Fields \ {f} : new.value[g] = old.value[g]
  BY <1>8, <1>11
<1> QED
  BY <1>5, <1>12, <1>15, <1>16, <1>17 DEF new, old

\* An edit is in its editor's history and in nobody else's reach: its number is
\* above every revision of the field.
LEMMA EditAccounts ==
  ASSUME IInv, NEW p \in Products, NEW f \in Fields, Edit(p, f)
  PROVE  Accounted'
<1> DEFINE e0 == NextEdit(p, f)
           new == Edited(p, f)
<1>1. CopiesTyped
  BY DEF IInv, ScTypeOK
<1>2. /\ library'[p] = new
      /\ seen'[p] = [seen[p] EXCEPT ![f] = @ \cup {e0}]
      /\ \A q \in Products \ {p} : library'[q] = library[q] /\ seen'[q] = seen[q]
      /\ snapshots' = snapshots
  BY <1>1 DEF CopiesTyped, Edit
<1>3. /\ seen'[p][f] = seen[p][f] \cup {e0}
      /\ \A g \in Fields \ {f} : seen'[p][g] = seen[p][g]
  BY <1>1, <1>2 DEF CopiesTyped
<1>4. /\ e0[1] = p /\ e0[2] = FR(library[p], f)[p] + 1 /\ e0 \in Values
      /\ R!IsSnapshot(new)
      /\ new.value[f] = e0
      /\ \A g \in Fields \ {f} : new.value[g] = library[p].value[g]
      /\ FR(new, f)[p] = FR(library[p], f)[p] + 1
      /\ \A g \in Fields, q \in Products :
           /\ FR(library[p], g)[q] <= FR(new, g)[q]
           /\ q # p => FR(new, g)[q] = FR(library[p], g)[q]
  BY <1>1, EditedRevisions DEF NextEdit, FR
<1> HIDE DEF e0, new
<1>5. \A q \in Products : R!IsSnapshot(library[q])
  BY <1>1 DEF CopiesTyped
<1>6. \A g \in Fields, q \in Products :
        /\ FR(library[q], g)[q] \in Nat
        /\ FR(library'[q], g)[q] \in Nat
        /\ FR(library[q], g)[q] <= FR(library'[q], g)[q]
        /\ FR(library[p], g)[q] \in Nat
        /\ FR(new, g)[q] \in Nat
  BY <1>2, <1>4, <1>5, RevisionTyped
<1>7. ASSUME NEW g \in Fields, NEW q \in Products, NEW e \in seen'[q][g]
      PROVE  e \in seen[q][g] \/ (g = f /\ q = p /\ e = e0)
  BY <1>2, <1>3
<1>8. \A g \in Fields, q \in Products : seen[q][g] \subseteq seen'[q][g]
  BY <1>2, <1>3
<1>9. \A x \in Values : x[1] \in Products /\ x[2] \in Nat
  BY DEF Values, Products, R!Products
<1>10. ASSUME NEW r, NEW s, Accounts(r, s, library, seen), R!IsSnapshot(r)
       PROVE  Accounts(r, s, library', seen')
  <2>1. ASSUME NEW g \in Fields
        PROVE  /\ r.value[g] \in s[g]
               /\ \A e \in s[g] :
                    e \in Values /\ e[2] <= FR(r, g)[e[1]] /\ e \in seen[e[1]][g]
               /\ \A q \in Products :
                    /\ FR(r, g)[q] <= FR(library[q], g)[q]
                    /\ \A e \in seen[q][g] :
                         e[1] = q /\ e[2] <= FR(r, g)[q] => e \in s[g]
    BY <1>10 DEF Accounts
  <2>2. ASSUME NEW g \in Fields, NEW q \in Products
        PROVE  FR(r, g)[q] <= FR(library'[q], g)[q]
    BY <2>1, <1>6, <1>10, RevisionTyped
  <2>3. ~(e0[2] <= FR(r, f)[p])
    BY <2>1, <1>4, <1>6, <1>10, RevisionTyped
  <2>4. ASSUME NEW g \in Fields, NEW q \in Products, NEW e \in seen'[q][g],
               e[1] = q, e[2] <= FR(r, g)[q]
        PROVE  e \in s[g]
    BY <2>1, <2>3, <2>4, <1>7
  <2>5. ASSUME NEW g \in Fields, NEW e \in s[g]
        PROVE  e \in Values /\ e[2] <= FR(r, g)[e[1]] /\ e \in seen'[e[1]][g]
    BY <2>1, <1>8, <1>9
  <2> QED
    BY <2>1, <2>2, <2>4, <2>5 DEF Accounts
<1>11. Accounts(new, seen'[p], library', seen')
  <2>1. Accounts(library[p], seen[p], library, seen)
    BY DEF IInv, Accounted
  <2>2. ASSUME NEW g \in Fields
        PROVE  new.value[g] \in seen'[p][g]
    BY <2>1, <1>3, <1>4 DEF Accounts
  <2>3. ASSUME NEW g \in Fields, NEW e \in seen'[p][g]
        PROVE  e \in Values /\ e[2] <= FR(new, g)[e[1]] /\ e \in seen'[e[1]][g]
    <3>1. CASE e \in seen[p][g]
      <4>1. e \in Values /\ e[2] <= FR(library[p], g)[e[1]] /\ e \in seen[e[1]][g]
        BY <2>1, <3>1 DEF Accounts
      <4>2. e[1] \in Products /\ e[2] \in Nat
        BY <4>1, <1>9
      <4> QED
        BY <4>1, <4>2, <1>4, <1>6, <1>8
    <3>2. CASE g = f /\ e = e0
      BY <3>2, <2>3, <1>4, <1>6
    <3> QED
      BY <3>1, <3>2, <1>7
  <2>4. ASSUME NEW g \in Fields, NEW q \in Products
        PROVE  FR(new, g)[q] <= FR(library'[q], g)[q]
    <3>1. CASE q = p
      BY <3>1, <1>2, <1>6
    <3>2. CASE q # p
      BY <3>2, <2>1, <1>2, <1>4 DEF Accounts
    <3> QED
      BY <3>1, <3>2
  <2>5. ASSUME NEW g \in Fields, NEW q \in Products, NEW e \in seen'[q][g],
               e[1] = q, e[2] <= FR(new, g)[q]
        PROVE  e \in seen'[p][g]
    <3>1. CASE q = p
      BY <3>1, <2>5
    <3>2. CASE q # p
      <4>1. e \in seen[q][g] /\ e[2] <= FR(library[p], g)[q]
        BY <3>2, <2>5, <1>2, <1>4
      <4> QED
        BY <4>1, <2>1, <2>5, <1>8 DEF Accounts
    <3> QED
      BY <3>1, <3>2
  <2> QED
    BY <2>2, <2>3, <2>4, <2>5 DEF Accounts
<1>12. ASSUME NEW q \in Products PROVE Accounts(library'[q], seen'[q], library', seen')
  <2>1. CASE q = p
    BY <2>1, <1>2, <1>11
  <2>2. CASE q # p
    BY <2>2, <1>2, <1>5, <1>10 DEF IInv, Accounted
  <2> QED
    BY <2>1, <2>2
<1>13. \A n \in snapshots' : Accounts(n.record, n.seen, library', seen')
  BY <1>1, <1>2, <1>10 DEF IInv, ScTypeOK, CopiesTyped, Accounted
<1> QED
  BY <1>12, <1>13 DEF Accounted

LEMMA EditTyped ==
  ASSUME CopiesTyped, NEW p \in Products, NEW f \in Fields, Edit(p, f)
  PROVE  CopiesTyped'
<1>1. R!IsSnapshot(Edited(p, f)) /\ NextEdit(p, f) \in Values
  BY EditedRevisions
<1>2. [seen[p] EXCEPT ![f] = @ \cup {NextEdit(p, f)}] \in [Fields -> SUBSET Values]
  BY <1>1 DEF CopiesTyped
<1>3. seen' \in [Products -> [Fields -> SUBSET Values]]
  BY <1>2 DEF CopiesTyped, Edit
<1>4. /\ library' = [q \in Products |-> library'[q]]
      /\ \A q \in Products : R!IsSnapshot(library'[q])
  BY <1>1 DEF CopiesTyped, Edit
<1> QED
  BY <1>3, <1>4 DEF CopiesTyped, Edit

-----------------------------------------------------------------------------
(* The items                                                               *)

\* IsItem, of the snapshots that the item's other copy is among.
ItemOver(p, i, s) ==
  /\ i = [local |-> i.local, remote |-> i.remote, decisions |-> i.decisions,
          state |-> i.state]
  /\ R!IsSnapshot(i.local)
  /\ i.remote \in s /\ i.remote.from # p
  /\ i.state \in ItemStates
  /\ i.state \in {"eligible", "delete-review", "ready"} => AnalysisOf(p, i).category # "duplicate"

HandOver(p, h, s) ==
  \/ h \in {Nothing, [state |-> "applied"], [state |-> "failed"]}
  \/ ItemOver(p, h, s) /\ h.state \in {"eligible", "ready"}

\* The items and what is applied of them, of one product.
ItemsOver(p, i, h, s) ==
  /\ i = Nothing \/ ItemOver(p, i, s)
  /\ h # Nothing => i # Nothing
  /\ HandOver(p, h, s)

LEMMA ItemsByProduct ==
  ItemsTyped <=> /\ itemOf = [p \in Products |-> itemOf[p]]
                 /\ applying = [p \in Products |-> applying[p]]
                 /\ \A p \in Products : ItemsOver(p, itemOf[p], applying[p], snapshots)
  BY DEF ItemsTyped, ItemsOver, HandOver, ItemOver, IsItem

LEMMA ItemsByProductThen ==
  ItemsTyped' <=> /\ itemOf' = [p \in Products |-> itemOf'[p]]
                  /\ applying' = [p \in Products |-> applying'[p]]
                  /\ \A p \in Products : ItemsOver(p, itemOf'[p], applying'[p], snapshots')
  BY DEF ItemsTyped, ItemsOver, HandOver, ItemOver, IsItem

\* A step changes the item and the apply of one product at most.
LEMMA OneProductsItems ==
  ASSUME ItemsTyped, snapshots \subseteq snapshots', NEW p \in Products, NEW i, NEW h,
         itemOf' = [itemOf EXCEPT ![p] = i], applying' = [applying EXCEPT ![p] = h],
         ItemsOver(p, i, h, snapshots)
  PROVE  ItemsTyped'
<1>1. ASSUME NEW q, NEW j, NEW k, ItemsOver(q, j, k, snapshots)
      PROVE  ItemsOver(q, j, k, snapshots')
  BY <1>1 DEF ItemsOver, HandOver, ItemOver
<1>2. /\ itemOf'[p] = i /\ applying'[p] = h
      /\ \A q \in Products \ {p} : itemOf'[q] = itemOf[q] /\ applying'[q] = applying[q]
  BY ItemsByProduct
<1>3. ASSUME NEW q \in Products PROVE ItemsOver(q, itemOf'[q], applying'[q], snapshots)
  BY <1>2, ItemsByProduct
<1> QED
  BY <1>1, <1>3, ItemsByProduct, ItemsByProductThen

LEMMA ItemsRest ==
  ASSUME ItemsTyped, snapshots \subseteq snapshots', UNCHANGED <<itemOf, applying>>
  PROVE  ItemsTyped'
<1>1. ASSUME NEW q, NEW j, NEW k, ItemsOver(q, j, k, snapshots)
      PROVE  ItemsOver(q, j, k, snapshots')
  BY <1>1 DEF ItemsOver, HandOver, ItemOver
<1> QED
  BY <1>1, ItemsByProduct, ItemsByProductThen

LEMMA ReceiveItems ==
  ASSUME ScTypeOK, NEW p \in Products, NEW m \in snapshots,
         NEW local \in LocalCopies(p), ReceiveSnapshot(p, m, local)
  PROVE  ItemsTyped'
<1> DEFINE pair == [local |-> local, remote |-> m]
           i == [local |-> local, remote |-> m, decisions |-> <<>>,
                 state |-> AnalysisOf(p, pair).category]
<1>0. R!IsSnapshot(local)
  BY DEF LocalCopies, ScTypeOK, CopiesTyped
<1>1. /\ itemOf' = [itemOf EXCEPT ![p] = i] /\ UNCHANGED <<snapshots, applying>>
      /\ m.from # p
  BY DEF ReceiveSnapshot, Store
<1>2. AnalysisOf(p, i) = AnalysisOf(p, pair)
  BY DEF AnalysisOf, ImageTrailCopy, OverlookCopy
<1>3. AnalysisOf(p, pair).category \in R!Categories
  BY DEF AnalysisOf, R!Analyze, R!Categories
<1>4. /\ i.local = local /\ i.remote = m /\ i.state = AnalysisOf(p, i).category
      /\ i = [local |-> i.local, remote |-> i.remote, decisions |-> i.decisions,
              state |-> i.state]
  BY <1>2
<1> HIDE DEF i
<1>5. ItemOver(p, i, snapshots)
  BY <1>0, <1>1, <1>2, <1>3, <1>4 DEF ItemOver, ItemStates, R!Categories
<1>6. ItemsOver(p, i, applying[p], snapshots)
  BY <1>5, ItemsByProduct DEF ItemsOver, ScTypeOK, ItemOver, ItemStates, Nothing
<1>7. applying' = [applying EXCEPT ![p] = applying[p]]
  BY <1>1, ItemsByProduct DEF ScTypeOK
<1> QED
  BY <1>1, <1>6, <1>7, OneProductsItems DEF ScTypeOK

\* A stored item stays one when its decisions and its state change.
LEMMA ItemUpdates ==
  ASSUME NEW p, NEW i, NEW s, ItemOver(p, i, s), NEW decisions, NEW state \in ItemStates,
         state \in {"eligible", "delete-review", "ready"} => AnalysisOf(p, i).category # "duplicate"
  PROVE  /\ ItemOver(p, Marked([i EXCEPT !.decisions = decisions], state), s)
         /\ ItemOver(p, Marked(i, state), s)
<1>1. PICK l, r, d, t : i = [local |-> l, remote |-> r, decisions |-> d, state |-> t]
  BY DEF ItemOver
<1>2. ASSUME NEW e
      PROVE  ItemOver(p, [local |-> l, remote |-> r, decisions |-> e, state |-> state], s)
  <2> DEFINE j == [local |-> l, remote |-> r, decisions |-> e, state |-> state]
  <2>1. AnalysisOf(p, j) = AnalysisOf(p, i)
    BY <1>1 DEF AnalysisOf, ImageTrailCopy, OverlookCopy
  <2>2. j.local = i.local /\ j.remote = i.remote /\ j.state = state
    BY <1>1
  <2>3. j = [local |-> j.local, remote |-> j.remote, decisions |-> j.decisions, state |-> j.state]
    OBVIOUS
  <2> HIDE DEF j
  <2>4. ItemOver(p, j, s)
    BY <2>1, <2>2, <2>3 DEF ItemOver
  <2> QED
    BY <2>4 DEF j
<1>3. ASSUME NEW k, NEW e, k = [local |-> l, remote |-> r, decisions |-> e, state |-> t]
      PROVE  ItemOver(p, Marked(k, state), s)
  <2>1. Marked(k, state) = [local |-> l, remote |-> r, decisions |-> e, state |-> state]
    BY <1>3 DEF Marked
  <2> QED
    BY <1>2, <2>1
<1>4. [i EXCEPT !.decisions = decisions] =
        [local |-> l, remote |-> r, decisions |-> decisions, state |-> t]
  BY <1>1
<1> QED
  BY <1>1, <1>3, <1>4, Zenon

\* Putting an item changes its product's alone, whether or not an apply ends.
LEMMA StoredItems ==
  ASSUME ScTypeOK, NEW p \in Products, NEW j, ItemOver(p, j, snapshots),
         NEW h, h = applying[p] \/ h = Nothing,
         itemOf' = [itemOf EXCEPT ![p] = j], applying' = [applying EXCEPT ![p] = h],
         UNCHANGED snapshots
  PROVE  ItemsTyped'
<1>1. HandOver(p, h, snapshots)
  BY ItemsByProduct DEF ScTypeOK, ItemsOver, HandOver
<1>2. j # Nothing
  BY DEF ItemOver, ItemStates, Nothing
<1>3. ItemsOver(p, j, h, snapshots)
  BY <1>1, <1>2 DEF ItemsOver
<1> QED
  BY <1>3, OneProductsItems DEF ScTypeOK

LEMMA DecideItems ==
  ASSUME ScTypeOK, NEW p \in Products, DecideConflicts(p)
  PROVE  ItemsTyped'
<1> DEFINE state == IF HasTombstone(itemOf[p]) THEN "delete-review" ELSE "ready"
<1>1. PICK decisions \in [AnalysisOf(p, itemOf[p]).conflicts -> R!Actions] :
        Store(p, Marked([itemOf[p] EXCEPT !.decisions = decisions], state))
  BY Zenon DEF DecideConflicts
<1>2. itemOf[p] # Nothing /\ AnalysisOf(p, itemOf[p]).conflicts # {}
  BY Zenon DEF DecideConflicts
<1>3. AnalysisOf(p, itemOf[p]).category # "duplicate"
  BY <1>2 DEF AnalysisOf, R!Analyze
<1>4. state \in ItemStates
  BY DEF ItemStates
<1> HIDE DEF state
<1> DEFINE j == Marked([itemOf[p] EXCEPT !.decisions = decisions], state)
<1>5. ItemOver(p, itemOf[p], snapshots) /\ applying = [applying EXCEPT ![p] = applying[p]]
  BY <1>2, ItemsByProduct DEF ScTypeOK, ItemsOver
<1>6. ItemOver(p, j, snapshots)
  BY <1>3, <1>4, <1>5, ItemUpdates
<1>7. /\ itemOf' = [itemOf EXCEPT ![p] = j]
      /\ applying' = [applying EXCEPT ![p] = applying[p]] /\ UNCHANGED snapshots
  BY <1>1, <1>5, Zenon DEF Store
<1> HIDE DEF j
<1> QED
  BY <1>6, <1>7, StoredItems

LEMMA ReviewItems ==
  ASSUME ScTypeOK, NEW p \in Products, NEW approve \in BOOLEAN, ReviewDeletion(p, approve)
  PROVE  ItemsTyped'
<1> DEFINE state == IF approve THEN "ready" ELSE "skipped"
<1>1. itemOf[p].state = "delete-review" /\ Store(p, Marked(itemOf[p], state))
  BY DEF ReviewDeletion
<1>2. itemOf[p] # Nothing
  BY <1>1 DEF Nothing
<1>3. ItemOver(p, itemOf[p], snapshots) /\ applying = [applying EXCEPT ![p] = applying[p]]
  BY <1>2, ItemsByProduct DEF ScTypeOK, ItemsOver
<1>4. AnalysisOf(p, itemOf[p]).category # "duplicate"
  BY <1>1, <1>3 DEF ItemOver
<1>5. state \in ItemStates
  BY DEF ItemStates
<1> HIDE DEF state
<1> DEFINE j == Marked(itemOf[p], state)
<1>6. ItemOver(p, j, snapshots)
  BY <1>3, <1>4, <1>5, ItemUpdates
<1>7. /\ itemOf' = [itemOf EXCEPT ![p] = j]
      /\ applying' = [applying EXCEPT ![p] = applying[p]] /\ UNCHANGED snapshots
  BY <1>1, <1>3, Zenon DEF Store
<1> HIDE DEF j
<1> QED
  BY <1>6, <1>7, StoredItems

LEMMA MarkItems ==
  ASSUME ScTypeOK, NEW p \in Products, MarkItem(p)
  PROVE  ItemsTyped'
<1> DEFINE j == Marked(itemOf[p], applying[p].state)
<1>1. applying[p].state \in {"applied", "failed"}
  BY DEF MarkItem
<1>2. applying[p] # Nothing
  BY <1>1 DEF Nothing
<1>3. ItemOver(p, itemOf[p], snapshots)
  BY <1>2, ItemsByProduct DEF ScTypeOK, ItemsOver
<1>4. itemOf' = [itemOf EXCEPT ![p] = j] /\ applying' = [applying EXCEPT ![p] = Nothing]
      /\ UNCHANGED snapshots
  BY DEF MarkItem, InApply
<1>5. applying[p].state \in ItemStates
  BY <1>1 DEF ItemStates
<1>6. ItemOver(p, j, snapshots)
  BY <1>1, <1>3, <1>5, ItemUpdates
<1> HIDE DEF j
<1> QED
  BY <1>4, <1>6, StoredItems

\* Reading an item for an apply, the applier's end and a stop.
LEMMA ApplyItems ==
  ASSUME ScTypeOK, NEW p \in Products,
         BeginApply(p) \/ ApplyOutcome(p) \/ RefuseOutcome(p) \/ StopApply(p)
  PROVE  ItemsTyped'
<1>1. ItemsOver(p, itemOf[p], applying[p], snapshots)
  BY ItemsByProduct DEF ScTypeOK
<1>2. itemOf' = [itemOf EXCEPT ![p] = itemOf[p]] /\ UNCHANGED snapshots
  <2>1. UNCHANGED <<itemOf, snapshots>>
    BY DEF BeginApply, ApplyOutcome, RefuseOutcome, StopApply, InApply
  <2> QED
    BY <2>1, ItemsByProduct DEF ScTypeOK
<1>3. ASSUME NEW h, applying' = [applying EXCEPT ![p] = h], h # Nothing => itemOf[p] # Nothing,
             HandOver(p, h, snapshots)
      PROVE  ItemsTyped'
  <2>1. ItemsOver(p, itemOf[p], h, snapshots)
    BY <1>1, <1>3 DEF ItemsOver
  <2> QED
    BY <1>2, <1>3, <2>1, OneProductsItems DEF ScTypeOK
<1>4. CASE BeginApply(p)
  <2>1. itemOf[p].state \in {"eligible", "ready", "duplicate"}
    BY <1>4 DEF BeginApply
  <2>2. itemOf[p] # Nothing
    BY <2>1 DEF Nothing
  <2>3. CASE /\ itemOf[p].state \in {"eligible", "ready"}
             /\ applying' = [applying EXCEPT ![p] = itemOf[p]]
    <3>1. HandOver(p, itemOf[p], snapshots)
      BY <1>1, <2>2, <2>3 DEF ItemsOver, HandOver
    <3> QED
      BY <1>3, <2>2, <2>3, <3>1
  <2>4. CASE applying' = [applying EXCEPT ![p] = [state |-> "applied"]]
    <3>1. HandOver(p, [state |-> "applied"], snapshots)
      BY DEF HandOver
    <3> QED
      BY <1>3, <2>2, <2>4, <3>1
  <2> QED
    BY <1>4, <2>3, <2>4 DEF BeginApply, InApply
<1>5. CASE ApplyOutcome(p) \/ RefuseOutcome(p)
  <2>1. applying[p] # Nothing
    BY <1>5 DEF ApplyOutcome, RefuseOutcome, Handed, Nothing
  <2>2. PICK mark \in {"applied", "failed"} : applying' = [applying EXCEPT ![p] = [state |-> mark]]
    BY <1>5 DEF ApplyOutcome, RefuseOutcome, InApply
  <2>3. HandOver(p, [state |-> mark], snapshots) /\ itemOf[p] # Nothing
    BY <1>1, <2>1 DEF ItemsOver, HandOver
  <2> QED
    BY <1>3, <2>2, <2>3
<1>6. CASE StopApply(p)
  <2>1. applying' = [applying EXCEPT ![p] = Nothing] /\ HandOver(p, Nothing, snapshots)
    BY <1>6 DEF StopApply, InApply, HandOver
  <2> QED
    BY <1>3, <2>1
<1> QED
  BY <1>4, <1>5, <1>6

-----------------------------------------------------------------------------
(* The invariant                                                           *)

LEMMA InitTyped ==
  ASSUME ScInit
  PROVE  /\ ScTypeOK
         /\ R!IsSnapshot(Exported)
         /\ Base \in Values /\ Base[1] = "imageTrail" /\ Base[2] = 0
<1>1. INITIAL_REVISION \in R!Vectors
  BY DEF INITIAL_REVISION, R!Vectors, Products
<1>2. Base \in Values /\ Base[1] = "imageTrail" /\ Base[2] = 0
  BY DEF Base, Values
<1>3. R!IsSnapshot(Exported)
  BY <1>1, <1>2 DEF Exported, R!IsSnapshot
<1>4. CopiesTyped
  BY <1>2, <1>3 DEF ScInit, CopiesTyped
<1>5. ItemsTyped
  BY DEF ScInit, ItemsTyped
<1>6. decided = {} /\ dropped = {}
  BY DEF ScInit
<1> QED
  BY <1>2, <1>3, <1>4, <1>5, <1>6 DEF ScTypeOK

\* The types hold whatever the applier does.
LEMMA StepTyped == ASSUME ScTypeOK, [ScNext]_scVars PROVE ScTypeOK'
<1>1. ASSUME NEW p \in Products, NEW f \in Fields, Edit(p, f) PROVE ScTypeOK'
  <2>1. UNCHANGED <<snapshots, itemOf, applying, decided, dropped>>
    BY <1>1 DEF Edit
  <2> QED
    BY <1>1, <2>1, EditTyped, ItemsRest DEF ScTypeOK
<1>2. ASSUME NEW p \in Products, TakeSnapshot(p) PROVE ScTypeOK'
  <2>1. /\ snapshots' = snapshots \cup {[from |-> p, record |-> library[p], seen |-> seen[p]]}
        /\ UNCHANGED <<library, seen, itemOf, applying, decided, dropped>>
    BY <1>2 DEF TakeSnapshot
  <2>2. CopiesTyped'
    BY <2>1 DEF ScTypeOK, CopiesTyped
  <2> QED
    BY <2>1, <2>2, ItemsRest DEF ScTypeOK
<1>3. ASSUME ItemsTyped', UNCHANGED <<library, seen, snapshots, decided, dropped>> PROVE ScTypeOK'
  BY <1>3 DEF ScTypeOK, CopiesTyped
<1>4. ASSUME NEW p \in Products, NEW m \in snapshots, NEW local \in LocalCopies(p),
             ReceiveSnapshot(p, m, local)
      PROVE  ScTypeOK'
  BY <1>3, <1>4, ReceiveItems DEF ReceiveSnapshot, Store
<1>5. ASSUME NEW p \in Products, DecideConflicts(p) PROVE ScTypeOK'
  <2>1. UNCHANGED <<library, seen, snapshots, decided, dropped>>
    BY <1>5, Zenon DEF DecideConflicts, Store
  <2> QED
    BY <1>3, <1>5, <2>1, DecideItems
<1>6. ASSUME NEW p \in Products, NEW approve \in BOOLEAN, ReviewDeletion(p, approve) PROVE ScTypeOK'
  BY <1>3, <1>6, ReviewItems DEF ReviewDeletion, Store
<1>7. ASSUME NEW p \in Products, MarkItem(p) PROVE ScTypeOK'
  BY <1>3, <1>7, MarkItems DEF MarkItem, InApply
<1>8. ASSUME NEW p \in Products, BeginApply(p) \/ RefuseOutcome(p) \/ StopApply(p) PROVE ScTypeOK'
  BY <1>3, <1>8, ApplyItems DEF BeginApply, RefuseOutcome, StopApply, InApply
<1>9. ASSUME NEW p \in Products, ApplyOutcome(p) PROVE ScTypeOK'
  <2> DEFINE i == applying[p]
             a == AnalysisOf(p, i)
             o == Outcome(p, i)
  <2>1. /\ i.remote \in snapshots /\ R!IsSnapshot(i.local) /\ R!IsSnapshot(i.remote.record)
        /\ a.category # "duplicate"
        /\ Takes(p, i.remote, o)
        /\ decided' = decided \cup {<<f, a.merged.fieldRevisions[f]>> : f \in a.conflicts}
        /\ dropped' = dropped \cup Lost(p, i)
    BY <1>9, ItemInHand DEF Takes
  <2>2. MadeFrom(o, i.local, i.remote.record) /\ a.conflicts \subseteq Fields
        /\ a.merged.fieldRevisions \in [Fields -> R!Vectors]
    BY <2>1, OutcomeBuildsOnBoth
  <2>3. Lost(p, i) \subseteq Fields
    BY DEF Lost
  <2> HIDE DEF a, o, i
  <2>4. R!IsSnapshot(o)
    BY <2>2 DEF MadeFrom
  <2>5. CopiesTyped'
    BY <2>1, <2>4, AdoptTyped DEF ScTypeOK
  <2>6. ItemsTyped'
    BY <1>9, ApplyItems
  <2>7. decided' \subseteq Fields \X R!Vectors
    BY <2>1, <2>2 DEF ScTypeOK
  <2>8. dropped' \subseteq Fields
    BY <2>1, <2>3 DEF ScTypeOK
  <2> QED
    BY <2>5, <2>6, <2>7, <2>8 DEF ScTypeOK
<1>10. CASE UNCHANGED scVars
  BY <1>3, <1>10, ItemsRest DEF scVars, ScTypeOK
<1> QED
  BY <1>1, <1>2, <1>4, <1>5, <1>6, <1>7, <1>8, <1>9, <1>10 DEF ScNext

LEMMA InitIInv == ASSUME ScInit PROVE IInv
<1>1. /\ ScTypeOK /\ R!IsSnapshot(Exported)
      /\ Base \in Values /\ Base[1] = "imageTrail" /\ Base[2] = 0
  BY InitTyped
<1>2. \A f \in Fields : Exported.value[f] = Base
  BY DEF Exported
<1>3. /\ \A q \in Products : library[q] = Exported /\ seen[q] = [f \in Fields |-> {Base}]
      /\ snapshots = {} /\ dropped = {}
  BY DEF ScInit
<1>4. "imageTrail" \in Products
  BY DEF Products, R!Products
<1>5. \A f \in Fields, q \in Products : FR(Exported, f)[q] \in Nat
  BY <1>1, RevisionTyped
<1> HIDE DEF Exported
<1>6. ASSUME NEW q \in Products PROVE Accounts(library[q], seen[q], library, seen)
  BY <1>1, <1>2, <1>3, <1>4, <1>5 DEF Accounts
<1> QED
  BY <1>1, <1>3, <1>6 DEF IInv, Accounted, NoSilentLoss

\* The steps that leave the copies and the histories as they are.
LEMMA QuietSteps ==
  ASSUME [ScNext]_scVars
  PROVE  \/ \E p \in Products, f \in Fields : Edit(p, f)
         \/ \E p \in Products : TakeSnapshot(p) \/ ApplyOutcome(p)
         \/ UNCHANGED <<library, seen, snapshots, decided, dropped>>
<1>1. ASSUME NEW p \in Products,
             \/ \E m \in snapshots, local \in LocalCopies(p) : ReceiveSnapshot(p, m, local)
             \/ DecideConflicts(p)
             \/ \E approve \in BOOLEAN : ReviewDeletion(p, approve)
      PROVE  UNCHANGED <<library, seen, snapshots, decided, dropped>>
  <2>1. \E i : Store(p, i)
    BY <1>1, Zenon DEF ReceiveSnapshot, DecideConflicts, ReviewDeletion
  <2> QED
    BY <2>1 DEF Store
<1>2. ASSUME NEW p \in Products, BeginApply(p) \/ RefuseOutcome(p) \/ MarkItem(p) \/ StopApply(p)
      PROVE  UNCHANGED <<library, seen, snapshots, decided, dropped>>
  BY <1>2 DEF BeginApply, RefuseOutcome, MarkItem, StopApply, InApply
<1>3. CASE UNCHANGED scVars
  BY <1>3 DEF scVars
<1> QED
  BY <1>1, <1>2, <1>3 DEF ScNext

LEMMA StepIInv == ASSUME ApplierChecks, IInv, [ScNext]_scVars PROVE IInv'
<1>1. ScTypeOK /\ ScTypeOK' /\ dropped = {}
  BY StepTyped DEF IInv, NoSilentLoss
<1>2. ASSUME NEW p \in Products, NEW f \in Fields, Edit(p, f) PROVE IInv'
  <2>1. dropped' = dropped
    BY <1>2 DEF Edit
  <2> QED
    BY <1>1, <1>2, <2>1, EditAccounts DEF IInv, NoSilentLoss
<1>3. ASSUME NEW p \in Products, TakeSnapshot(p) PROVE IInv'
  <2>1. /\ snapshots' = snapshots \cup {[from |-> p, record |-> library[p], seen |-> seen[p]]}
        /\ UNCHANGED <<library, seen, dropped>>
    BY <1>3 DEF TakeSnapshot
  <2>2. Accounted'
    BY <2>1 DEF IInv, Accounted
  <2> QED
    BY <1>1, <2>1, <2>2 DEF IInv, NoSilentLoss
<1>4. ASSUME NEW p \in Products, ApplyOutcome(p) PROVE IInv'
  <2> DEFINE i == applying[p]
             o == Outcome(p, i)
  <2>1. /\ i.remote \in snapshots /\ i.local = library[p]
        /\ R!IsSnapshot(i.local) /\ R!IsSnapshot(i.remote.record)
        /\ AnalysisOf(p, i).category # "duplicate"
        /\ Takes(p, i.remote, o)
        /\ dropped' = dropped \cup Lost(p, i)
    BY <1>1, <1>4, ItemInHand DEF Takes
  <2>2. Lost(p, i) = {}
    BY <1>4, NothingIsLost
  <2>3. MadeFrom(o, library[p], i.remote.record)
    BY <2>1, OutcomeBuildsOnBoth
  <2> HIDE DEF o, i
  <2>4. Accounted'
    BY <2>1, <2>3, AdoptAccounts
  <2> QED
    BY <1>1, <2>1, <2>2, <2>4 DEF IInv, NoSilentLoss
<1>5. CASE UNCHANGED <<library, seen, snapshots, decided, dropped>>
  BY <1>1, <1>5 DEF IInv, Accounted, NoSilentLoss, Accounts
<1> QED
  BY <1>2, <1>3, <1>4, <1>5, QuietSteps

-----------------------------------------------------------------------------
(* Theorems                                                                *)

\* The convergence state is well typed, whatever the applier does.
THEOREM ConvergenceTypeCorrect == ScSpec => []ScTypeOK
<1>1. ScInit => ScTypeOK
  BY InitTyped
<1>2. ScTypeOK /\ [ScNext]_scVars => ScTypeOK'
  BY StepTyped
<1> QED
  BY <1>1, <1>2, PTL DEF ScSpec

\* With an applier that checks, no apply drops an edit that the value it keeps was
\* made without and the reviewer has not seen, whatever is delayed, repeated or
\* reordered and however long an item waits while the library is edited.
THEOREM MergesLoseNothing == ASSUME ApplierChecks PROVE ScSpec => []NoSilentLoss
<1>1. ScInit => IInv
  BY InitIInv
<1>2. IInv /\ [ScNext]_scVars => IInv'
  BY StepIInv
<1>3. IInv => NoSilentLoss
  BY DEF IInv
<1> QED
  BY <1>1, <1>2, <1>3, PTL DEF ScSpec

\* With such an applier no step takes a field revision of a library back.
THEOREM FieldRevisionsAdvance == ASSUME ApplierChecks PROVE ScSpec => RevisionsAdvance
<1> DEFINE Advances ==
      \A p \in Products, f \in Fields :
        R!NoLater(R!FieldRevision(library[p], f), R!FieldRevision(library'[p], f))
<1>1. ASSUME ScTypeOK, [ScNext]_scVars PROVE Advances
  <2>1. CopiesTyped
    BY <1>1 DEF ScTypeOK
  <2>2. ASSUME NEW q \in Products, NEW f \in Fields
        PROVE  R!NoLater(R!FieldRevision(library[q], f), R!FieldRevision(library[q], f))
    <3>1. R!IsSnapshot(library[q])
      BY <2>1 DEF CopiesTyped
    <3> QED
      BY <3>1, RevisionTyped DEF R!NoLater, FR, Products
  <2>3. ASSUME NEW p \in Products, NEW record,
               \A f \in Fields, q \in Products : FR(library[p], f)[q] <= FR(record, f)[q],
               library' = [library EXCEPT ![p] = record]
        PROVE  Advances
    BY <2>1, <2>2, <2>3 DEF CopiesTyped, R!NoLater, FR, Products
  <2>4. ASSUME NEW p \in Products, NEW f \in Fields, Edit(p, f) PROVE Advances
    <3>1. \A g \in Fields, q \in Products : FR(library[p], g)[q] <= FR(Edited(p, f), g)[q]
      BY <2>1, EditedRevisions
    <3> QED
      BY <2>3, <2>4, <3>1 DEF Edit
  <2>5. ASSUME NEW p \in Products, ApplyOutcome(p) PROVE Advances
    <3> DEFINE i == applying[p]
               o == Outcome(p, i)
    <3>1. /\ i.local = library[p]
          /\ R!IsSnapshot(i.local) /\ R!IsSnapshot(i.remote.record)
          /\ AnalysisOf(p, i).category # "duplicate"
          /\ library' = [library EXCEPT ![p] = o]
      BY <1>1, <2>5, ItemInHand
    <3>2. MadeFrom(o, library[p], i.remote.record)
      BY <3>1, OutcomeBuildsOnBoth
    <3> HIDE DEF o, i
    <3>3. \A f \in Fields, q \in Products : FR(library[p], f)[q] <= FR(o, f)[q]
      BY <3>2 DEF MadeFrom
    <3> QED
      BY <2>3, <3>1, <3>3
  <2>6. ASSUME library' = library PROVE Advances
    BY <2>2, <2>6
  <2>7. \A p \in Products : TakeSnapshot(p) => library' = library
    BY DEF TakeSnapshot
  <2> QED
    BY <1>1, <2>4, <2>5, <2>6, <2>7, QuietSteps
<1>2. ScSpec => []ScTypeOK
  BY ConvergenceTypeCorrect
<1>3. ScTypeOK /\ [ScNext]_scVars => [Advances]_scVars
  BY <1>1
<1> QED
  BY <1>2, <1>3, PTL DEF ScSpec, RevisionsAdvance
-----------------------------------------------------------------------------
(***************************************************************************)
(* Why copies with the same field revision agree.  The argument is about   *)
(* one field at a time: a version is a copy's revision and value of it.    *)
(* Two revisions of a field that are concurrent may well carry the same    *)
(* value; what is merged of them is then nobody's decision, so the merge   *)
(* must not meet a copy that has the merged revision with another value.   *)
(* It does not, because versions of one edit are never concurrent: a value *)
(* that is back after its owner edited over it was brought back by a       *)
(* snapshot of the other product, which knew it later (CameBack).          *)
(***************************************************************************)
Version(record, f) == [rev |-> FR(record, f), val |-> record.value[f]]

VersionType == [rev : R!Vectors, val : Values]

UpTo(v, w) == R!NoLater(v.rev, w.rev)

\* The versions of one field: lib in the libraries, snap in the snapshots.
HeldBy(lib, snap, p) == {lib[p]} \cup snap[p]
Versions(lib, snap) == UNION {HeldBy(lib, snap, p) : p \in Products}

\* Only its owner's edits move a component, and a snapshot was the library.
Owned(lib, snap) ==
  /\ \A v \in Versions(lib, snap), p \in Products : v.rev[p] <= lib[p].rev[p]
  /\ \A p \in Products : \A v \in snap[p] : UpTo(v, lib[p])

Numbered(lib, snap) == \A v \in Versions(lib, snap) : v.val[2] <= v.rev[v.val[1]]

OneLine(lib, snap) ==
  \A v, w \in Versions(lib, snap) :
    v.val = w.val /\ v.val # Base => UpTo(v, w) \/ UpTo(w, v)

CameBack(lib, snap) ==
  \A q, o \in Products : q # o =>
    \A v, w \in HeldBy(lib, snap, q) :
      v.val = w.val /\ v.val # Base /\ v.rev[q] < w.rev[q] =>
        \E m \in snap[o] : m.val = v.val /\ UpTo(v, m)

\* An edit that nobody decided about is the first version of its number.
FirstOfItsNumber(lib, snap, dec) ==
  \A v \in Versions(lib, snap) : v.val # Base /\ v.rev \notin dec =>
    \A w \in Versions(lib, snap) : w.rev[v.val[1]] = v.rev[v.val[1]] => UpTo(v, w)

Agree(lib, snap, dec) ==
  \A v, w \in Versions(lib, snap) : v.rev = w.rev /\ v.rev \notin dec => v.val = w.val

FieldInv(lib, snap, dec) ==
  /\ lib \in [Products -> VersionType] /\ snap \in [Products -> SUBSET VersionType]
  /\ Owned(lib, snap) /\ Numbered(lib, snap)
  /\ OneLine(lib, snap) /\ CameBack(lib, snap)
  /\ FirstOfItsNumber(lib, snap, dec) /\ Agree(lib, snap, dec)

LEMMA VersionFacts ==
  ASSUME NEW v \in VersionType
  PROVE  /\ v.rev \in R!Vectors /\ v.val \in Values
         /\ \A p \in Products : v.rev[p] \in Nat
         /\ v.val[1] \in Products /\ v.val[2] \in Nat
BY DEF VersionType, R!Vectors, Values, Products, R!Products

LEMMA UpToFacts ==
  ASSUME NEW v \in VersionType, NEW w \in VersionType
  PROVE  /\ UpTo(v, w) <=> \A p \in Products : v.rev[p] <= w.rev[p]
         /\ UpTo(v, w) /\ UpTo(w, v) => v.rev = w.rev
         /\ UpTo(v, v)
<1>1. /\ \A p \in Products : v.rev[p] \in Nat /\ w.rev[p] \in Nat
      /\ v.rev \in [Products -> Nat] /\ w.rev \in [Products -> Nat]
  BY DEF VersionType, R!Vectors, Products
<1>2. /\ UpTo(v, w) <=> \A p \in Products : v.rev[p] <= w.rev[p]
      /\ UpTo(w, v) <=> \A p \in Products : w.rev[p] <= v.rev[p]
      /\ UpTo(v, v)
  BY <1>1 DEF UpTo, R!NoLater, Products
<1>3. ASSUME UpTo(v, w), UpTo(w, v)
      PROVE  v.rev = w.rev
  <2>1. \A p \in Products : v.rev[p] = w.rev[p]
    BY <1>1, <1>2, <1>3
  <2> QED BY <1>1, <2>1
<1> QED BY <1>2, <1>3

LEMMA TwoProducts ==
  ASSUME NEW p \in Products, NEW q \in Products, p # q
  PROVE  \A x \in Products : x = p \/ x = q
BY DEF Products, R!Products

\* What one library's new version n adds to the versions.
LEMMA NewVersion ==
  ASSUME NEW lib \in [Products -> VersionType], NEW snap \in [Products -> SUBSET VersionType],
         NEW p \in Products, NEW n \in VersionType
  PROVE  LET lib2 == [lib EXCEPT ![p] = n]
         IN  /\ lib2 \in [Products -> VersionType]
             /\ lib2[p] = n /\ \A x \in Products : x # p => lib2[x] = lib[x]
             /\ \A v \in Versions(lib2, snap) : v \in Versions(lib, snap) \/ v = n
             /\ \A v \in HeldBy(lib2, snap, p) : v \in HeldBy(lib, snap, p) \/ v = n
             /\ \A x \in Products : x # p => HeldBy(lib2, snap, x) = HeldBy(lib, snap, x)
             /\ \A v \in Versions(lib, snap) : v \in VersionType
             /\ \A x \in Products : \A v \in HeldBy(lib, snap, x) : v \in Versions(lib, snap)
BY DEF Versions, HeldBy

\* Product p, at version l, receives m of product q and adopts n.
Received(l, m, n, dec, dec2) ==
  /\ UpTo(l, n) /\ UpTo(m, n)
  /\ \A x \in Products : n.rev[x] \in {l.rev[x], m.rev[x]}
  /\ n.val \in {l.val, m.val}
  /\ UpTo(m, l) /\ ~UpTo(l, m) => n.val = l.val
  /\ dec \subseteq dec2
  /\ \/ n.rev \in dec2
     \/ l.val = m.val
     \/ UpTo(l, m) /\ n.val = m.val
     \/ UpTo(m, l) /\ n.val = l.val

Reception(lib, snap, dec, dec2, p, q, m, n) ==
  /\ FieldInv(lib, snap, dec)
  /\ p \in Products /\ q \in Products /\ p # q
  /\ m \in snap[q] /\ n \in VersionType
  /\ Received(lib[p], m, n, dec, dec2)

LEMMA ReceivedRevision ==
  ASSUME NEW lib, NEW snap, NEW dec, NEW dec2, NEW p, NEW q, NEW m, NEW n,
         Reception(lib, snap, dec, dec2, p, q, m, n)
  PROVE  /\ m \in VersionType /\ lib[p] \in VersionType
         /\ m \in Versions(lib, snap) /\ lib[p] \in Versions(lib, snap)
         /\ n.rev[p] = lib[p].rev[p]
         /\ UpTo(lib[p], m) => n.rev = m.rev
         /\ UpTo(m, lib[p]) => n.rev = lib[p].rev
<1>0. /\ FieldInv(lib, snap, dec)
      /\ p \in Products /\ q \in Products /\ p # q
      /\ m \in snap[q] /\ n \in VersionType
      /\ Received(lib[p], m, n, dec, dec2)
  BY DEF Reception
<1> USE <1>0
<1>1. m \in VersionType /\ lib[p] \in VersionType
  BY DEF FieldInv
<1>2. m \in Versions(lib, snap) /\ lib[p] \in Versions(lib, snap)
  BY DEF Versions, HeldBy
<1>3. m.rev[p] <= lib[p].rev[p]
  BY <1>2 DEF FieldInv, Owned
<1>4. \A x \in Products : /\ m.rev[x] \in Nat /\ lib[p].rev[x] \in Nat /\ n.rev[x] \in Nat
                          /\ m.rev[x] <= n.rev[x] /\ lib[p].rev[x] <= n.rev[x]
                          /\ n.rev[x] = lib[p].rev[x] \/ n.rev[x] = m.rev[x]
  BY <1>1, VersionFacts, UpToFacts DEF Received
<1>5. n.rev[p] = lib[p].rev[p]
  BY <1>3, <1>4
<1>6. ASSUME UpTo(lib[p], m)
      PROVE  n.rev = m.rev
  <2>1. \A x \in Products : n.rev[x] <= m.rev[x]
    BY <1>1, <1>4, <1>6, UpToFacts
  <2> QED BY <1>1, <2>1, UpToFacts DEF Received
<1>7. ASSUME UpTo(m, lib[p])
      PROVE  n.rev = lib[p].rev
  <2>1. \A x \in Products : n.rev[x] <= lib[p].rev[x]
    BY <1>1, <1>4, <1>7, UpToFacts
  <2> QED BY <1>1, <2>1, UpToFacts DEF Received
<1> QED BY <1>1, <1>2, <1>5, <1>6, <1>7

LEMMA UpToTransitive ==
  ASSUME NEW u \in VersionType, NEW v \in VersionType, NEW w \in VersionType,
         UpTo(u, v), UpTo(v, w)
  PROVE  UpTo(u, w)
<1>1. \A x \in Products : u.rev[x] \in Nat /\ v.rev[x] \in Nat /\ w.rev[x] \in Nat
  BY VersionFacts
<1> QED BY <1>1, UpToFacts

\* One edit's versions stay on one line: a version that the received one is
\* behind and the library's is not would be the sender's, after an edit of its
\* own, and so have come back from here.
LEMMA ReceivedOneLine ==
  ASSUME NEW lib, NEW snap, NEW dec, NEW dec2, NEW p, NEW q, NEW m, NEW n,
         Reception(lib, snap, dec, dec2, p, q, m, n),
         NEW b \in Versions(lib, snap), b.val = n.val, b.val # Base
  PROVE  UpTo(n, b) \/ UpTo(b, n)
<1> DEFINE l == lib[p]
<1>0. /\ FieldInv(lib, snap, dec)
      /\ p \in Products /\ q \in Products /\ p # q
      /\ m \in snap[q] /\ n \in VersionType
      /\ Received(lib[p], m, n, dec, dec2)
  BY DEF Reception
<1> USE <1>0
<1>1. /\ m \in VersionType /\ l \in VersionType
      /\ m \in Versions(lib, snap) /\ l \in Versions(lib, snap)
      /\ n.rev[p] = l.rev[p]
  BY ReceivedRevision
<1>2. b \in VersionType
  BY DEF FieldInv, Versions, HeldBy
<1>3. UpTo(l, n) /\ UpTo(m, n) /\ n.val \in {l.val, m.val}
  BY DEF Received
<1>4. \A x \in Products : /\ l.rev[x] \in Nat /\ m.rev[x] \in Nat /\ n.rev[x] \in Nat
                          /\ b.rev[x] \in Nat /\ b.rev[x] <= lib[x].rev[x]
  BY <1>1, <1>2, VersionFacts DEF FieldInv, Owned
<1> HIDE DEF l
<1>5. b.rev[p] <= l.rev[p]
  BY <1>4 DEF l
<1>6. l.rev[p] <= b.rev[p] => UpTo(n, b) \/ UpTo(b, n)
  <2>1. ASSUME l.rev[p] <= b.rev[p], n.rev[q] <= b.rev[q]
        PROVE  UpTo(n, b)
    BY <1>1, <1>2, <1>4, <2>1, UpToFacts, TwoProducts
  <2>2. ASSUME ~(n.rev[q] <= b.rev[q])
        PROVE  UpTo(b, n)
    <3>1. b.rev[q] <= n.rev[q] /\ b.rev[p] <= n.rev[p]
      BY <1>1, <1>4, <1>5, <2>2
    <3> QED BY <1>2, <3>1, UpToFacts, TwoProducts
  <2> QED BY <2>1, <2>2
<1>7. CASE n.val = l.val
  <2>1. UpTo(b, l) \/ UpTo(l, b)
    BY <1>1, <1>7 DEF FieldInv, OneLine
  <2>2. CASE UpTo(b, l)
    BY <1>1, <1>2, <1>3, <2>2, UpToTransitive
  <2>3. CASE UpTo(l, b)
    BY <1>1, <1>2, <1>6, <2>3, UpToFacts
  <2> QED BY <2>1, <2>2, <2>3
<1>8. CASE n.val # l.val
  <2>1. n.val = m.val
    BY <1>3, <1>8
  <2>2. UpTo(b, m) \/ UpTo(m, b)
    BY <1>1, <2>1 DEF FieldInv, OneLine
  <2>3. CASE UpTo(b, m)
    BY <1>1, <1>2, <1>3, <2>3, UpToTransitive
  <2>4. CASE UpTo(m, b) /\ ~UpTo(b, m) /\ ~UpTo(b, n)
    <3>1. ~UpTo(b, l)
      BY <1>1, <1>2, <1>3, <2>4, UpToTransitive
    <3>2. b \notin HeldBy(lib, snap, p)
      <4>1. ASSUME b \in snap[p]
            PROVE  UpTo(b, l)
        BY <4>1 DEF FieldInv, Owned, l
      <4>2. ASSUME b = lib[p]
            PROVE  UpTo(b, l)
        BY <1>1, <4>2, UpToFacts DEF l
      <4> QED BY <3>1, <4>1, <4>2 DEF HeldBy
    <3>3. b \in HeldBy(lib, snap, q) /\ m \in HeldBy(lib, snap, q)
      BY <3>2, TwoProducts DEF Versions, HeldBy
    <3>4. m.rev[p] <= b.rev[p] /\ m.rev[q] <= b.rev[q]
      BY <1>1, <1>2, <2>4, UpToFacts
    <3>5. CASE l.rev[p] <= b.rev[p]
      BY <1>6, <3>5
    <3>6. CASE ~(l.rev[p] <= b.rev[p])
      <4>1. b.rev[p] <= n.rev[p]
        BY <1>1, <1>4, <1>5
      <4>2. ~(b.rev[q] <= n.rev[q])
        BY <1>2, <2>4, <4>1, UpToFacts, TwoProducts
      <4>3. m.rev[q] <= n.rev[q]
        BY <1>1, <1>3, UpToFacts
      <4>4. m.rev[q] < b.rev[q]
        BY <1>4, <4>2, <4>3
      <4>5. PICK h \in snap[p] : h.val = m.val /\ UpTo(m, h)
        BY <2>1, <3>3, <4>4 DEF FieldInv, CameBack
      <4>6. h \in VersionType /\ UpTo(h, l)
        BY DEF FieldInv, Owned, l
      <4>7. UpTo(m, l)
        BY <1>1, <4>5, <4>6, UpToTransitive
      <4>8. UpTo(l, m)
        BY <1>8, <4>7 DEF Received, l
      <4>9. l.rev[p] <= m.rev[p]
        BY <1>1, <4>8, UpToFacts
      <4> QED BY <1>4, <3>4, <3>6, <4>9
    <3> QED BY <3>5, <3>6
  <2> QED BY <2>2, <2>3, <2>4
<1> QED BY <1>7, <1>8

\* A value that is back here after an edit was brought back by m.
LEMMA ReceivedCameBack ==
  ASSUME NEW lib, NEW snap, NEW dec, NEW dec2, NEW p, NEW q, NEW m, NEW n,
         Reception(lib, snap, dec, dec2, p, q, m, n),
         NEW v \in HeldBy(lib, snap, p), v.val = n.val, v.val # Base, v.rev[p] < n.rev[p]
  PROVE  \E h \in snap[q] : h.val = v.val /\ UpTo(v, h)
<1> DEFINE l == lib[p]
<1>0. /\ FieldInv(lib, snap, dec)
      /\ p \in Products /\ q \in Products /\ p # q
      /\ m \in snap[q] /\ n \in VersionType
      /\ Received(lib[p], m, n, dec, dec2)
  BY DEF Reception
<1> USE <1>0
<1>1. /\ m \in VersionType /\ l \in VersionType
      /\ m \in Versions(lib, snap)
      /\ n.rev[p] = l.rev[p]
  BY ReceivedRevision
<1>2. v \in Versions(lib, snap) /\ v \in VersionType /\ l \in HeldBy(lib, snap, p)
  BY DEF FieldInv, Versions, HeldBy
<1>3. UpTo(v, l)
  <2>1. ASSUME v \in snap[p]
        PROVE  UpTo(v, l)
    BY <2>1 DEF FieldInv, Owned
  <2> QED BY <1>1, <2>1, UpToFacts DEF HeldBy
<1>4. CASE n.val = l.val
  <2>1. v.rev[p] < l.rev[p]
    BY <1>1
  <2> HIDE DEF l
  <2> QED BY <1>2, <1>4, <2>1 DEF FieldInv, CameBack
<1>5. CASE n.val # l.val
  <2>1. n.val = m.val
    BY <1>5 DEF Received
  <2>2. UpTo(v, m) \/ UpTo(m, v)
    BY <1>1, <1>2, <2>1 DEF FieldInv, OneLine
  <2>3. CASE UpTo(m, v)
    <3>1. UpTo(m, l)
      BY <1>1, <1>2, <1>3, <2>3, UpToTransitive
    <3>2. UpTo(l, m)
      BY <1>5, <3>1 DEF Received
    <3> QED BY <1>1, <1>2, <1>3, <2>1, <3>2, UpToTransitive
  <2> QED BY <2>1, <2>2, <2>3
<1> QED BY <1>4, <1>5

LEMMA FieldReceives ==
  ASSUME NEW lib, NEW snap, NEW dec, NEW dec2, NEW p, NEW q, NEW m, NEW n,
         Reception(lib, snap, dec, dec2, p, q, m, n)
  PROVE  FieldInv([lib EXCEPT ![p] = n], snap, dec2)
<1> DEFINE lib2 == [lib EXCEPT ![p] = n]
           l == lib[p]
           S == Versions(lib, snap)
           S2 == Versions(lib2, snap)
<1>0. /\ FieldInv(lib, snap, dec)
      /\ p \in Products /\ q \in Products /\ p # q
      /\ m \in snap[q] /\ n \in VersionType
      /\ Received(lib[p], m, n, dec, dec2)
  BY DEF Reception
<1> USE <1>0
<1>1. /\ m \in VersionType /\ l \in VersionType
      /\ m \in S /\ l \in S
      /\ n.rev[p] = l.rev[p]
      /\ UpTo(l, m) => n.rev = m.rev
      /\ UpTo(m, l) => n.rev = l.rev
  BY ReceivedRevision
<1>2. lib \in [Products -> VersionType] /\ snap \in [Products -> SUBSET VersionType]
  BY DEF FieldInv
<1>3. /\ lib2 \in [Products -> VersionType]
      /\ lib2[p] = n /\ \A x \in Products : x # p => lib2[x] = lib[x]
      /\ \A v \in S2 : v \in S \/ v = n
      /\ \A v \in HeldBy(lib2, snap, p) : v \in HeldBy(lib, snap, p) \/ v = n
      /\ \A x \in Products : x # p => HeldBy(lib2, snap, x) = HeldBy(lib, snap, x)
      /\ \A v \in S : v \in VersionType
      /\ \A x \in Products : \A v \in HeldBy(lib, snap, x) : v \in S
  BY <1>2, NewVersion
<1>4. UpTo(l, n) /\ UpTo(m, n) /\ n.val \in {l.val, m.val}
  BY DEF Received
<1>5. \A x \in Products : /\ l.rev[x] \in Nat /\ m.rev[x] \in Nat /\ n.rev[x] \in Nat
                          /\ l.rev[x] <= n.rev[x] /\ m.rev[x] <= n.rev[x]
                          /\ n.rev[x] = l.rev[x] \/ n.rev[x] = m.rev[x]
  BY <1>1, <1>4, VersionFacts, UpToFacts DEF Received
<1>6. \A v \in S, x \in Products : v.rev[x] \in Nat /\ v.rev[x] <= lib[x].rev[x]
  BY <1>3, VersionFacts DEF FieldInv, Owned
<1>7. \A x \in Products : \A v \in snap[x] : v \in VersionType /\ UpTo(v, lib[x])
  BY <1>2 DEF FieldInv, Owned
<1>8. \A v, w \in S : v.val = w.val /\ v.val # Base => UpTo(v, w) \/ UpTo(w, v)
  BY DEF FieldInv, OneLine
<1>9. \A v \in S : v.val # Base /\ v.rev \notin dec =>
        \A w \in S : w.rev[v.val[1]] = v.rev[v.val[1]] => UpTo(v, w)
  BY DEF FieldInv, FirstOfItsNumber
<1>10. \A v, w \in S : v.rev = w.rev /\ v.rev \notin dec => v.val = w.val
  BY DEF FieldInv, Agree
<1>11. dec \subseteq dec2
  BY DEF Received
<1>12. \A b \in S : b.val = n.val /\ b.val # Base => UpTo(n, b) \/ UpTo(b, n)
  BY ReceivedOneLine
<1>13. \A v \in HeldBy(lib, snap, p) : v.val = n.val /\ v.val # Base /\ v.rev[p] < n.rev[p] =>
         \E h \in snap[q] : h.val = v.val /\ UpTo(v, h)
  BY ReceivedCameBack
\* Undecided, n is a version that was there, or is merged of two with the base value.
<1>14. ASSUME n.rev \notin dec2
       PROVE  \/ \E v \in {l, m} : v.rev = n.rev /\ v.val = n.val
              \/ n.val = Base /\ l.val = Base /\ m.val = Base
  <2>1. CASE l.val = m.val /\ l.val # Base
    <3>1. UpTo(l, m) \/ UpTo(m, l)
      BY <1>1, <1>8, <2>1
    <3>2. n.val = l.val /\ n.val = m.val
      BY <1>4, <2>1
    <3> QED BY <1>1, <3>1, <3>2
  <2>2. CASE l.val = m.val /\ l.val = Base
    BY <1>4, <2>2
  <2>3. CASE UpTo(l, m) /\ n.val = m.val
    BY <1>1, <2>3
  <2>4. CASE UpTo(m, l) /\ n.val = l.val
    BY <1>1, <2>4
  <2> QED BY <1>14, <2>1, <2>2, <2>3, <2>4 DEF Received
<1>15. \A o \in Products : o # p => o = q
  BY TwoProducts
<1>16. \A v \in S, w \in S, o \in Products : \A x \in Products : x # o =>
         (v \in HeldBy(lib, snap, x) /\ w \in HeldBy(lib, snap, x)
            /\ v.val = w.val /\ v.val # Base /\ v.rev[x] < w.rev[x] =>
              \E h \in snap[o] : h.val = v.val /\ UpTo(v, h))
  BY DEF FieldInv, CameBack
<1> HIDE DEF lib2, S, S2, l
<1>17. l = lib[p] /\ S2 = Versions(lib2, snap)
  BY DEF l, S2
<1>18. Owned(lib2, snap)
  <2>1. ASSUME NEW v \in S2, NEW x \in Products
        PROVE  v.rev[x] <= lib2[x].rev[x]
    <3>1. CASE v \in S
      BY <1>3, <1>5, <1>6, <1>17, <3>1
    <3>2. CASE v = n /\ x = p
      BY <1>3, <1>5, <3>2
    <3>3. CASE v = n /\ x # p
      <4>1. n.rev[x] = l.rev[x] \/ n.rev[x] = m.rev[x]
        BY <1>5
      <4> QED BY <1>1, <1>3, <1>6, <3>3, <4>1
    <3> QED BY <1>3, <3>1, <3>2, <3>3
  <2>2. ASSUME NEW x \in Products, NEW v \in snap[x]
        PROVE  UpTo(v, lib2[x])
    <3>1. CASE x = p
      BY <1>1, <1>3, <1>4, <1>7, <1>17, <3>1, UpToTransitive
    <3>2. CASE x # p
      BY <1>3, <1>7, <3>2
    <3> QED BY <3>1, <3>2
  <2> QED BY <1>17, <2>1, <2>2 DEF Owned
<1>19. Numbered(lib2, snap)
  <2>1. ASSUME NEW v \in S
        PROVE  v.val[2] <= v.rev[v.val[1]]
    BY <2>1 DEF FieldInv, Numbered, S
  <2>2. n.val[2] <= n.rev[n.val[1]]
    <3>1. PICK v \in {l, m} : n.val = v.val /\ v \in S /\ v \in VersionType
      BY <1>1, <1>4
    <3>2. n.val[1] \in Products /\ n.val[2] \in Nat
      BY <3>1, VersionFacts
    <3>3. n.val[2] <= v.rev[n.val[1]]
      BY <2>1, <3>1
    <3>4. /\ v.rev[n.val[1]] \in Nat /\ n.rev[n.val[1]] \in Nat
          /\ v.rev[n.val[1]] <= n.rev[n.val[1]]
      BY <1>5, <3>1, <3>2
    <3> QED BY <3>2, <3>3, <3>4
  <2> QED BY <1>3, <1>17, <2>1, <2>2 DEF Numbered
<1>20. OneLine(lib2, snap)
  <2>1. UpTo(n, n)
    BY UpToFacts
  <2> QED BY <1>3, <1>8, <1>12, <1>17, <2>1 DEF OneLine
<1>21. CameBack(lib2, snap)
  <2> SUFFICES ASSUME NEW x \in Products, NEW o \in Products, x # o,
                      NEW v \in HeldBy(lib2, snap, x), NEW w \in HeldBy(lib2, snap, x),
                      v.val = w.val, v.val # Base, v.rev[x] < w.rev[x]
               PROVE  \E h \in snap[o] : h.val = v.val /\ UpTo(v, h)
    BY DEF CameBack
  <2>1. CASE v \in HeldBy(lib, snap, x) /\ w \in HeldBy(lib, snap, x)
    BY <1>3, <1>16, <2>1
  <2>2. CASE x = p /\ w = n /\ v \in HeldBy(lib, snap, p)
    BY <1>13, <1>15, <2>2
  <2>3. CASE x = p /\ v = n /\ (w = n \/ w \in HeldBy(lib, snap, p))
    <3>1. w.rev[p] <= n.rev[p] /\ w.rev[p] \in Nat /\ n.rev[p] \in Nat
      BY <1>1, <1>3, <1>5, <1>6, <1>17, <2>3
    <3> QED BY <2>3, <3>1
  <2> QED BY <1>3, <2>1, <2>2, <2>3
<1>22. FirstOfItsNumber(lib2, snap, dec2)
  <2>1. ASSUME NEW v \in S, v.val # Base, v.rev \notin dec2, NEW w \in S2,
               w.rev[v.val[1]] = v.rev[v.val[1]]
        PROVE  UpTo(v, w)
    <3>1. v.rev \notin dec
      BY <1>11, <2>1
    <3>2. CASE w \in S
      BY <1>9, <2>1, <3>1, <3>2
    <3>3. CASE w = n
      <4>1. v.val[1] \in Products /\ v \in VersionType
        BY <1>3, VersionFacts
      <4>2. PICK u \in {l, m} : u.rev[v.val[1]] = n.rev[v.val[1]]
        BY <1>5, <4>1
      <4>3. UpTo(v, u)
        BY <1>1, <1>9, <2>1, <3>1, <3>3, <4>2
      <4> QED BY <1>1, <1>4, <3>3, <4>1, <4>2, <4>3, UpToTransitive
    <3> QED BY <1>3, <3>2, <3>3
  <2>2. ASSUME n.val # Base, n.rev \notin dec2, NEW w \in S2,
               w.rev[n.val[1]] = n.rev[n.val[1]]
        PROVE  UpTo(n, w)
    <3>1. PICK v \in {l, m} : v.rev = n.rev /\ v.val = n.val
      BY <1>14, <2>2
    <3>2. v \in S
      BY <1>1, <3>1
    <3>3. UpTo(v, w)
      BY <2>1, <2>2, <3>1, <3>2
    <3> QED BY <3>1, <3>3 DEF UpTo
  <2> QED BY <1>3, <1>17, <2>1, <2>2 DEF FirstOfItsNumber
<1>23. Agree(lib2, snap, dec2)
  <2>1. ASSUME NEW b \in S, b.rev = n.rev, n.rev \notin dec2
        PROVE  b.val = n.val
    <3>1. n.rev \notin dec
      BY <1>11, <2>1
    <3>2. CASE \E v \in {l, m} : v.rev = n.rev /\ v.val = n.val
      BY <1>1, <1>10, <2>1, <3>1, <3>2
    <3>3. CASE n.val = Base /\ l.val = Base /\ m.val = Base /\ b.val # Base
      <4>1. b \in VersionType /\ b.val[1] \in Products
        BY <1>3, VersionFacts
      <4>2. PICK u \in {l, m} : u.rev[b.val[1]] = n.rev[b.val[1]]
        BY <1>5, <4>1
      <4>3. UpTo(b, u)
        BY <1>1, <1>9, <2>1, <3>1, <3>3, <4>2
      <4>4. UpTo(n, u)
        BY <2>1, <4>3 DEF UpTo
      <4>5. u.rev = n.rev
        BY <1>1, <1>4, <4>2, <4>4, UpToFacts
      <4>6. u \in S /\ u.rev = b.rev /\ u.val = Base
        BY <1>1, <2>1, <3>3, <4>2, <4>5
      <4> QED BY <1>10, <2>1, <3>1, <3>3, <4>6
    <3> QED BY <1>14, <2>1, <3>2, <3>3
  <2>2. ASSUME NEW v \in S, NEW w \in S, v.rev = w.rev, v.rev \notin dec2
        PROVE  v.val = w.val
    BY <1>10, <1>11, <2>2
  <2> QED BY <1>3, <1>17, <2>1, <2>2 DEF Agree
<1> QED BY <1>2, <1>3, <1>18, <1>19, <1>20, <1>21, <1>22, <1>23 DEF FieldInv, lib2

\* An edit's number is above every revision there is.  So is the revision a field
\* that carries none takes when another field is edited; its value is the base.
LEMMA FieldAdvances ==
  ASSUME NEW lib, NEW snap, NEW dec, FieldInv(lib, snap, dec),
         NEW p \in Products, NEW n \in VersionType,
         n.rev[p] = lib[p].rev[p] + 1,
         \A x \in Products : x # p => n.rev[x] = lib[p].rev[x],
         n.val = <<p, n.rev[p]>> \/ (n.val = Base /\ lib[p].val = Base)
  PROVE  FieldInv([lib EXCEPT ![p] = n], snap, dec)
<1> DEFINE lib2 == [lib EXCEPT ![p] = n]
           l == lib[p]
           S == Versions(lib, snap)
           S2 == Versions(lib2, snap)
<1>1. lib \in [Products -> VersionType] /\ snap \in [Products -> SUBSET VersionType]
  BY DEF FieldInv
<1>2. /\ lib2 \in [Products -> VersionType]
      /\ lib2[p] = n /\ \A x \in Products : x # p => lib2[x] = lib[x]
      /\ \A v \in S2 : v \in S \/ v = n
      /\ \A v \in HeldBy(lib2, snap, p) : v \in HeldBy(lib, snap, p) \/ v = n
      /\ \A x \in Products : x # p => HeldBy(lib2, snap, x) = HeldBy(lib, snap, x)
      /\ \A v \in S : v \in VersionType
      /\ \A x \in Products : \A v \in HeldBy(lib, snap, x) : v \in S
  BY <1>1, NewVersion
<1>3. l \in S /\ l \in VersionType
  BY <1>1 DEF Versions, HeldBy
<1>4. \A v \in S, x \in Products : v.rev[x] \in Nat /\ v.rev[x] <= lib[x].rev[x]
  BY <1>2, VersionFacts DEF FieldInv, Owned
<1>5. \A v \in S : v.val[2] <= v.rev[v.val[1]] /\ v.val[1] \in Products /\ v.val[2] \in Nat
  BY <1>2, VersionFacts DEF FieldInv, Numbered
<1>6. \A x \in Products : n.rev[x] \in Nat /\ l.rev[x] \in Nat /\ l.rev[x] <= n.rev[x]
  BY <1>3, VersionFacts
<1>7. UpTo(l, n) /\ UpTo(n, n)
  BY <1>3, <1>6, UpToFacts
<1>8. ASSUME NEW v \in S
      PROVE  v.rev[p] < n.rev[p] /\ v.rev # n.rev
  <2>1. v.rev[p] \in Nat /\ v.rev[p] <= l.rev[p]
    BY <1>4
  <2> QED BY <1>6, <2>1
<1>9. ASSUME NEW v \in S, v.val = n.val, n.val # Base
      PROVE  FALSE
  <2>1. n.val = <<p, n.rev[p]>>
    BY <1>9
  <2>2. v.val[1] = p /\ v.val[2] = n.rev[p]
    BY <1>9, <2>1
  <2> QED BY <1>4, <1>5, <1>6, <1>8, <2>2
<1>10. \A v \in S : v.val # Base /\ v.rev \notin dec =>
         \A w \in S : w.rev[v.val[1]] = v.rev[v.val[1]] => UpTo(v, w)
  BY DEF FieldInv, FirstOfItsNumber
<1> HIDE DEF lib2, S, S2, l
<1>11. l = lib[p] /\ S2 = Versions(lib2, snap)
  BY DEF l, S2
<1>12. Owned(lib2, snap)
  <2>1. ASSUME NEW v \in S2, NEW x \in Products
        PROVE  v.rev[x] <= lib2[x].rev[x]
    <3>1. CASE v \in S
      BY <1>2, <1>4, <1>6, <1>11, <3>1
    <3>2. CASE v = n /\ x = p
      BY <1>2, <1>6, <3>2
    <3>3. CASE v = n /\ x # p
      BY <1>2, <1>3, <1>4, <1>11, <3>3
    <3> QED BY <1>2, <3>1, <3>2, <3>3
  <2>2. ASSUME NEW x \in Products, NEW v \in snap[x]
        PROVE  UpTo(v, lib2[x])
    <3>1. v \in VersionType /\ UpTo(v, lib[x])
      BY <1>1 DEF FieldInv, Owned
    <3>2. CASE x = p
      BY <1>2, <1>3, <1>7, <1>11, <3>1, <3>2, UpToTransitive
    <3>3. CASE x # p
      BY <1>2, <3>1, <3>3
    <3> QED BY <3>2, <3>3
  <2> QED BY <1>11, <2>1, <2>2 DEF Owned
<1>13. Numbered(lib2, snap)
  <2>1. n.val[2] <= n.rev[n.val[1]]
    <3>1. CASE n.val = <<p, n.rev[p]>>
      BY <1>6, <3>1
    <3>2. CASE n.val = Base /\ l.val = Base
      <4>1. n.val[1] \in Products /\ n.val[2] <= l.rev[n.val[1]] /\ n.val[2] \in Nat
        BY <1>3, <1>5, <3>2
      <4> QED BY <1>6, <4>1
    <3> QED BY <1>11, <3>1, <3>2
  <2> QED BY <1>2, <1>5, <1>11, <2>1 DEF Numbered
<1>14. OneLine(lib2, snap)
  <2>1. \A v, w \in S : v.val = w.val /\ v.val # Base => UpTo(v, w) \/ UpTo(w, v)
    BY DEF FieldInv, OneLine, S
  <2> QED BY <1>2, <1>7, <1>9, <1>11, <2>1 DEF OneLine
<1>15. CameBack(lib2, snap)
  <2> SUFFICES ASSUME NEW x \in Products, NEW o \in Products, x # o,
                      NEW v \in HeldBy(lib2, snap, x), NEW w \in HeldBy(lib2, snap, x),
                      v.val = w.val, v.val # Base, v.rev[x] < w.rev[x]
               PROVE  \E h \in snap[o] : h.val = v.val /\ UpTo(v, h)
    BY DEF CameBack
  <2>1. CASE v \in HeldBy(lib, snap, x) /\ w \in HeldBy(lib, snap, x)
    BY <2>1 DEF FieldInv, CameBack
  <2>2. CASE x = p /\ v = n /\ w = n
    BY <1>6, <2>2
  <2>3. v \in HeldBy(lib, snap, x) \/ (x = p /\ v = n)
    BY <1>2
  <2>4. w \in HeldBy(lib, snap, x) \/ (x = p /\ w = n)
    BY <1>2
  <2> QED BY <1>2, <1>9, <2>1, <2>2, <2>3, <2>4
<1>16. FirstOfItsNumber(lib2, snap, dec)
  <2>1. ASSUME NEW v \in S, v.val # Base, v.rev \notin dec,
               n.rev[v.val[1]] = v.rev[v.val[1]]
        PROVE  UpTo(v, n)
    <3>1. v.val[1] # p
      BY <1>8, <1>6, <1>4, <2>1
    <3>2. l.rev[v.val[1]] = v.rev[v.val[1]]
      BY <1>5, <1>11, <2>1, <3>1
    <3>3. UpTo(v, l)
      BY <1>3, <1>10, <2>1, <3>2
    <3> QED BY <1>2, <1>3, <1>7, <3>3, UpToTransitive
  <2>2. ASSUME n.val # Base, NEW w \in S2, w.rev[n.val[1]] = n.rev[n.val[1]]
        PROVE  UpTo(n, w)
    <3>1. n.val[1] = p
      BY <2>2
    <3>2. w \notin S
      BY <1>4, <1>6, <1>8, <2>2, <3>1
    <3> QED BY <1>2, <1>7, <3>2
  <2> QED BY <1>2, <1>10, <1>11, <2>1, <2>2 DEF FirstOfItsNumber
<1>17. Agree(lib2, snap, dec)
  <2>1. \A v, w \in S : v.rev = w.rev /\ v.rev \notin dec => v.val = w.val
    BY DEF FieldInv, Agree, S
  <2> QED BY <1>2, <1>8, <1>11, <2>1 DEF Agree
<1> QED BY <1>1, <1>2, <1>12, <1>13, <1>14, <1>15, <1>16, <1>17 DEF FieldInv, lib2

LEMMA FieldIsCopied ==
  ASSUME NEW lib, NEW snap, NEW dec, FieldInv(lib, snap, dec), NEW p \in Products
  PROVE  FieldInv(lib, [snap EXCEPT ![p] = @ \cup {lib[p]}], dec)
<1> DEFINE snap2 == [snap EXCEPT ![p] = @ \cup {lib[p]}]
<1>1. lib \in [Products -> VersionType] /\ snap \in [Products -> SUBSET VersionType]
  BY DEF FieldInv
<1>2. /\ snap2 \in [Products -> SUBSET VersionType]
      /\ snap2[p] = snap[p] \cup {lib[p]}
      /\ \A x \in Products : x # p => snap2[x] = snap[x]
  BY <1>1
<1> HIDE DEF snap2
<1>3. \A x \in Products : HeldBy(lib, snap2, x) = HeldBy(lib, snap, x) /\ snap[x] \subseteq snap2[x]
  BY <1>2 DEF HeldBy
<1>4. Versions(lib, snap2) = Versions(lib, snap)
  BY <1>3 DEF Versions
<1>5. Owned(lib, snap2)
  <2>1. UpTo(lib[p], lib[p])
    BY <1>1, UpToFacts
  <2>2. \A v \in Versions(lib, snap), x \in Products : v.rev[x] <= lib[x].rev[x]
    BY DEF FieldInv, Owned
  <2>3. \A x \in Products : \A v \in snap[x] : UpTo(v, lib[x])
    BY DEF FieldInv, Owned
  <2>4. \A x \in Products : \A v \in snap2[x] : UpTo(v, lib[x])
    BY <1>2, <2>1, <2>3
  <2> QED BY <1>4, <2>2, <2>4 DEF Owned
<1>6. CameBack(lib, snap2)
  <2>1. CameBack(lib, snap)
    BY DEF FieldInv
  <2> QED BY <1>3, <2>1 DEF CameBack
<1>7. Numbered(lib, snap2) /\ OneLine(lib, snap2) /\ FirstOfItsNumber(lib, snap2, dec) /\ Agree(lib, snap2, dec)
  BY <1>4 DEF FieldInv, Numbered, OneLine, FirstOfItsNumber, Agree
<1> QED BY <1>1, <1>2, <1>5, <1>6, <1>7 DEF FieldInv, snap2

-----------------------------------------------------------------------------
(* What is adopted, field by field                                         *)

LibraryOf(libraries, f) == [p \in Products |-> Version(libraries[p], f)]
SnapshotsOf(snaps, f) ==
  [p \in Products |-> {Version(m.record, f) : m \in {s \in snaps : s.from = p}}]
DecidedAt(decisions, f) == {r \in R!Vectors : <<f, r>> \in decisions}

\* A field that carries no revision has not been edited.
UncarriedIsBase ==
  \A p \in Products, f \in Fields :
    f \notin DOMAIN library[p].fieldRevisions => library[p].value[f] = Base

CInv ==
  /\ \A f \in Fields :
       FieldInv(LibraryOf(library, f), SnapshotsOf(snapshots, f), DecidedAt(decided, f))
  /\ UncarriedIsBase

LEMMA Receives ==
  ASSUME ApplierChecks, ScTypeOK, NEW p \in Products, ApplyOutcome(p)
  PROVE  LET m == applying[p].remote
             record == Outcome(p, applying[p])
         IN  /\ library' = [library EXCEPT ![p] = record]
             /\ R!IsSnapshot(record) /\ DOMAIN record.fieldRevisions = Fields
             /\ \A f \in Fields :
                  Received(Version(library[p], f), Version(m.record, f), Version(record, f),
                           DecidedAt(decided, f), DecidedAt(decided', f))
<1> DEFINE i == applying[p]
           m == i.remote
           record == Outcome(p, i)
           a == AnalysisOf(p, i)
<1>1. /\ i.local = library[p]
      /\ R!IsSnapshot(i.local) /\ R!IsSnapshot(m.record)
      /\ a.category # "duplicate"
      /\ library' = [library EXCEPT ![p] = record]
      /\ decided' = decided \cup {<<f, a.merged.fieldRevisions[f]>> : f \in a.conflicts}
  BY ItemInHand
<1>2. /\ MadeFrom(record, i.local, m.record)
      /\ DOMAIN record.fieldRevisions = Fields
      /\ a.conflicts \subseteq Fields
      /\ \A f \in Fields : FR(record, f) = a.merged.fieldRevisions[f]
      /\ \A f \in Fields \ a.conflicts :
           /\ record.value[f] # i.local.value[f] => FieldCovers(m.record, i.local, f)
           /\ record.value[f] # m.record.value[f] => FieldCovers(i.local, m.record, f)
      /\ \A f \in a.conflicts :
           R!NoLater(FR(i.local, f), FR(m.record, f)) <=> R!NoLater(FR(m.record, f), FR(i.local, f))
  BY <1>1, OutcomeBuildsOnBoth
<1> HIDE DEF a, record, i
<1>7. \A f \in a.conflicts :
        R!NoLater(FR(library[p], f), FR(m.record, f)) <=> R!NoLater(FR(m.record, f), FR(library[p], f))
  BY <1>1, <1>2
<1>8. \A f \in Fields \ a.conflicts :
        /\ record.value[f] # library[p].value[f] => FieldCovers(m.record, library[p], f)
        /\ record.value[f] # m.record.value[f] => FieldCovers(library[p], m.record, f)
  BY <1>1, <1>2
<1>9. /\ MadeFrom(record, library[p], m.record)
      /\ \A f \in a.conflicts : <<f, FR(record, f)>> \in decided'
      /\ decided \subseteq decided'
  BY <1>1, <1>2
<1> HIDE DEF m
<1>10. R!IsSnapshot(record)
  BY <1>9 DEF MadeFrom
<1>11. ASSUME NEW f \in Fields
       PROVE  Received(Version(library[p], f), Version(m.record, f), Version(record, f),
                       DecidedAt(decided, f), DecidedAt(decided', f))
  <2> DEFINE l == Version(library[p], f)
             r == Version(m.record, f)
             n == Version(record, f)
  <2>1. /\ l.rev = FR(library[p], f) /\ l.val = library[p].value[f]
        /\ r.rev = FR(m.record, f) /\ r.val = m.record.value[f]
        /\ n.rev = FR(record, f) /\ n.val = record.value[f]
    BY DEF Version
  <2>2. /\ UpTo(l, n) /\ UpTo(r, n)
        /\ \A x \in Products : n.rev[x] \in {l.rev[x], r.rev[x]}
        /\ n.val \in {l.val, r.val}
    BY <1>9, <2>1 DEF MadeFrom, UpTo, R!NoLater, Products
  <2>3. DecidedAt(decided, f) \subseteq DecidedAt(decided', f)
    BY <1>9 DEF DecidedAt
  <2>4. n.rev \in R!Vectors
    BY <1>10, <2>1, RevisionTyped
  <2>5. CASE f \in a.conflicts
    <3>1. n.rev \in DecidedAt(decided', f)
      BY <1>9, <2>1, <2>4, <2>5 DEF DecidedAt
    <3>2. UpTo(r, l) => UpTo(l, r)
      BY <1>7, <2>1, <2>5 DEF UpTo
    <3> HIDE DEF l, r, n
    <3> QED BY <2>2, <2>3, <3>1, <3>2 DEF Received, l, r, n
  <2>6. CASE f \notin a.conflicts
    <3>1. /\ n.val # l.val => UpTo(l, r)
          /\ n.val # r.val => UpTo(r, l)
      BY <1>8, <1>9, <2>1, <2>6 DEF UpTo, FieldCovers, R!NoLater, Products
    <3> HIDE DEF l, r, n
    <3>2. \/ l.val = r.val
          \/ UpTo(l, r) /\ n.val = r.val
          \/ UpTo(r, l) /\ n.val = l.val
      BY <2>2, <3>1
    <3> QED BY <2>2, <2>3, <3>1, <3>2 DEF Received, l, r, n
  <2> QED BY <2>5, <2>6
<1> QED BY <1>1, <1>2, <1>10, <1>11 DEF m, record, i

-----------------------------------------------------------------------------
(* The steps                                                               *)

LEMMA VersionOf ==
  ASSUME NEW record, R!IsSnapshot(record), NEW f \in Fields
  PROVE  /\ Version(record, f) \in VersionType
         /\ Version(record, f).rev = FR(record, f)
         /\ Version(record, f).val = record.value[f]
<1>1. record.value[f] \in Values
  BY DEF R!IsSnapshot
<1> QED BY <1>1, RevisionTyped DEF Version, VersionType

\* An edit of another field moves the revision of a field that carries none.
LEMMA EditedElsewhere ==
  ASSUME CopiesTyped, NEW p \in Products, NEW f \in Fields
  PROVE  /\ DOMAIN Edited(p, f).fieldRevisions = DOMAIN library[p].fieldRevisions \cup {f}
         /\ \A g \in Fields \ {f} :
              IF g \in DOMAIN library[p].fieldRevisions
              THEN FR(Edited(p, f), g) = FR(library[p], g)
              ELSE FR(Edited(p, f), g)[p] = FR(library[p], g)[p] + 1
<1> DEFINE old == library[p]
           new == Edited(p, f)
<1>1. R!IsSnapshot(old)
  BY DEF CopiesTyped
<1>2. old.revision \in R!Vectors
  BY <1>1 DEF R!IsSnapshot
<1>3. R!IncrementRevision(old.revision, p)[p] = old.revision[p] + 1
  BY <1>2 DEF R!Vectors, R!IncrementRevision, Products
<1>4. /\ new.revision = R!IncrementRevision(old.revision, p)
      /\ DOMAIN new.fieldRevisions = DOMAIN old.fieldRevisions \cup {f}
      /\ \A g \in DOMAIN old.fieldRevisions \ {f} : new.fieldRevisions[g] = old.fieldRevisions[g]
  BY DEF Edited
<1> HIDE DEF old, new
<1>5. \A g \in Fields \ {f} :
        IF g \in DOMAIN old.fieldRevisions
        THEN FR(new, g) = FR(old, g)
        ELSE FR(new, g)[p] = FR(old, g)[p] + 1
  BY <1>3, <1>4 DEF FR, R!FieldRevision
<1> QED BY <1>4, <1>5 DEF old, new

\* The versions of a field in the libraries, when one library changes.
LEMMA LibraryChanges ==
  ASSUME CopiesTyped, NEW p \in Products, NEW record, NEW f \in Fields,
         library' = [library EXCEPT ![p] = record]
  PROVE  LibraryOf(library', f) = [LibraryOf(library, f) EXCEPT ![p] = Version(record, f)]
<1>1. /\ library'[p] = record
      /\ \A x \in Products : x # p => library'[x] = library[x]
  BY DEF CopiesTyped
<1> DEFINE lib == LibraryOf(library, f)
           n == Version(record, f)
<1>2. /\ lib = [x \in Products |-> lib[x]]
      /\ \A x \in Products : lib[x] = Version(library[x], f)
  BY DEF LibraryOf
<1>3. LibraryOf(library', f) = [x \in Products |-> Version(library'[x], f)]
  BY DEF LibraryOf
<1>4. \A x \in Products : Version(library'[x], f) = IF x = p THEN n ELSE lib[x]
  BY <1>1, <1>2
<1> HIDE DEF lib, n
<1>5. LibraryOf(library', f) = [x \in Products |-> IF x = p THEN n ELSE lib[x]]
  BY <1>3, <1>4
<1>6. LibraryOf(library', f) = [lib EXCEPT ![p] = n]
  BY <1>2, <1>5
<1> QED BY <1>6 DEF lib, n

LEMMA InitCInv == ASSUME ScInit PROVE CInv
<1>2. R!IsSnapshot(Exported)
  BY InitTyped
<1>3. \A f \in Fields : Exported.value[f] = Base
  BY DEF Exported
<1>4. UncarriedIsBase
  BY <1>3 DEF UncarriedIsBase, ScInit
<1>5. ASSUME NEW f \in Fields
      PROVE  FieldInv(LibraryOf(library, f), SnapshotsOf(snapshots, f), DecidedAt(decided, f))
  <2> DEFINE v0 == Version(Exported, f)
             lib == LibraryOf(library, f)
             snap == SnapshotsOf(snapshots, f)
  <2>1. v0 \in VersionType /\ v0.val = Base
    BY <1>2, <1>3, VersionOf
  <2>2. \A x \in Products : lib[x] = v0
    BY DEF LibraryOf, ScInit
  <2>3. snap = [x \in Products |-> {}]
    BY DEF SnapshotsOf, ScInit
  <2>4. lib \in [Products -> VersionType] /\ snap \in [Products -> SUBSET VersionType]
    BY <2>1, <2>2, <2>3 DEF LibraryOf
  <2>5. v0.val[2] <= v0.rev[v0.val[1]] /\ \A x \in Products : v0.rev[x] \in Nat
    BY <2>1, VersionFacts DEF Base
  <2> HIDE DEF v0, lib, snap
  <2>6. \A v \in Versions(lib, snap) : v = v0
    BY <2>2, <2>3 DEF Versions, HeldBy
  <2>7. Owned(lib, snap) /\ Numbered(lib, snap)
    <3>1. \A x \in Products : v0.rev[x] <= v0.rev[x]
      BY <2>5
    <3>2. Owned(lib, snap)
      BY <3>1, <2>2, <2>3, <2>6 DEF Owned
    <3>3. Numbered(lib, snap)
      BY <2>5, <2>6 DEF Numbered
    <3> QED BY <3>2, <3>3
  <2>8. /\ OneLine(lib, snap) /\ FirstOfItsNumber(lib, snap, DecidedAt(decided, f))
        /\ Agree(lib, snap, DecidedAt(decided, f))
    BY <2>1, <2>6 DEF OneLine, FirstOfItsNumber, Agree
  <2>9. CameBack(lib, snap)
    BY <2>1, <2>2, <2>3 DEF CameBack, HeldBy
  <2> QED BY <2>4, <2>7, <2>8, <2>9 DEF FieldInv, lib, snap
<1> QED BY <1>4, <1>5 DEF CInv

LEMMA EditCInv ==
  ASSUME CopiesTyped, CInv, NEW p \in Products, NEW f \in Fields, Edit(p, f)
  PROVE  CInv'
<1> DEFINE new == Edited(p, f)
<1>1. library' = [library EXCEPT ![p] = new] /\ UNCHANGED <<snapshots, decided>>
  BY DEF Edit
<1>2. /\ R!IsSnapshot(library[p]) /\ R!IsSnapshot(new)
      /\ new.value[f] = <<p, FR(library[p], f)[p] + 1>>
      /\ \A g \in Fields \ {f} : new.value[g] = library[p].value[g]
      /\ FR(new, f)[p] = FR(library[p], f)[p] + 1
      /\ \A g \in Fields, q \in Products : q # p => FR(new, g)[q] = FR(library[p], g)[q]
  <2>1. R!IsSnapshot(library[p])
    BY DEF CopiesTyped
  <2> QED
    BY <2>1, EditedRevisions DEF NextEdit, FR
<1>3. /\ DOMAIN new.fieldRevisions = DOMAIN library[p].fieldRevisions \cup {f}
      /\ \A g \in Fields \ {f} :
           IF g \in DOMAIN library[p].fieldRevisions
           THEN FR(new, g) = FR(library[p], g)
           ELSE FR(new, g)[p] = FR(library[p], g)[p] + 1
  BY EditedElsewhere
<1> HIDE DEF new
<1>4. \A g \in Fields : g \notin DOMAIN library[p].fieldRevisions => library[p].value[g] = Base
  BY DEF CInv, UncarriedIsBase
<1>5. UncarriedIsBase'
  <2>1. library'[p] = new /\ \A x \in Products : x # p => library'[x] = library[x]
    BY <1>1 DEF CopiesTyped
  <2> QED BY <2>1, <1>2, <1>3, <1>4 DEF CInv, UncarriedIsBase
<1>6. ASSUME NEW g \in Fields
      PROVE  FieldInv(LibraryOf(library', g), SnapshotsOf(snapshots', g), DecidedAt(decided', g))
  <2> DEFINE lib == LibraryOf(library, g)
             snap == SnapshotsOf(snapshots, g)
             dec == DecidedAt(decided, g)
             n == Version(new, g)
  <2>1. FieldInv(lib, snap, dec)
    BY DEF CInv
  <2>2. LibraryOf(library', g) = [lib EXCEPT ![p] = n]
    BY <1>1, LibraryChanges
  <2>3. SnapshotsOf(snapshots', g) = snap /\ DecidedAt(decided', g) = dec
    BY <1>1
  <2>4. /\ lib[p] = Version(library[p], g)
        /\ lib[p].rev = FR(library[p], g) /\ lib[p].val = library[p].value[g]
        /\ n \in VersionType /\ n.rev = FR(new, g) /\ n.val = new.value[g]
    BY <1>2, VersionOf DEF LibraryOf
  <2>5. lib = [x \in Products |-> lib[x]]
    BY DEF LibraryOf
  <2>6. FieldInv([lib EXCEPT ![p] = n], snap, dec)
    <3>1. CASE g = f
      <4>1. n.rev[p] = lib[p].rev[p] + 1 /\ n.val = <<p, n.rev[p]>>
        BY <1>2, <2>4, <3>1
      <4>2. \A x \in Products : x # p => n.rev[x] = lib[p].rev[x]
        BY <1>2, <2>4
      <4> HIDE DEF lib, snap, dec, n
      <4> QED BY <2>1, <2>4, <4>1, <4>2, FieldAdvances
    <3>2. CASE g # f /\ g \notin DOMAIN library[p].fieldRevisions
      <4>1. n.rev[p] = lib[p].rev[p] + 1 /\ n.val = Base /\ lib[p].val = Base
        BY <1>2, <1>3, <1>4, <2>4, <3>2
      <4>2. \A x \in Products : x # p => n.rev[x] = lib[p].rev[x]
        BY <1>2, <2>4
      <4> HIDE DEF lib, snap, dec, n
      <4> QED BY <2>1, <2>4, <4>1, <4>2, FieldAdvances
    <3>3. CASE g # f /\ g \in DOMAIN library[p].fieldRevisions
      <4>1. n = lib[p]
        BY <1>2, <1>3, <2>4, <3>3 DEF Version
      <4> HIDE DEF lib, snap, dec, n
      <4>2. [lib EXCEPT ![p] = n] = lib
        BY <2>5, <4>1
      <4> QED BY <2>1, <4>2
    <3> QED BY <3>1, <3>2, <3>3
  <2> QED BY <2>2, <2>3, <2>6
<1> QED BY <1>5, <1>6 DEF CInv

LEMMA CopyCInv ==
  ASSUME CopiesTyped, CInv, NEW p \in Products, TakeSnapshot(p)
  PROVE  CInv'
<1> DEFINE m0 == [from |-> p, record |-> library[p], seen |-> seen[p]]
<1>1. snapshots' = snapshots \cup {m0} /\ UNCHANGED <<library, decided>>
  BY DEF TakeSnapshot
<1>2. ASSUME NEW f \in Fields
      PROVE  FieldInv(LibraryOf(library', f), SnapshotsOf(snapshots', f), DecidedAt(decided', f))
  <2> DEFINE lib == LibraryOf(library, f)
             snap == SnapshotsOf(snapshots, f)
             dec == DecidedAt(decided, f)
  <2>1. FieldInv(lib, snap, dec)
    BY DEF CInv
  <2>2. lib[p] = Version(m0.record, f) /\ m0.from = p
    BY DEF LibraryOf
  <2> HIDE DEF m0
  <2>3. SnapshotsOf(snapshots', f)
          = [x \in Products |-> IF x = p THEN snap[x] \cup {lib[p]} ELSE snap[x]]
    <3> HIDE DEF lib
    <3>1. ASSUME NEW x \in Products
          PROVE  {Version(m.record, f) : m \in {s \in snapshots' : s.from = x}}
                   = IF x = p THEN snap[x] \cup {lib[p]} ELSE snap[x]
      <4>1. {s \in snapshots' : s.from = x}
              = {s \in snapshots : s.from = x} \cup (IF x = p THEN {m0} ELSE {})
        BY <1>1, <2>2
      <4>2. snap[x] = {Version(m.record, f) : m \in {s \in snapshots : s.from = x}}
        BY DEF SnapshotsOf
      <4> HIDE DEF snap
      <4> QED BY <2>2, <4>1, <4>2
    <3> HIDE DEF snap
    <3> QED BY <3>1 DEF SnapshotsOf
  <2>4. snap = [x \in Products |-> snap[x]]
    BY DEF SnapshotsOf
  <2>5. LibraryOf(library', f) = lib /\ DecidedAt(decided', f) = dec
    BY <1>1
  <2> HIDE DEF lib, snap, dec
  <2>6. SnapshotsOf(snapshots', f) = [snap EXCEPT ![p] = @ \cup {lib[p]}]
    BY <2>3, <2>4
  <2>7. FieldInv(lib, [snap EXCEPT ![p] = @ \cup {lib[p]}], dec)
    BY <2>1, FieldIsCopied
  <2> QED BY <2>5, <2>6, <2>7
<1>3. UncarriedIsBase'
  BY <1>1 DEF CInv, UncarriedIsBase
<1> QED BY <1>2, <1>3 DEF CInv

LEMMA ReceiveCInv ==
  ASSUME ApplierChecks, ScTypeOK, CInv, NEW p \in Products, ApplyOutcome(p)
  PROVE  CInv'
<1> DEFINE m == applying[p].remote
           record == Outcome(p, applying[p])
<1>1. /\ library' = [library EXCEPT ![p] = record]
      /\ R!IsSnapshot(record) /\ DOMAIN record.fieldRevisions = Fields
      /\ \A f \in Fields :
           Received(Version(library[p], f), Version(m.record, f), Version(record, f),
                    DecidedAt(decided, f), DecidedAt(decided', f))
  BY Receives
<1>2. m \in snapshots /\ m.from \in Products /\ m.from # p /\ snapshots' = snapshots
  BY ItemInHand DEF ScTypeOK, CopiesTyped
<1> HIDE DEF m, record
<1>3. UncarriedIsBase'
  <2>1. library'[p] = record /\ \A x \in Products : x # p => library'[x] = library[x]
    BY <1>1 DEF ScTypeOK, CopiesTyped
  <2> QED BY <1>1, <2>1 DEF CInv, UncarriedIsBase
<1>4. ASSUME NEW f \in Fields
      PROVE  FieldInv(LibraryOf(library', f), SnapshotsOf(snapshots', f), DecidedAt(decided', f))
  <2> DEFINE lib == LibraryOf(library, f)
             snap == SnapshotsOf(snapshots, f)
             dec == DecidedAt(decided, f)
             dec2 == DecidedAt(decided', f)
             n == Version(record, f)
             r == Version(m.record, f)
  <2>1. FieldInv(lib, snap, dec)
    BY DEF CInv
  <2>2. r \in snap[m.from]
    BY <1>2 DEF SnapshotsOf
  <2>3. n \in VersionType
    BY <1>1, VersionOf
  <2>4. lib[p] = Version(library[p], f)
    BY DEF LibraryOf
  <2>5. LibraryOf(library', f) = [lib EXCEPT ![p] = n]
    <3>1. library' = [library EXCEPT ![p] = record]
      BY <1>1
    <3> HIDE DEF LibraryOf
    <3> QED BY <3>1, LibraryChanges DEF ScTypeOK
  <2>6. SnapshotsOf(snapshots', f) = snap
    BY <1>2
  <2>7. Received(lib[p], r, n, dec, dec2)
    BY <1>1, <2>4
  <2> HIDE DEF lib, snap, dec, dec2, n, r
  <2>8. Reception(lib, snap, dec, dec2, p, m.from, r, n)
    BY <1>2, <2>1, <2>2, <2>3, <2>7 DEF Reception
  <2>9. FieldInv([lib EXCEPT ![p] = n], snap, dec2)
    BY <2>8, FieldReceives
  <2> QED BY <2>5, <2>6, <2>9 DEF dec2
<1> QED BY <1>3, <1>4 DEF CInv

LEMMA StepCInv == ASSUME ApplierChecks, ScTypeOK, CInv, [ScNext]_scVars PROVE CInv'
<1>1. CopiesTyped
  BY DEF ScTypeOK
<1>2. CASE UNCHANGED <<library, seen, snapshots, decided, dropped>>
  BY <1>2 DEF CInv, UncarriedIsBase
<1> QED BY <1>1, <1>2, EditCInv, CopyCInv, ReceiveCInv, QuietSteps

LEMMA CInvAgrees == ASSUME CopiesTyped, CInv PROVE DivergenceIsDecided
<1>1. ASSUME NEW f \in Fields, NEW a \in Holders, NEW b \in Holders,
             FR(a, f) = FR(b, f), <<f, FR(a, f)>> \notin decided
      PROVE  a.value[f] = b.value[f]
  <2> DEFINE lib == LibraryOf(library, f)
             snap == SnapshotsOf(snapshots, f)
             dec == DecidedAt(decided, f)
  <2>1. Agree(lib, snap, dec)
    BY DEF CInv, FieldInv
  <2>2. ASSUME NEW c \in Holders
        PROVE  Version(c, f) \in Versions(lib, snap)
    <3>1. CASE \E p \in Products : c = library[p]
      BY <3>1 DEF Versions, HeldBy, LibraryOf
    <3>2. CASE \E m \in snapshots : c = m.record
      <4>1. PICK m \in snapshots : c = m.record
        BY <3>2
      <4>2. m.from \in Products
        BY DEF CopiesTyped
      <4>3. Version(c, f) \in snap[m.from]
        BY <4>1, <4>2 DEF SnapshotsOf
      <4> HIDE DEF lib, snap
      <4> QED BY <4>2, <4>3 DEF Versions, HeldBy
    <3> QED BY <3>1, <3>2 DEF Holders
  <2>3. R!IsSnapshot(a) /\ R!IsSnapshot(b)
    BY DEF Holders, CopiesTyped
  <2>4. FR(a, f) \notin dec
    BY <1>1 DEF DecidedAt
  <2> HIDE DEF lib, snap, dec
  <2>5. Version(a, f).rev = Version(b, f).rev /\ Version(a, f).rev \notin dec
    BY <1>1, <2>3, <2>4, VersionOf
  <2>6. Version(a, f).val = Version(b, f).val
    BY <2>1, <2>2, <2>5 DEF Agree
  <2> QED BY <2>3, <2>6, VersionOf
<1> QED BY <1>1 DEF DivergenceIsDecided, FR

\* Copies with the same revision of a field, in the libraries or in any snapshot
\* still under way, have the same value of it unless a reviewer has decided there,
\* if the applier checks.
THEOREM EqualRevisionsAgree == ASSUME ApplierChecks PROVE ScSpec => []DivergenceIsDecided
<1>1. ScInit => CInv
  BY InitCInv
<1>2. ScTypeOK /\ CInv /\ [ScNext]_scVars => CInv'
  BY StepCInv
<1>3. ScTypeOK /\ CInv => DivergenceIsDecided
  BY CInvAgrees DEF ScTypeOK
<1>4. ScSpec => []ScTypeOK
  BY ConvergenceTypeCorrect
<1> QED
  BY <1>1, <1>2, <1>3, <1>4, PTL DEF ScSpec

-------------------------------------------------------------------------------
(* The parts together                                                      *)

\* What each part does in the composition, or that it rests.
PartsMove ==
  /\ [ScNext]_scVars /\ [SjNext]_sjVars /\ [MpNext]_mpVars
  /\ [TrNext]_trVars /\ [LlNext]_llVars

LEMMA PartsBegin == Init => ScInit /\ SjInit /\ MpInit /\ TrInit /\ LlInit
  BY DEF Init, RestingProtocol, RestingTransport

LEMMA PartsStep == [Next]_vars => PartsMove
<1> SUFFICES ASSUME [Next]_vars PROVE PartsMove
  OBVIOUS
<1>1. CASE Next
  BY <1>1 DEF Next, PartsMove
<1>2. CASE UNCHANGED vars
  <2>1. UNCHANGED <<scVars, sjVars, mpVars, trVars, llVars>>
    BY <1>2 DEF vars
  <2> QED
    BY <2>1 DEF PartsMove
<1> QED
  BY <1>1, <1>2

\* Each part of the composition behaves as its own specification says, so that what
\* is proved of the parts holds of what MCExchange checks.
THEOREM ExchangeParts == Spec => ScSpec /\ SjSpec /\ MpSpec /\ TrSpec /\ LlSpec
<1>1. [Next]_vars => [ScNext]_scVars
  BY PartsStep DEF PartsMove
<1>2. [Next]_vars => [SjNext]_sjVars
  BY PartsStep DEF PartsMove
<1>3. [Next]_vars => [MpNext]_mpVars
  BY PartsStep DEF PartsMove
<1>4. [Next]_vars => [TrNext]_trVars
  BY PartsStep DEF PartsMove
<1>5. [Next]_vars => [LlNext]_llVars
  BY PartsStep DEF PartsMove
<1> QED
  BY <1>1, <1>2, <1>3, <1>4, <1>5, PartsBegin, PTL
     DEF Spec, ScSpec, SjSpec, MpSpec, TrSpec, LlSpec

\* The composition keeps its types: those of the Sync journal, the Move protocol,
\* the transport and the live session, all at once.
THEOREM ExchangeTypeCorrect == Spec => []TypeOK
<1>1. SjTypeOK /\ MpTypeOK /\ TrTypeOK /\ LlTypeOK => TypeOK
  BY DEF TypeOK
<1> QED
  BY <1>1, ExchangeParts, JournalTypes, MoveTypes, TransportTypeCorrect, LiveTypes, PTL
===============================================================================
