------------------------------- MODULE KeySession -------------------------------
(***************************************************************************)
(* The unlocked key of the encrypted originals and its recovery record     *)
(* (data/crypto/blob-key-session.ts, data/runtime/session-unlock.ts).      *)
(* The record outlives the service worker in the browser's session         *)
(* storage; storage, key import and key export are awaited, and messages   *)
(* are handled in between.                                                 *)
(*                                                                         *)
(* Continuations of a promise that is settled already run before the next  *)
(* message, so they belong to the step that precedes them.                 *)
(***************************************************************************)
EXTENDS Integers, Sequences, SequencesExt

CONSTANTS
  KeyCalls,   \* calls that may overlap
  Keys,       \* the wrapped keys in the database
  Timeouts,   \* inactivity timeouts; "never" is one beyond MaxTime
  MaxTime,    \* bound: the clock stops here
  MaxOps,     \* bound: messages are taken while fewer storage operations are under way
  MaxFailures \* bound: storage operations that fail

ASSUME TimeoutsAssumption == Timeouts \subseteq Nat \ {0}
ASSUME KeysAssumption == "none" \notin Keys
ASSUME NobodyAssumption == "nobody" \notin KeyCalls
ASSUME KeyBoundsAssumption == MaxTime \in Nat /\ MaxOps \in Nat /\ MaxFailures \in Nat

VARIABLES
  session,   \* the session in the worker's memory
  rawKey,    \* the exported key, for the next record
  attempted, \* restoreAttempted
  trusted,   \* storageTrusted: a promise, settled as TRUE or FALSE
  waiters,   \* calls that await trusted, in order
  keyCall,   \* keyCall[c]: a call in flight, with what it has in local variables
  record,    \* the recovery record in session storage
  ops,       \* storage operations under way, in order
  clock, failures,
  beforeLock \* calls in flight since before the last manual lock (history)

memory == <<session, rawKey, attempted, trusted, waiters, keyCall>>
ksVars == <<memory, record, ops, clock, failures, beforeLock>>

Locked == [key |-> "none", activity |-> 0, timeout |-> 0]
Sessions == [key: Keys, activity: 0..MaxTime, timeout: Timeouts]

\* A record names a key and holds one: raw is "none" when the key was dropped
\* before the record was made, and such a record cannot be restored.
NoRecord == [key |-> "none", activity |-> 0, timeout |-> 0, raw |-> "none"]
Records == [key: Keys, activity: 0..MaxTime, timeout: Timeouts, raw: Keys \cup {"none"}]

\* What needs the session, and what opens it.
Requests == [name: {"use", "activity"}] \cup [name: {"timeout"}, timeout: Timeouts]
Unlocks == [key: Keys, timeout: Timeouts]

Rest == [pc |-> "idle"]
CallStates ==
  {Rest}
    \cup [pc: {"trust", "get"}, request: Requests]
    \cup [pc: {"export", "import"}, request: Unlocks]
    \cup [pc: {"restore"}, request: Requests, found: Records \cup {NoRecord}]
    \cup [pc: {"persist"}, snapshot: Sessions]

\* A read that a stopped worker asked for is answered to nobody.
StorageOps ==
  [op: {"set"}, record: Records] \cup [op: {"remove"}]
    \cup [op: {"get"}, by: KeyCalls \cup {"nobody"}]

KsTypeOK ==
  /\ session \in Sessions \cup {Locked}
  /\ rawKey \in Keys \cup {"none"}
  /\ attempted \in BOOLEAN
  /\ trusted \in {"pending", "yes", "no"}
  /\ waiters \in Seq(KeyCalls)
  /\ keyCall \in [KeyCalls -> CallStates]
  /\ record \in Records \cup {NoRecord}
  /\ ops \in Seq(StorageOps)
  /\ clock \in 0..MaxTime
  /\ failures \in 0..MaxFailures
  /\ beforeLock \subseteq KeyCalls

IsExpired(s) == clock >= s.activity + s.timeout
Overdue == session # Locked /\ IsExpired(session)
IsUsable(r) == r.raw # "none"
SessionOf(r) == [key |-> r.key, activity |-> r.activity, timeout |-> r.timeout]
RecordOf(s, raw) == [key |-> s.key, activity |-> s.activity, timeout |-> s.timeout, raw |-> raw]

KsInit ==
  /\ session = Locked /\ rawKey = "none" /\ attempted = FALSE
  /\ trusted = "pending" /\ waiters = <<>>
  /\ keyCall = [c \in KeyCalls |-> Rest]
  /\ record = NoRecord /\ ops = <<>>
  /\ clock = 0 /\ failures = 0 /\ beforeLock = {}

-------------------------------------------------------------------------------
\* The next message, timer or answer of the browser: no continuation is left to run.
NextTask == trusted = "pending" \/ waiters = <<>>

Issue(op) == ops' = Append(ops, op)
Removing == [op |-> "remove"]
At(c, call) == keyCall' = [keyCall EXCEPT ![c] = call]

EndKeyCall(c) ==
  /\ At(c, Rest)
  /\ beforeLock' = beforeLock \ {c}

\* The record is made of a snapshot taken now and of the key the worker has when
\* the storage is known to be trusted.
Persist(c, s, raw) ==
  \/ /\ raw = "none" \/ trusted = "no"
     /\ EndKeyCall(c)
     /\ UNCHANGED <<waiters, ops>>
  \/ /\ raw # "none" /\ trusted = "yes"
     /\ Issue([op |-> "set", record |-> RecordOf(s, raw)])
     /\ EndKeyCall(c)
     /\ UNCHANGED waiters
  \/ /\ raw # "none" /\ trusted = "pending"
     /\ waiters' = Append(waiters, c)
     /\ At(c, [pc |-> "persist", snapshot |-> s])
     /\ UNCHANGED <<ops, beforeLock>>

\* Mutant: activity is kept in memory only.
ProceedUnrecorded(c, request, s, raw) ==
  LET changed == IF request.name = "activity" THEN [s EXCEPT !.activity = clock]
                                              ELSE [s EXCEPT !.timeout = request.timeout]
  IN \/ /\ request.name = "use"
        /\ session' = s /\ rawKey' = raw
        /\ EndKeyCall(c)
        /\ UNCHANGED <<attempted, waiters, ops>>
     \/ /\ request.name \in {"activity", "timeout"} /\ ~IsExpired(changed)
        /\ session' = changed /\ rawKey' = raw
        /\ Persist(c, changed, IF request.name = "activity" THEN "none" ELSE raw)
        /\ UNCHANGED attempted
     \/ /\ request.name \in {"activity", "timeout"} /\ IsExpired(changed)
        /\ session' = Locked /\ rawKey' = "none" /\ attempted' = TRUE
        /\ Issue(Removing)
        /\ EndKeyCall(c)
        /\ UNCHANGED waiters

\* A call that has the session s goes on: it uses it, or changes and persists it.
Proceed(c, request, s, raw) ==
  LET changed == IF request.name = "activity" THEN [s EXCEPT !.activity = clock]
                                              ELSE [s EXCEPT !.timeout = request.timeout]
  IN \/ /\ request.name = "use"
        /\ session' = s /\ rawKey' = raw
        /\ EndKeyCall(c)
        /\ UNCHANGED <<attempted, waiters, ops>>
     \/ /\ request.name \in {"activity", "timeout"} /\ ~IsExpired(changed)
        /\ session' = changed /\ rawKey' = raw
        /\ Persist(c, changed, raw)
        /\ UNCHANGED attempted
     \/ /\ request.name \in {"activity", "timeout"} /\ IsExpired(changed)
        /\ session' = Locked /\ rawKey' = "none" /\ attempted' = TRUE
        /\ Issue(Removing)
        /\ EndKeyCall(c)
        /\ UNCHANGED waiters

\* A message that needs the session.  The first ones of a worker restore it.
Call(c, request) ==
  /\ NextTask /\ keyCall[c] = Rest /\ ~Overdue /\ Len(ops) < MaxOps
  /\ \/ /\ session # Locked
        /\ Proceed(c, request, session, rawKey)
     \/ /\ session = Locked /\ attempted
        /\ EndKeyCall(c)
        /\ UNCHANGED <<session, rawKey, attempted, waiters, ops>>
     \/ /\ session = Locked /\ ~attempted
        /\ At(c, [pc |-> "trust", request |-> request])
        /\ waiters' = Append(waiters, c)
        /\ UNCHANGED <<session, rawKey, attempted, ops, beforeLock>>
  /\ UNCHANGED <<trusted, record, clock, failures>>

\* The browser confirms that only the extension reads the storage, or cannot.
TrustSettles ==
  /\ trusted = "pending"
  /\ \/ trusted' = "yes" /\ UNCHANGED <<ops, failures>>
     \/ /\ failures < MaxFailures /\ failures' = failures + 1
        /\ trusted' = "no" /\ Issue(Removing)
  /\ UNCHANGED <<session, rawKey, attempted, waiters, keyCall, record, clock, beforeLock>>

\* A restore that awaited the storage reads the record.
RestoreTrusted(c) ==
  /\ trusted # "pending" /\ waiters # <<>> /\ c = Head(waiters)
  /\ keyCall[c].pc = "trust"
  /\ attempted' = TRUE
  /\ waiters' = Tail(waiters)
  /\ \/ /\ trusted = "yes"
        /\ Issue([op |-> "get", by |-> c])
        /\ At(c, [pc |-> "get", request |-> keyCall[c].request])
        /\ UNCHANGED beforeLock
     \/ /\ trusted = "no"
        /\ EndKeyCall(c)
        /\ UNCHANGED ops
  /\ UNCHANGED <<session, rawKey, trusted, record, clock, failures>>

\* Mutant: the key is captured with the snapshot.
PersistTrustedCaptured(c) ==
  /\ trusted # "pending" /\ waiters # <<>> /\ c = Head(waiters)
  /\ keyCall[c].pc = "persist"
  /\ waiters' = Tail(waiters)
  /\ IF trusted = "yes" THEN Issue([op |-> "set", record |-> RecordOf(keyCall[c].snapshot, keyCall[c].snapshot.key)])
                        ELSE UNCHANGED ops
  /\ EndKeyCall(c)
  /\ UNCHANGED <<session, rawKey, attempted, trusted, record, clock, failures>>

PersistTrusted(c) ==
  /\ trusted # "pending" /\ waiters # <<>> /\ c = Head(waiters)
  /\ keyCall[c].pc = "persist"
  /\ waiters' = Tail(waiters)
  /\ IF trusted = "yes" THEN Issue([op |-> "set", record |-> RecordOf(keyCall[c].snapshot, rawKey)])
                        ELSE UNCHANGED ops
  /\ EndKeyCall(c)
  /\ UNCHANGED <<session, rawKey, attempted, trusted, record, clock, failures>>

\* The browser carries out the first storage operation.
StorageDone ==
  /\ NextTask /\ ops # <<>>
  /\ LET op == Head(ops)
     IN /\ record' = CASE op.op = "set" -> op.record
                        [] op.op = "remove" -> NoRecord
                        [] op.op = "get" -> record
        /\ IF op.op = "get" /\ op.by \in KeyCalls
           THEN At(op.by, [pc |-> "restore", request |-> keyCall[op.by].request, found |-> record])
           ELSE UNCHANGED keyCall
  /\ ops' = Tail(ops)
  /\ UNCHANGED <<session, rawKey, attempted, trusted, waiters, clock, failures, beforeLock>>

\* A failed write: the storage is trusted no more and the record is removed.
StorageFails ==
  /\ NextTask /\ failures < MaxFailures /\ ops # <<>> /\ Head(ops).op = "set"
  /\ failures' = failures + 1
  /\ trusted' = "no"
  /\ rawKey' = "none"
  /\ ops' = Append(Tail(ops), Removing)
  /\ UNCHANGED <<session, attempted, waiters, keyCall, record, clock, beforeLock>>

\* The record is parsed and its key imported; an unusable or expired one is erased.
Restored(c) ==
  LET found == keyCall[c].found
      s == SessionOf(found)
  IN /\ NextTask /\ keyCall[c].pc = "restore"
     /\ \/ /\ found = NoRecord
           /\ EndKeyCall(c)
           /\ UNCHANGED <<session, rawKey, attempted, waiters, ops>>
        \/ /\ found # NoRecord /\ ~IsUsable(found)
           /\ rawKey' = "none" /\ Issue(Removing)
           /\ EndKeyCall(c)
           /\ UNCHANGED <<session, attempted, waiters>>
        \/ /\ found # NoRecord /\ IsUsable(found) /\ IsExpired(s)
           /\ session' = Locked /\ rawKey' = "none" /\ Issue(Removing)
           /\ EndKeyCall(c)
           /\ UNCHANGED <<attempted, waiters>>
        \/ /\ found # NoRecord /\ IsUsable(found) /\ ~IsExpired(s)
           /\ Proceed(c, keyCall[c].request, s, found.raw)
     /\ UNCHANGED <<trusted, record, clock, failures>>

\* Unlock: the unwrapped key is exported, kept, imported and opens the session.
Unlock(c, request) ==
  /\ NextTask /\ keyCall[c] = Rest /\ Len(ops) < MaxOps
  /\ \A d \in KeyCalls : keyCall[d] # Rest => keyCall[d].pc \notin {"export", "import"}
  /\ At(c, [pc |-> "export", request |-> request])
  /\ UNCHANGED <<session, rawKey, attempted, trusted, waiters, record, ops, clock, failures, beforeLock>>

Exported(c) ==
  /\ NextTask /\ keyCall[c].pc = "export"
  /\ rawKey' = keyCall[c].request.key
  /\ At(c, [pc |-> "import", request |-> keyCall[c].request])
  /\ UNCHANGED <<session, attempted, trusted, waiters, record, ops, clock, failures, beforeLock>>

Unlocked(c) ==
  LET request == keyCall[c].request
      s == [key |-> request.key, activity |-> clock, timeout |-> request.timeout]
  IN /\ NextTask /\ keyCall[c].pc = "import"
     /\ session' = s /\ attempted' = TRUE
     /\ Persist(c, s, rawKey)
     /\ UNCHANGED <<rawKey, trusted, record, clock, failures>>

\* Lock now.
Lock ==
  /\ NextTask /\ Len(ops) < MaxOps
  /\ session' = Locked /\ attempted' = TRUE /\ rawKey' = "none"
  /\ Issue(Removing)
  /\ beforeLock' = {c \in KeyCalls : keyCall[c] # Rest}
  /\ UNCHANGED <<trusted, waiters, keyCall, record, clock, failures>>

\* The timer, or the first getter that finds the session expired.
Expire ==
  /\ NextTask /\ Overdue
  /\ session' = Locked /\ attempted' = TRUE /\ rawKey' = "none"
  /\ Issue(Removing)
  /\ UNCHANGED <<trusted, waiters, keyCall, record, clock, failures, beforeLock>>

Tick ==
  /\ NextTask /\ clock < MaxTime
  /\ clock' = clock + 1
  /\ UNCHANGED <<memory, record, ops, failures, beforeLock>>

\* The browser stops the worker and starts a new one; what the storage was asked
\* to do is still done, but no read finds its caller.
KsWorkerRestarts ==
  /\ session' = Locked /\ rawKey' = "none" /\ attempted' = FALSE
  /\ trusted' = "pending" /\ waiters' = <<>>
  /\ keyCall' = [c \in KeyCalls |-> Rest]
  /\ ops' = [i \in DOMAIN ops |->
               IF ops[i].op = "get" THEN [op |-> "get", by |-> "nobody"] ELSE ops[i]]
  /\ beforeLock' = {}
  /\ UNCHANGED <<record, clock, failures>>

KsNext ==
  \/ \E c \in KeyCalls, r \in Requests : Call(c, r)
  \/ \E c \in KeyCalls, r \in Unlocks : Unlock(c, r)
  \/ \E c \in KeyCalls :
       RestoreTrusted(c) \/ PersistTrusted(c) \/ Restored(c) \/ Exported(c) \/ Unlocked(c)
  \/ TrustSettles \/ StorageDone \/ StorageFails
  \/ Lock \/ Expire \/ Tick \/ KsWorkerRestarts

KsSpec == KsInit /\ [][KsNext]_ksVars

-------------------------------------------------------------------------------
(* Properties                                                              *)

Quiet == waiters = <<>> /\ ops = <<>> /\ \A c \in KeyCalls : keyCall[c] = Rest

\* A session that was locked, or that expired, is not there for the next worker:
\* once everything under way is done, a worker that knows it is locked leaves no
\* record that could be restored.
LockSurvivesRestart ==
  Quiet /\ attempted /\ session = Locked => ~IsUsable(record)

\* A restart loses no activity: a record that could be restored is as recent as
\* the session.  It may be more recent, and even of another key: a restore that was
\* under way beside another call opens the session that it read.
ActivityIsRecorded ==
  Quiet /\ session # Locked /\ IsUsable(record) => record.activity >= session.activity

\* Lock now holds: no call that was made before it restores the session.
ManualLockHolds ==
  [][session = Locked /\ session' # Locked =>
       ~ \E c \in beforeLock : keyCall[c].pc = "restore" /\ keyCall'[c] # keyCall[c]]_ksVars
===============================================================================
