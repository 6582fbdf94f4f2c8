-------------------------------- MODULE LiveLocal --------------------------------
(***************************************************************************)
(* A live session with the Overlook on this computer                       *)
(* (background/interop-live-local-session.ts and the object store and      *)
(* result barrier it owns).  One socket carries the objects put, their     *)
(* acknowledgements, Overlook's own objects and the results of commits.    *)
(* Nothing but the order of the socket ties a result to its commit.        *)
(*                                                                         *)
(* A path has one ciphertext.  Overlook is external: it keeps what it gets *)
(* before it acknowledges it, and answers commits in their order.          *)
(***************************************************************************)
EXTENDS Integers, Sequences, SequencesExt, Arrays

CONSTANTS
  Puts,           \* calls of put
  PutPath,        \* the path that a put writes
  PutBytes,       \* and its length
  MaxInFlight,    \* maxInFlightBytes of the capability
  Commits,        \* calls of commit
  Staged,         \* paths of the objects that Overlook sends
  Frames,         \* the frames of each of them
  MaxSends,       \* bound: objects that Overlook sends
  MaxLiveFaults   \* bound: writes to the repository that fail

ASSUME PutsAssumption ==
  /\ IsFiniteSet(Puts) /\ "none" \notin Puts
  /\ \A u, w \in Puts : PutPath[u] = PutPath[w] => u = w
ASSUME PutBytesAssumption == MaxInFlight \in Nat /\ PutBytes \in [Puts -> 0..MaxInFlight]
ASSUME FramesAssumption == Frames \in Nat \ {0}
ASSUME LiveBoundsAssumption == MaxSends \in Nat /\ MaxLiveFaults \in Nat

VARIABLES
  phase,
  put,      \* put[u]: program counter and the state of its acknowledgement promise
  queue,    \* puts that wait for the window
  inFlight, \* the window's account of bytes
  pending,  \* pending[p]: the put whose promise awaits the acknowledgement of p
  commit,   \* commit[c]: program counter and the result it got
  barrier,  \* commits whose result is awaited
  incoming, \* incoming[p]: frames received
  handling, \* the message that is handled; the others wait for it
  durable,  \* objects in the repository
  arrived,  \* puts that Overlook has received whole
  kept,     \* puts that Overlook keeps
  asked,    \* commits that Overlook has yet to answer
  socket,   \* messages from Overlook
  sends, liveFaults

session == <<phase, queue, inFlight, pending, put, commit, barrier>>
overlook == <<arrived, kept, asked, sends>>
llVars == <<session, incoming, handling, durable, overlook, socket, liveFaults>>

PutPaths == {PutPath[u] : u \in Puts}
NoResult == [of |-> "none", after |-> {}]
NoMessage == [type |-> "none"]
LiveMessages ==
  [type: {"ack"}, path: PutPaths]
    \cup [type: {"frame"}, path: Staged, index: 1..Frames]
    \cup [type: {"result"}, of: Commits, after: SUBSET Staged]

LlTypeOK ==
  /\ phase \in {"connecting", "redeeming", "opening", "connected", "closing", "closed"}
  /\ put \in [Puts -> [pc: {"rest", "waiting", "granted", "sending", "awaiting", "done", "failed"},
                       promise: {"none", "open", "resolved", "rejected"}]]
  /\ queue \in Seq(Puts)
  /\ inFlight \in 0..MaxInFlight
  /\ pending \in [PutPaths -> Puts \cup {"none"}]
  /\ commit \in [Commits ->
       [pc: {"rest", "waiting", "done", "failed"}, result: [of: Commits, after: SUBSET Staged] \cup {NoResult}]]
  /\ barrier \in Seq(Commits) /\ asked \in Seq(Commits)
  /\ incoming \in [Staged -> SUBSET (1..Frames)]
  /\ handling \in {NoMessage} \cup [type: {"verify", "store"}, path: Staged, index: 1..Frames]
  /\ durable \subseteq Staged
  /\ arrived \subseteq Puts /\ kept \subseteq Puts
  /\ socket \in Seq(LiveMessages)
  /\ sends \in 0..MaxSends /\ liveFaults \in 0..MaxLiveFaults

LlInit ==
  /\ phase = "connecting"
  /\ put = [u \in Puts |-> [pc |-> "rest", promise |-> "none"]]
  /\ queue = <<>> /\ inFlight = 0 /\ pending = [p \in PutPaths |-> "none"]
  /\ commit = [c \in Commits |-> [pc |-> "rest", result |-> NoResult]]
  /\ barrier = <<>> /\ asked = <<>> /\ socket = <<>>
  /\ incoming = [p \in Staged |-> {}] /\ handling = NoMessage /\ durable = {}
  /\ arrived = {} /\ kept = {} /\ sends = 0 /\ liveFaults = 0

-------------------------------------------------------------------------------
(* Closing                                                                 *)

Open == phase = "connected"
Ended == phase \in {"closing", "closed"}

\* store.close: who waits for the window has failed, every promise is rejected.
CloseStore ==
  /\ put' = [u \in Puts |->
       CASE u \in ToSet(queue) -> [put[u] EXCEPT !.pc = "failed"]
         [] pending[PutPath[u]] = u -> [put[u] EXCEPT !.promise = "rejected"]
         [] OTHER -> put[u]]
  /\ queue' = <<>>
  /\ pending' = [p \in PutPaths |-> "none"]

RejectCommits ==
  /\ commit' = [c \in Commits |->
       IF c \in ToSet(barrier) THEN [commit[c] EXCEPT !.pc = "failed"] ELSE commit[c]]
  /\ barrier' = <<>>

\* fail: the first failure rejects everything and closes the socket.
FailAs(next) ==
  /\ phase' = next
  /\ RejectCommits
  /\ IF Ended THEN UNCHANGED <<put, queue, pending>> ELSE CloseStore
  /\ UNCHANGED inFlight
Fail == FailAs(IF phase = "closed" THEN "closed" ELSE "closing")

\* The user cancels the operation.
Cancel ==
  /\ ~Ended
  /\ FailAs("closing")
  /\ UNCHANGED <<incoming, handling, durable, overlook, socket, liveFaults>>

\* The runtime is done with the session; commits are left to their timeouts.
Close ==
  /\ ~Ended
  /\ phase' = "closing"
  /\ CloseStore
  /\ UNCHANGED <<inFlight, commit, barrier, incoming, handling, durable, overlook, socket, liveFaults>>

\* The socket is closed, as asked for or by Overlook; no message comes any more.
SocketCloses ==
  /\ phase # "closed"
  /\ IF phase = "closing" THEN phase' = "closed" /\ UNCHANGED <<put, queue, inFlight, pending, commit, barrier>>
                          ELSE FailAs("closed")
  /\ socket' = <<>> /\ arrived' = {} /\ asked' = <<>>
  /\ UNCHANGED <<incoming, handling, durable, kept, sends, liveFaults>>

\* The handshake: the socket opens, the capability is redeemed, the operation confirmed.
Advance ==
  /\ phase \in {"connecting", "redeeming", "opening"}
  /\ phase' = CASE phase = "connecting" -> "redeeming"
                [] phase = "redeeming" -> "opening"
                [] phase = "opening" -> "connected"
  /\ UNCHANGED <<put, queue, inFlight, pending, commit, barrier, incoming, handling, durable, overlook, socket, liveFaults>>

\* A deadline of the handshake passes, or Overlook's answer is not the one expected.
HandshakeFails ==
  /\ phase \in {"connecting", "redeeming", "opening"}
  /\ Fail
  /\ UNCHANGED <<incoming, handling, durable, overlook, socket, liveFaults>>

-------------------------------------------------------------------------------
(* put                                                                     *)

PutAt(u, pc) == put' = [put EXCEPT ![u].pc = pc]

BytesOfPuts(us) == Total([u \in us |-> PutBytes[u]])

\* Mutant: whoever finds any room is let in.
DrainedWhileRoom(waiting, held) ==
  CHOOSE n \in 0..Len(waiting) :
    /\ n > 0 => held + BytesOfPuts(ToSet(SubSeq(waiting, 1, n - 1))) < MaxInFlight
    /\ n < Len(waiting) => held + BytesOfPuts(ToSet(SubSeq(waiting, 1, n))) >= MaxInFlight

\* drain: those at the front of the queue that fit into the window, none overtaken.
Drained(waiting, held) ==
  CHOOSE n \in 0..Len(waiting) :
    /\ held + BytesOfPuts(ToSet(SubSeq(waiting, 1, n))) <= MaxInFlight
    /\ n < Len(waiting) => held + BytesOfPuts(ToSet(SubSeq(waiting, 1, n + 1))) > MaxInFlight

Grant(waiting, held, puts) ==
  LET n == Drained(waiting, held)
      granted == ToSet(SubSeq(waiting, 1, n))
  IN /\ queue' = SubSeq(waiting, n + 1, Len(waiting))
     /\ inFlight' = held + BytesOfPuts(granted)
     /\ put' = [u \in Puts |-> IF u \in granted THEN [puts[u] EXCEPT !.pc = "granted"] ELSE puts[u]]

Put(u) ==
  /\ put[u].pc = "rest" /\ Open
  /\ pending[PutPath[u]] = "none"
  /\ Grant(Append(queue, u), inFlight, [put EXCEPT ![u].pc = "waiting"])
  /\ UNCHANGED <<phase, pending, commit, barrier, incoming, handling, durable, overlook, socket, liveFaults>>

\* Mutant: nobody is let in.
ReleaseOnly(u, pc) ==
  /\ inFlight' = inFlight - PutBytes[u]
  /\ put' = [put EXCEPT ![u].pc = pc]
  /\ UNCHANGED queue

\* finally: the window is released, which may let others in.
Release(u, pc) == Grant(queue, inFlight - PutBytes[u], [put EXCEPT ![u].pc = pc])

\* The digest is there: the promise is registered, and the first frame is encoded
\* unless the session has closed meanwhile.
Register(u) ==
  /\ put[u].pc = "granted"
  /\ IF Ended THEN Release(u, "failed") /\ UNCHANGED pending
     ELSE /\ pending' = [pending EXCEPT ![PutPath[u]] = u]
          /\ put' = [put EXCEPT ![u] = [pc |-> "sending", promise |-> "open"]]
          /\ UNCHANGED <<queue, inFlight>>
  /\ UNCHANGED <<phase, commit, barrier, incoming, handling, durable, overlook, socket, liveFaults>>

\* The last frame is sent, or a frame finds the session closed.
Send(u) ==
  /\ put[u].pc = "sending"
  /\ IF Ended
     THEN /\ Release(u, "failed")
          /\ pending' = [pending EXCEPT ![PutPath[u]] = "none"]
          /\ UNCHANGED arrived
     ELSE /\ PutAt(u, "awaiting") /\ arrived' = arrived \cup {u}
          /\ UNCHANGED <<queue, inFlight, pending>>
  /\ UNCHANGED <<phase, commit, barrier, incoming, handling, durable, kept, asked, sends, socket, liveFaults>>

Finish(u) ==
  /\ put[u].pc = "awaiting" /\ put[u].promise # "open"
  /\ Release(u, IF put[u].promise = "resolved" THEN "done" ELSE "failed")
  /\ UNCHANGED <<phase, pending, commit, barrier, incoming, handling, durable, overlook, socket, liveFaults>>

-------------------------------------------------------------------------------
(* commit                                                                  *)

Commit(c) ==
  /\ commit[c].pc = "rest" /\ Open
  /\ commit' = [commit EXCEPT ![c].pc = "waiting"]
  /\ barrier' = Append(barrier, c)
  /\ asked' = Append(asked, c)
  /\ UNCHANGED <<phase, put, queue, inFlight, pending, incoming, handling, durable, arrived, kept, sends, socket, liveFaults>>

\* Mutant: a commit that gives up leaves the session open.
CommitGivesUp(c) ==
  /\ commit[c].pc = "waiting"
  /\ commit' = [commit EXCEPT ![c].pc = "failed"]
  /\ barrier' = Filter(barrier, LAMBDA b : b # c)
  /\ UNCHANGED <<phase, put, queue, inFlight, pending, incoming, handling, durable, overlook, socket, liveFaults>>

\* Its time is up: the session fails with it.
CommitTimesOut(c) ==
  /\ commit[c].pc = "waiting"
  /\ Fail
  /\ UNCHANGED <<incoming, handling, durable, overlook, socket, liveFaults>>

-------------------------------------------------------------------------------
(* Messages are handled one after the other, each with all it awaits.      *)

NextMessage(type) == handling = NoMessage /\ socket # <<>> /\ Head(socket).type = type

HandleAck ==
  LET path == Head(socket).path
  IN /\ NextMessage("ack") /\ socket' = Tail(socket)
     /\ IF ~Open \/ pending[path] = "none" THEN Fail
        ELSE /\ put' = [put EXCEPT ![pending[path]].promise = "resolved"]
             /\ pending' = [pending EXCEPT ![path] = "none"]
             /\ UNCHANGED <<phase, queue, inFlight, commit, barrier>>
     /\ UNCHANGED <<incoming, handling, durable, overlook, liveFaults>>

HandleResult ==
  /\ NextMessage("result") /\ socket' = Tail(socket)
  /\ IF ~Open THEN Fail
     ELSE /\ IF barrier = <<>> THEN UNCHANGED <<commit, barrier>>
             ELSE /\ commit' = [commit EXCEPT ![Head(barrier)] =
                       [pc |-> "done", result |-> [of |-> Head(socket).of, after |-> Head(socket).after]]]
                  /\ barrier' = Tail(barrier)
          /\ UNCHANGED <<phase, put, queue, inFlight, pending>>
  /\ UNCHANGED <<incoming, handling, durable, overlook, liveFaults>>

\* A frame: the repository is asked whether its object is there already.
HandleFrame ==
  /\ NextMessage("frame") /\ socket' = Tail(socket)
  /\ IF Open THEN /\ handling' = [Head(socket) EXCEPT !.type = "verify"]
                  /\ UNCHANGED session
             ELSE Fail /\ UNCHANGED handling
  /\ UNCHANGED <<incoming, durable, overlook, liveFaults>>

\* The last missing frame makes the object, which goes to the repository.
KeepFrame ==
  LET path == handling.path
      frames == incoming[path] \cup {handling.index}
  IN /\ handling.type = "verify"
     /\ IF path \in durable
        THEN /\ handling' = NoMessage
             /\ UNCHANGED incoming
             /\ IF Open THEN UNCHANGED session ELSE Fail  \* it cannot be acknowledged again
        ELSE /\ incoming' = [incoming EXCEPT ![path] = frames]
             /\ handling' = IF frames = 1..Frames THEN [handling EXCEPT !.type = "store"] ELSE NoMessage
             /\ UNCHANGED session
     /\ UNCHANGED <<durable, overlook, socket, liveFaults>>

StoreObject ==
  /\ handling.type = "store" /\ handling' = NoMessage
  /\ \/ /\ durable' = durable \cup {handling.path}
        /\ incoming' = [incoming EXCEPT ![handling.path] = {}]
        /\ IF Open THEN UNCHANGED session ELSE Fail  \* nor acknowledged
        /\ UNCHANGED liveFaults
     \/ /\ liveFaults < MaxLiveFaults /\ liveFaults' = liveFaults + 1
        /\ Fail
        /\ UNCHANGED <<durable, incoming>>
  /\ UNCHANGED <<overlook, socket>>

-------------------------------------------------------------------------------
(* Overlook                                                                *)

OverlookKeeps(u) ==
  /\ u \in arrived /\ arrived' = arrived \ {u}
  /\ kept' = kept \cup {u}
  /\ socket' = Append(socket, [type |-> "ack", path |-> PutPath[u]])
  /\ UNCHANGED <<session, incoming, handling, durable, asked, sends, liveFaults>>

SentObjects == durable \cup {p \in Staged : incoming[p] # {}}
                 \cup {socket[i].path : i \in {j \in DOMAIN socket : socket[j].type = "frame"}}
                 \cup (IF handling = NoMessage THEN {} ELSE {handling.path})

OverlookSends(path) ==
  /\ Open /\ sends < MaxSends /\ sends' = sends + 1
  /\ socket' = socket \o [i \in 1..Frames |-> [type |-> "frame", path |-> path, index |-> i]]
  /\ UNCHANGED <<session, incoming, handling, durable, arrived, kept, asked, liveFaults>>

OverlookAnswers ==
  /\ asked # <<>> /\ asked' = Tail(asked)
  /\ socket' = Append(socket, [type |-> "result", of |-> Head(asked), after |-> SentObjects])
  /\ UNCHANGED <<session, incoming, handling, durable, arrived, kept, sends, liveFaults>>

LlNext ==
  \/ Advance \/ HandshakeFails \/ Cancel \/ Close \/ SocketCloses
  \/ \E u \in Puts : Put(u) \/ Register(u) \/ Send(u) \/ Finish(u)
  \/ \E c \in Commits : Commit(c) \/ CommitTimesOut(c)
  \/ HandleAck \/ HandleResult \/ HandleFrame \/ KeepFrame \/ StoreObject
  \/ \E u \in Puts : OverlookKeeps(u)
  \/ \E p \in Staged : OverlookSends(p)
  \/ OverlookAnswers

LlSpec == LlInit /\ [][LlNext]_llVars

-------------------------------------------------------------------------------
(* Properties                                                              *)

\* A commit that returns has its own result, not the late one of a commit that gave
\* up before it, and finds every object that Overlook sent ahead of this result in
\* the repository, so that the journal's scan does not run ahead of them.
CommitGetsItsResult ==
  \A c \in Commits :
    commit[c].pc = "done" => commit[c].result.of = c /\ commit[c].result.after \subseteq durable

\* No put is forgotten, whatever is acknowledged, cancelled or closed meanwhile: one
\* that waits is in the window's queue, the acknowledgement it awaits will find it,
\* nobody waits for a window that has room, and one that returns is kept by Overlook.
PutsAreAnswered ==
  /\ \A u \in Puts :
       /\ put[u].pc = "waiting" => u \in ToSet(queue)
       /\ put[u].pc \in {"sending", "awaiting"} /\ put[u].promise = "open" =>
            pending[PutPath[u]] = u /\ ~Ended
       /\ put[u].pc = "done" => u \in kept
  /\ inFlight = BytesOfPuts({u \in Puts : put[u].pc \in {"granted", "sending", "awaiting"}})
  /\ queue # <<>> => inFlight + PutBytes[Head(queue)] > MaxInFlight /\ ~Ended
===============================================================================
