------------------------------- MODULE MCExchange -------------------------------
(***************************************************************************)
(* Instances for TLC of the parts that exchange data with others: the      *)
(* two libraries that merge each other's snapshots, the library's Sync     *)
(* journal and Move protocol, the encrypted transport and the live         *)
(* session.  They share no variable, so a behaviour exercises one part and *)
(* the others stay at one initial state.                                   *)
(***************************************************************************)
EXTENDS SyncConvergence, SyncJournal, MoveProtocol, Transport, LiveLocal, TLC

CONSTANTS Parts, Calls

VARIABLE part

vars == <<part, scVars, sjVars, mpVars, trVars, llVars>>

Symmetry == Permutations(Calls)

RestingProtocol == MpInit /\ pin = [i \in PinIds |-> NoPin]
RestingTransport == TrInit /\ content = [u \in Uploads |-> CHOOSE c \in Contents : TRUE]

Init ==
  /\ part \in Parts
  /\ IF part = "move" THEN MpInit ELSE RestingProtocol
  /\ IF part = "transport" THEN TrInit ELSE RestingTransport
  /\ ScInit /\ SjInit /\ LlInit

Next ==
  /\ UNCHANGED part
  /\ \/ part = "convergence" /\ ScNext /\ UNCHANGED <<sjVars, mpVars, trVars, llVars>>
     \/ part = "journal" /\ SjNext /\ UNCHANGED <<scVars, mpVars, trVars, llVars>>
     \/ part = "move" /\ MpNext /\ UNCHANGED <<scVars, sjVars, trVars, llVars>>
     \/ part = "transport" /\ TrNext /\ UNCHANGED <<scVars, sjVars, mpVars, llVars>>
     \/ part = "live" /\ LlNext /\ UNCHANGED <<scVars, sjVars, mpVars, trVars>>

Spec == Init /\ [][Next]_vars

\* The part that a behaviour exercises keeps the types of its state: sessions and
\* items, requests, answers and pins, chunks and manifests, the window, the promises
\* and the socket.  (Those of the two libraries are proved: ConvergenceTypeCorrect.)
TypeOK ==
  /\ part = "journal" => SjTypeOK
  /\ part = "move" => MpTypeOK
  /\ part = "transport" => TrTypeOK
  /\ part = "live" => LlTypeOK

-------------------------------------------------------------------------------
\* Sync: two messages of one record.  The first conflicts with the library and is
\* a deletion; the second is what the library has, or undoes a deletion.
OneRecord == [m \in Messages |-> "record"]
Analysis(category, conflicts, tombstone) ==
  [category |-> category, conflicts |-> conflicts, tombstone |-> tombstone]
TwoAnalyses ==
  "first" :> {Analysis("conflict", {"title"}, TRUE)}
    @@ "second" :> {Analysis("duplicate", {}, FALSE), Analysis("eligible", {}, TRUE)}

\* Move: one request, of a record with an original.
OneRequest == [m \in MoveRequests |-> "record"]
OneTransfer == [m \in MoveRequests |-> "transfer"]
Eligible == [m \in MoveRequests |-> "eligible"]
Available == "record" :> "available"

\* Transport: ciphertexts that share a chunk, and a shorter one.
OnePath == [x \in Uploads \cup Downloads |-> "path"]
ThreeContents == {<<"a", "a">>, <<"a", "b">>, <<"b">>}

\* Live session: two puts that do not fit into the window together.
PathOfPut == "blob" :> "blob path" @@ "record" :> "record path"
BytesOfPut == "blob" :> 2 @@ "record" :> 1
===============================================================================
