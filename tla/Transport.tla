-------------------------------- MODULE Transport --------------------------------
(***************************************************************************)
(* The encrypted transport over a provider's object store                  *)
(* (core/interop/transport.ts).  An upload puts the chunks of a ciphertext *)
(* one by one, verifying each, and then a manifest of their digests; a     *)
(* download gets the manifest and then the chunks, verifying each.  A      *)
(* provider request is one step; uploads and downloads overlap.            *)
(*                                                                         *)
(* A chunk and its digest are one value: a manifest is the sequence of the *)
(* chunks it names.                                                        *)
(***************************************************************************)
EXTENDS Integers, Sequences

CONSTANTS
  Uploads, Downloads, Paths,
  PathOf,    \* the path that an upload writes or a download reads
  Contents,  \* ciphertexts: sequences of chunks
  MaxChunks, \* the length of the longest
  MaxTransportFaults \* bound: requests that fail, and stops

NoChunk == "none"
NoManifest == <<>>
Chunks == UNION {{c[i] : i \in DOMAIN c} : c \in Contents}

ASSUME PathOfAssumption == PathOf \in [Uploads \cup Downloads -> Paths]
ASSUME ContentsAssumption ==
  /\ MaxChunks \in Nat
  /\ \A c \in Contents : /\ c \in Seq(Chunks) /\ Len(c) \in 1..MaxChunks
                         /\ NoChunk \notin {c[i] : i \in DOMAIN c}
ASSUME TransportFaultsAssumption == MaxTransportFaults \in Nat

VARIABLES
  content,   \* content[u]: what an upload writes; a caller that retries keeps it
  chunk,     \* chunk[p][i]: the object at the i-th chunk's key
  manifest,  \* manifest[p]: the chunks that the manifest names
  upload,    \* upload[u]: program counter and chunk number
  download,  \* download[d]: program counter, its manifest, the chunks it has got
  transportFaults

trVars == <<content, chunk, manifest, upload, download, transportFaults>>

TrTypeOK ==
  /\ content \in [Uploads -> Contents]
  /\ chunk \in [Paths -> [1..MaxChunks -> Chunks \cup {NoChunk}]]
  /\ manifest \in [Paths -> Contents \cup {NoManifest}]
  /\ upload \in [Uploads ->
       [pc: {"rest", "check", "put", "verify", "manifest", "confirm", "done"}, at: 1..MaxChunks]]
  /\ download \in [Downloads ->
       [pc: {"rest", "get", "returned"}, manifest: Contents \cup {NoManifest}, output: Seq(Chunks)]]
  /\ transportFaults \in 0..MaxTransportFaults

NoUpload == [pc |-> "rest", at |-> 1]
NoDownload == [pc |-> "rest", manifest |-> NoManifest, output |-> <<>>]

TrInit ==
  /\ content \in [Uploads -> Contents]
  /\ chunk = [p \in Paths |-> [i \in 1..MaxChunks |-> NoChunk]]
  /\ manifest = [p \in Paths |-> NoManifest]
  /\ upload = [u \in Uploads |-> NoUpload]
  /\ download = [d \in Downloads |-> NoDownload]
  /\ transportFaults = 0

-------------------------------------------------------------------------------
UploadAt(u, pc) == upload' = [upload EXCEPT ![u].pc = pc]
UploadFails(u) == upload' = [upload EXCEPT ![u] = NoUpload]

\* The provider holds the chunk that the upload is at.
HasChunk(u) == chunk[PathOf[u]][upload[u].at] = content[u][upload[u].at]

\* Mutant: the last chunk is left out.
NextButLast(u) ==
  IF upload[u].at + 1 < Len(content[u])
  THEN upload' = [upload EXCEPT ![u] = [pc |-> "check", at |-> @.at + 1]]
  ELSE UploadAt(u, "manifest")

\* To the next chunk, or after the last one to the manifest.
NextChunk(u) ==
  IF upload[u].at < Len(content[u])
  THEN upload' = [upload EXCEPT ![u] = [pc |-> "check", at |-> @.at + 1]]
  ELSE UploadAt(u, "manifest")

StartUpload(u) ==
  /\ upload[u].pc = "rest"
  /\ UploadAt(u, "check")
  /\ UNCHANGED <<content, chunk, manifest, download, transportFaults>>

\* A chunk that is there already is not put again.
CheckChunk(u) ==
  /\ upload[u].pc = "check"
  /\ IF HasChunk(u) THEN NextChunk(u) ELSE UploadAt(u, "put")
  /\ UNCHANGED <<content, chunk, manifest, download, transportFaults>>

PutChunk(u) ==
  /\ upload[u].pc = "put"
  /\ chunk' = [chunk EXCEPT ![PathOf[u]][upload[u].at] = content[u][upload[u].at]]
  /\ UploadAt(u, "verify")
  /\ UNCHANGED <<content, manifest, download, transportFaults>>

VerifyChunk(u) ==
  /\ upload[u].pc = "verify"
  /\ IF HasChunk(u) THEN NextChunk(u) ELSE UploadFails(u)
  /\ UNCHANGED <<content, chunk, manifest, download, transportFaults>>

PutManifest(u) ==
  /\ upload[u].pc = "manifest"
  /\ manifest' = [manifest EXCEPT ![PathOf[u]] = content[u]]
  /\ UploadAt(u, "confirm")
  /\ UNCHANGED <<content, chunk, download, transportFaults>>

ConfirmManifest(u) ==
  /\ upload[u].pc = "confirm"
  /\ IF manifest[PathOf[u]] = content[u] THEN UploadAt(u, "done") ELSE UploadFails(u)
  /\ UNCHANGED <<content, chunk, manifest, download, transportFaults>>

\* A request fails, or the worker stops; the caller may begin again.
UploadFault(u) ==
  /\ upload[u].pc \notin {"rest", "done"}
  /\ transportFaults < MaxTransportFaults /\ transportFaults' = transportFaults + 1
  /\ UploadFails(u)
  /\ UNCHANGED <<content, chunk, manifest, download>>

-------------------------------------------------------------------------------
DownloadFails(d) == download' = [download EXCEPT ![d] = NoDownload]

GetManifest(d) ==
  /\ download[d].pc = "rest"
  /\ manifest[PathOf[d]] # NoManifest
  /\ download' = [download EXCEPT ![d] =
       [pc |-> "get", manifest |-> manifest[PathOf[d]], output |-> <<>>]]
  /\ UNCHANGED <<content, chunk, manifest, upload, transportFaults>>

\* Mutant: lengths are compared only.
VerifiedLength(output, named) == Len(output) <= Len(named)

\* The digests agree with the manifest, of a chunk and of the whole.
Verified(output, named) == \A i \in 1..Len(output) : output[i] = named[i]

GetChunk(d) ==
  LET named == download[d].manifest
      output == Append(download[d].output, chunk[PathOf[d]][Len(download[d].output) + 1])
  IN /\ download[d].pc = "get"
     /\ Len(download[d].output) < Len(named)
     /\ IF Verified(output, named) THEN download' = [download EXCEPT ![d].output = output]
                                   ELSE DownloadFails(d)
     /\ UNCHANGED <<content, chunk, manifest, upload, transportFaults>>

ReturnOutput(d) ==
  LET named == download[d].manifest
  IN /\ download[d].pc = "get"
     /\ Len(download[d].output) = Len(named)
     /\ IF Verified(download[d].output, named) THEN download' = [download EXCEPT ![d].pc = "returned"]
                                               ELSE DownloadFails(d)
     /\ UNCHANGED <<content, chunk, manifest, upload, transportFaults>>

DownloadFault(d) ==
  /\ download[d].pc = "get"
  /\ transportFaults < MaxTransportFaults /\ transportFaults' = transportFaults + 1
  /\ DownloadFails(d)
  /\ UNCHANGED <<content, chunk, manifest, upload>>

UploadStep(u) ==
  StartUpload(u) \/ CheckChunk(u) \/ PutChunk(u) \/ VerifyChunk(u) \/ PutManifest(u) \/ ConfirmManifest(u)
DownloadStep(d) == GetManifest(d) \/ GetChunk(d) \/ ReturnOutput(d)

TrNext ==
  \/ \E u \in Uploads : UploadStep(u) \/ UploadFault(u)
  \/ \E d \in Downloads : DownloadStep(d) \/ DownloadFault(d)

TrSpec == TrInit /\ [][TrNext]_trVars

-------------------------------------------------------------------------------
(* Properties                                                              *)

\* What a reader of whole objects has found, or returned, of a download.
Reading(x) ==
  CASE x.pc = "rest" -> [state |-> "none", content |-> <<>>]
    [] x.pc = "get" -> [state |-> "found", content |-> x.manifest]
    [] x.pc = "returned" -> [state |-> "returned", content |-> x.output]

Whole == INSTANCE WholeObjects WITH
  Readers <- Downloads,
  PathRead <- [d \in Downloads |-> PathOf[d]],
  object <- manifest,
  reading <- [d \in Downloads |-> Reading(download[d])]

\* To its callers the transport is one object for each path: the object changes when
\* a manifest is put, and a download that returns, returns what was there when it
\* got the manifest, never a mixture of two uploads.
ImplementsWholeObjects == Whole!WoSpec

\* While all uploads of a path write the same ciphertext, as those of an outbox row
\* do, a manifest that is there can be downloaded, whatever uploads overlap, fail
\* or begin again.
PublishedIsReadable ==
  \A p \in Paths :
    /\ \A u, w \in Uploads : PathOf[u] = p /\ PathOf[w] = p => content[u] = content[w]
    => \A i \in 1..Len(manifest[p]) : chunk[p][i] = manifest[p][i]
===============================================================================
