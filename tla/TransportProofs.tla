----------------------------- MODULE TransportProofs -----------------------------
(***************************************************************************)
(* Proofs about the transports of an exchange.  The encrypted one: its     *)
(* types, that it implements one object for each path, and that what is    *)
(* published can be read.  The live one: its types, that no put is         *)
(* forgotten, and that a commit has its own result.                        *)
(***************************************************************************)
EXTENDS Transport, LiveLocal, ArrayProofs

\* An upload is at a chunk of its ciphertext.
AtChunk == \A u \in Uploads : upload[u].at <= Len(content[u])

\* A download has got chunks of the manifest it began with, and all when it returns.
OutputVerified ==
  \A d \in Downloads :
    /\ download[d].pc # "rest" => /\ download[d].manifest # NoManifest
                                  /\ Len(download[d].output) <= Len(download[d].manifest)
                                  /\ Verified(download[d].output, download[d].manifest)
    /\ download[d].pc = "returned" => download[d].output = download[d].manifest

TransportInv == TrTypeOK /\ AtChunk /\ OutputVerified

\* Every chunk of a ciphertext is a chunk.
LEMMA ContentChunks ==
  ASSUME NEW c \in Contents
  PROVE  /\ c \in Seq(Chunks) /\ Len(c) \in 1..MaxChunks /\ Len(c) \in Nat
         /\ \A i \in 1..Len(c) : c[i] \in Chunks
  <1>1. c \in Seq(Chunks) /\ Len(c) \in 1..MaxChunks
    BY ContentsAssumption
  <1>2. \A i \in 1..Len(c) : c[i] \in Chunks
    BY <1>1
  <1> QED
    BY <1>1, <1>2, ContentsAssumption

LEMMA TransportInitially == TrInit => TransportInv
  <1> SUFFICES ASSUME TrInit PROVE TransportInv
    OBVIOUS
  <1>1. 1 \in 1..MaxChunks \/ Uploads = {}
    <2>1. ASSUME NEW u \in Uploads PROVE 1 \in 1..MaxChunks
      <3>1. content[u] \in Contents
        BY DEF TrInit
      <3> QED
        BY <3>1, ContentChunks, ContentsAssumption
    <2> QED
      BY <2>1
  <1>2. AtChunk
    <2> SUFFICES ASSUME NEW u \in Uploads PROVE upload[u].at <= Len(content[u])
      BY DEF AtChunk
    <2>1. content[u] \in Contents /\ upload[u].at = 1
      BY DEF TrInit, NoUpload
    <2> QED
      BY <2>1, ContentChunks, ContentsAssumption
  <1>3. OutputVerified
    BY DEF TrInit, OutputVerified, NoDownload
  <1>4. upload \in [Uploads ->
          [pc: {"rest", "check", "put", "verify", "manifest", "confirm", "done"}, at: 1..MaxChunks]]
    BY <1>1 DEF TrInit, NoUpload
  <1>5. download \in [Downloads ->
          [pc: {"rest", "get", "returned"}, manifest: Contents \cup {NoManifest}, output: Seq(Chunks)]]
    <2>1. NoDownload \in [pc: {"rest", "get", "returned"}, manifest: Contents \cup {NoManifest}, output: Seq(Chunks)]
      BY DEF NoDownload
    <2> QED
      BY <2>1 DEF TrInit
  <1>6. /\ chunk \in [Paths -> [1..MaxChunks -> Chunks \cup {NoChunk}]]
        /\ manifest \in [Paths -> Contents \cup {NoManifest}]
        /\ content \in [Uploads -> Contents]
        /\ transportFaults \in 0..MaxTransportFaults
    BY TransportFaultsAssumption DEF TrInit
  <1> QED
    BY <1>2, <1>3, <1>4, <1>5, <1>6 DEF TransportInv, TrTypeOK

-------------------------------------------------------------------------------
(* Uploads                                                                 *)

UploadPc == {"rest", "check", "put", "verify", "manifest", "confirm", "done"}

\* However an upload moves, it stays at a chunk of its ciphertext.
LEMMA UploadMoves ==
  ASSUME TransportInv, NEW u \in Uploads, UNCHANGED content,
         \/ \E pc \in UploadPc : UploadAt(u, pc)
         \/ NextChunk(u)
         \/ UploadFails(u)
  PROVE  upload' \in [Uploads -> [pc: UploadPc, at: 1..MaxChunks]] /\ AtChunk'
  <1> USE DEF TransportInv, TrTypeOK
  <1>1. content[u] \in Contents /\ upload[u].at \in 1..MaxChunks /\ upload[u].at <= Len(content[u])
    BY DEF AtChunk
  <1>2. Len(content[u]) \in 1..MaxChunks
    BY <1>1, ContentChunks
  <1>3. ASSUME NEW pc \in UploadPc, UploadAt(u, pc) PROVE upload' \in [Uploads -> [pc: UploadPc, at: 1..MaxChunks]] /\ AtChunk'
    BY <1>3 DEF UploadAt, AtChunk, UploadPc
  <1>4. ASSUME UploadFails(u) PROVE upload' \in [Uploads -> [pc: UploadPc, at: 1..MaxChunks]] /\ AtChunk'
    BY <1>1, <1>2, <1>4, ContentsAssumption DEF UploadFails, NoUpload, AtChunk, UploadPc
  <1>5. ASSUME NextChunk(u) PROVE upload' \in [Uploads -> [pc: UploadPc, at: 1..MaxChunks]] /\ AtChunk'
    <2>1. CASE upload[u].at < Len(content[u])
      <3>1. upload[u].at + 1 \in 1..MaxChunks /\ upload[u].at + 1 <= Len(content[u])
        BY <1>1, <1>2, <2>1, ContentsAssumption
      <3>2. upload' = [upload EXCEPT ![u] = [pc |-> "check", at |-> upload[u].at + 1]]
        BY <1>5, <2>1 DEF NextChunk
      <3> QED
        BY <3>1, <3>2 DEF AtChunk, UploadPc
    <2>2. CASE ~(upload[u].at < Len(content[u]))
      BY <1>3, <1>5, <2>2 DEF NextChunk, UploadPc
    <2> QED
      BY <2>1, <2>2
  <1> QED
    BY <1>3, <1>4, <1>5

\* What a step of an upload leaves alone, and how it moves.
LEMMA UploadStepMoves ==
  ASSUME NEW u \in Uploads, UploadStep(u) \/ UploadFault(u)
  PROVE  /\ UNCHANGED <<content, download>>
         /\ (\E pc \in UploadPc : UploadAt(u, pc)) \/ NextChunk(u) \/ UploadFails(u)
         /\ UNCHANGED chunk \/ PutChunk(u)
         /\ UNCHANGED manifest \/ PutManifest(u)
  BY DEF UploadStep, UploadFault, StartUpload, CheckChunk, PutChunk, VerifyChunk, PutManifest,
         ConfirmManifest, UploadPc

\* The invariant is kept by every step of an upload.
LEMMA UploadKeeps ==
  ASSUME TransportInv, NEW u \in Uploads, UploadStep(u) \/ UploadFault(u)
  PROVE  TransportInv'
  <1>1. upload' \in [Uploads -> [pc: UploadPc, at: 1..MaxChunks]] /\ AtChunk'
    BY UploadStepMoves, UploadMoves
  <1>2. content[u] \in Contents /\ upload[u].at \in 1..Len(content[u]) /\ PathOf[u] \in Paths
    BY ContentChunks, PathOfAssumption DEF TransportInv, TrTypeOK, AtChunk
  <1>3. chunk' \in [Paths -> [1..MaxChunks -> Chunks \cup {NoChunk}]]
    <2>1. CASE UNCHANGED chunk
      BY <2>1 DEF TransportInv, TrTypeOK
    <2>2. CASE PutChunk(u)
      <3>1. content[u][upload[u].at] \in Chunks
        BY <1>2, ContentChunks
      <3> QED
        BY <2>2, <3>1, <1>2 DEF PutChunk, TransportInv, TrTypeOK
    <2> QED
      BY <2>1, <2>2, UploadStepMoves
  <1>4. manifest' \in [Paths -> Contents \cup {NoManifest}]
    BY <1>2, UploadStepMoves DEF PutManifest, TransportInv, TrTypeOK
  <1>5. OutputVerified'
    BY UploadStepMoves DEF OutputVerified, TransportInv, Verified
  <1>6. transportFaults' \in 0..MaxTransportFaults
    BY TransportFaultsAssumption DEF TransportInv, TrTypeOK, UploadStep, UploadFault, StartUpload, CheckChunk, PutChunk,
       VerifyChunk, PutManifest, ConfirmManifest
  <1> QED
    BY <1>1, <1>3, <1>4, <1>5, <1>6, UploadStepMoves DEF TransportInv, TrTypeOK, UploadPc

-------------------------------------------------------------------------------
(* Downloads                                                               *)

DownloadType == [pc: {"rest", "get", "returned"}, manifest: Contents \cup {NoManifest}, output: Seq(Chunks)]

\* What the invariant says of one download.
LEMMA DownloadFacts ==
  ASSUME TransportInv, NEW d \in Downloads, download[d].pc # "rest"
  PROVE  /\ download[d] \in DownloadType
         /\ download[d].manifest \in Contents
         /\ download[d].manifest \in Seq(Chunks)
         /\ Len(download[d].output) \in Nat /\ Len(download[d].manifest) \in Nat
         /\ Verified(download[d].output, download[d].manifest)
         /\ Len(download[d].output) <= Len(download[d].manifest)
  <1>1. download[d] \in DownloadType /\ download[d].manifest \in Contents
    BY DEF TransportInv, TrTypeOK, OutputVerified, DownloadType
  <1> QED
    BY <1>1, ContentChunks DEF TransportInv, OutputVerified, DownloadType

\* A chunk that is verified is the chunk the manifest names.
LEMMA ChunkVerified ==
  ASSUME TransportInv, NEW d \in Downloads, GetChunk(d),
         NEW output, output = Append(download[d].output, chunk[PathOf[d]][Len(download[d].output) + 1]),
         Verified(output, download[d].manifest)
  PROVE  output \in Seq(Chunks) /\ Len(output) <= Len(download[d].manifest)
  <1>1. /\ download[d].manifest \in Contents /\ download[d].output \in Seq(Chunks)
        /\ Len(download[d].output) < Len(download[d].manifest)
        /\ Len(download[d].output) \in Nat /\ Len(download[d].manifest) \in Nat
    BY DownloadFacts DEF GetChunk, DownloadType
  <1> DEFINE n == Len(download[d].output) + 1
             new == chunk[PathOf[d]][n]
  <1>2. Len(output) = n /\ output[n] = new
    BY <1>1
  <1>3. new = download[d].manifest[n]
    BY <1>1, <1>2 DEF Verified
  <1>4. new \in Chunks
    BY <1>1, <1>3, ContentChunks
  <1>5. output \in Seq(Chunks)
    BY <1>1, <1>4
  <1> QED
    BY <1>1, <1>2, <1>5

\* The invariant is kept by every step of a download.
LEMMA DownloadKeeps ==
  ASSUME TransportInv, NEW d \in Downloads, DownloadStep(d) \/ DownloadFault(d)
  PROVE  TransportInv'
  <1>1. UNCHANGED <<content, chunk, manifest, upload>>
    BY DEF DownloadStep, DownloadFault, GetManifest, GetChunk, ReturnOutput
  <1>2. transportFaults' \in 0..MaxTransportFaults
    BY TransportFaultsAssumption
       DEF TransportInv, TrTypeOK, DownloadStep, DownloadFault, GetManifest, GetChunk, ReturnOutput
  <1>3. AtChunk'
    BY <1>1 DEF TransportInv, AtChunk
  <1> DEFINE Sound(x) == /\ x.pc # "rest" => /\ x.manifest # NoManifest
                                             /\ Len(x.output) <= Len(x.manifest)
                                             /\ Verified(x.output, x.manifest)
                         /\ x.pc = "returned" => x.output = x.manifest
  <1>4. \E x \in DownloadType : download' = [download EXCEPT ![d] = x] /\ Sound(x)
    <2>1. CASE DownloadFails(d)
      <3>1. NoDownload \in DownloadType /\ Sound(NoDownload)
        BY DEF NoDownload, DownloadType
      <3> QED
        BY <2>1, <3>1 DEF DownloadFails
    <2>2. CASE GetManifest(d)
      <3> DEFINE x == [pc |-> "get", manifest |-> manifest[PathOf[d]], output |-> <<>>]
      <3>1. manifest[PathOf[d]] \in Contents
        BY <2>2, PathOfAssumption DEF GetManifest, TransportInv, TrTypeOK
      <3>2. x \in DownloadType
        BY <3>1 DEF DownloadType
      <3>3. Sound(x)
        BY <2>2, <3>1, ContentChunks DEF GetManifest, Verified
      <3> QED
        BY <2>2, <3>2, <3>3 DEF GetManifest
    <2>3. CASE GetChunk(d) /\ ~DownloadFails(d)
      <3> DEFINE output == Append(download[d].output, chunk[PathOf[d]][Len(download[d].output) + 1])
                 x == [download[d] EXCEPT !.output = output]
      <3>1. download[d].pc = "get" /\ Verified(output, download[d].manifest)
            /\ download' = [download EXCEPT ![d].output = output]
        BY <2>3 DEF GetChunk
      <3>2. output \in Seq(Chunks) /\ Len(output) <= Len(download[d].manifest)
        BY <2>3, <3>1, ChunkVerified
      <3>3. download[d] \in DownloadType /\ download[d].manifest \in Contents
        BY <3>1, DownloadFacts
      <3>4. x \in DownloadType /\ x.pc = "get" /\ x.output = output /\ x.manifest = download[d].manifest
        BY <3>1, <3>2, <3>3 DEF DownloadType
      <3>5. x.manifest # NoManifest
        BY <3>1, <3>4 DEF TransportInv, OutputVerified
      <3>6. Sound(x)
        BY <3>1, <3>2, <3>4, <3>5
      <3>7. download' = [download EXCEPT ![d] = x]
        BY <3>1 DEF TransportInv, TrTypeOK
      <3> QED
        BY <3>4, <3>6, <3>7
    <2>4. CASE ReturnOutput(d) /\ ~DownloadFails(d)
      <3> DEFINE x == [download[d] EXCEPT !.pc = "returned"]
      <3>1. /\ download[d].pc = "get" /\ Verified(download[d].output, download[d].manifest)
            /\ Len(download[d].output) = Len(download[d].manifest)
            /\ download' = [download EXCEPT ![d].pc = "returned"]
        BY <2>4 DEF ReturnOutput
      <3>2. /\ download[d] \in DownloadType /\ download[d].manifest \in Contents
            /\ download[d].manifest \in Seq(Chunks) /\ Len(download[d].output) \in Nat
        BY <3>1, DownloadFacts
      <3>3. download[d].output = download[d].manifest
        BY <3>1, <3>2 DEF Verified, DownloadType
      <3>4. x \in DownloadType /\ x.output = download[d].output /\ x.manifest = download[d].manifest
        BY <3>2 DEF DownloadType
      <3>5. x.manifest # NoManifest
        BY <3>1, <3>4 DEF TransportInv, OutputVerified
      <3>6. Sound(x)
        BY <3>1, <3>2, <3>3, <3>4, <3>5
      <3>7. download' = [download EXCEPT ![d] = x]
        BY <3>1 DEF TransportInv, TrTypeOK
      <3> QED
        BY <3>4, <3>6, <3>7
    <2>5. GetManifest(d) \/ GetChunk(d) \/ ReturnOutput(d) \/ DownloadFails(d)
      BY DEF DownloadStep, DownloadFault
    <2> QED
      BY <2>1, <2>2, <2>3, <2>4, <2>5
  <1>5. PICK x \in DownloadType : download' = [download EXCEPT ![d] = x] /\ Sound(x)
    BY <1>4
  <1>6. download \in [Downloads -> DownloadType]
    BY DEF TransportInv, TrTypeOK, DownloadType
  <1>7. download' \in [Downloads -> DownloadType]
    BY <1>5, <1>6
  <1>8. OutputVerified'
    <2> SUFFICES ASSUME NEW e \in Downloads PROVE Sound(download'[e])
      BY DEF OutputVerified
    <2>1. CASE e = d
      BY <1>5, <1>6, <2>1
    <2>2. CASE e # d
      <3>1. download'[e] = download[e]
        BY <1>5, <1>6, <2>2
      <3> QED
        BY <3>1 DEF TransportInv, OutputVerified
    <2> QED
      BY <2>1, <2>2
  <1> QED
    BY <1>1, <1>2, <1>3, <1>7, <1>8 DEF TransportInv, TrTypeOK, DownloadType

-------------------------------------------------------------------------------
(* Theorems                                                                *)

LEMMA TransportNext == TransportInv /\ [TrNext]_trVars => TransportInv'
  <1> SUFFICES ASSUME TransportInv, [TrNext]_trVars PROVE TransportInv'
    OBVIOUS
  <1>1. ASSUME NEW u \in Uploads, UploadStep(u) \/ UploadFault(u) PROVE TransportInv'
    BY <1>1, UploadKeeps
  <1>2. ASSUME NEW d \in Downloads, DownloadStep(d) \/ DownloadFault(d) PROVE TransportInv'
    BY <1>2, DownloadKeeps
  <1>3. CASE UNCHANGED trVars
    BY <1>3 DEF trVars, TransportInv, TrTypeOK, AtChunk, OutputVerified, Verified
  <1> QED
    BY <1>1, <1>2, <1>3 DEF TrNext

\* Uploads stay at a chunk of their ciphertext and downloads hold verified chunks,
\* whatever uploads and downloads of a path overlap.
THEOREM TransportInvariance == TrSpec => []TransportInv
  BY TransportInitially, TransportNext, PTL DEF TrSpec

\* Chunks, manifests, uploads and downloads keep their types.
THEOREM TransportTypeCorrect == TrSpec => []TrTypeOK
  <1>1. TransportInv => TrTypeOK
    BY DEF TransportInv
  <1> QED
    BY <1>1, TransportInvariance, PTL

-------------------------------------------------------------------------------
(* The transport is one object for each path.                              *)

Readings == [d \in Downloads |-> Reading(download[d])]

LEMMA ReadingValues ==
  ASSUME NEW x
  PROVE  /\ x.pc = "rest" => Reading(x) = [state |-> "none", content |-> <<>>]
         /\ x.pc = "get" => Reading(x) = [state |-> "found", content |-> x.manifest]
         /\ x.pc = "returned" => Reading(x) = [state |-> "returned", content |-> x.output]
  BY DEF Reading

\* A step of one download changes one reading.
LEMMA OneReading ==
  ASSUME TransportInv, NEW d \in Downloads, NEW x \in DownloadType,
         download' = [download EXCEPT ![d] = x]
  PROVE  Readings' = [Readings EXCEPT ![d] = Reading(x)]
  BY DEF Readings, TransportInv, TrTypeOK

LEMMA WholeInitially == TrInit => Whole!WoInit
  BY ReadingValues DEF TrInit, Whole!WoInit, Whole!NoObject, Whole!NotRead, NoManifest, NoDownload

\* The manifest's put is the one write; the rest of an upload is not seen.
LEMMA UploadIsWrite ==
  ASSUME TransportInv, NEW u \in Uploads, UploadStep(u) \/ UploadFault(u)
  PROVE  [Whole!WoNext]_(Whole!WoVars)
  <1>1. UNCHANGED <<content, download>> /\ (UNCHANGED manifest \/ PutManifest(u))
    BY UploadStepMoves
  <1>2. CASE UNCHANGED manifest
    BY <1>1, <1>2 DEF Whole!WoVars
  <1>3. CASE PutManifest(u)
    <2>1. PathOf[u] \in Paths /\ content[u] \in Contents
      BY PathOfAssumption DEF TransportInv, TrTypeOK
    <2>2. Whole!Write(PathOf[u])
      BY <1>1, <1>3, <2>1 DEF PutManifest, Whole!Write
    <2> QED
      BY <2>1, <2>2 DEF Whole!WoNext
  <1> QED
    BY <1>1, <1>2, <1>3

\* A download finds, delivers or gives up, or is not seen.
LEMMA DownloadIsRead ==
  ASSUME TransportInv, NEW d \in Downloads, DownloadStep(d) \/ DownloadFault(d)
  PROVE  [Whole!WoNext]_(Whole!WoVars)
  <1>1. UNCHANGED <<content, chunk, manifest, upload>>
    BY DEF DownloadStep, DownloadFault, GetManifest, GetChunk, ReturnOutput
  <1>2. download \in [Downloads -> DownloadType]
    BY DEF TransportInv, TrTypeOK, DownloadType
  <1>3. Readings[d] = Reading(download[d])
    BY DEF Readings
  <1>4. CASE DownloadFails(d)
    <2>1. NoDownload \in DownloadType /\ Reading(NoDownload) = Whole!NotRead
      BY ReadingValues DEF NoDownload, DownloadType, Whole!NotRead, Whole!NoObject
    <2>2. Readings' = [Readings EXCEPT ![d] = Whole!NotRead]
      BY <1>4, <2>1, OneReading DEF DownloadFails
    <2>3. Whole!GiveUp(d)
      BY <1>1, <2>2 DEF Whole!GiveUp, Readings
    <2> QED
      BY <2>3 DEF Whole!WoNext
  <1>5. CASE GetManifest(d)
    <2> DEFINE x == [pc |-> "get", manifest |-> manifest[PathOf[d]], output |-> <<>>]
               found == [state |-> "found", content |-> manifest[PathOf[d]]]
    <2>1. /\ download[d].pc = "rest" /\ manifest[PathOf[d]] # NoManifest
          /\ download' = [download EXCEPT ![d] = x]
      BY <1>5 DEF GetManifest
    <2>2. x \in DownloadType /\ Reading(x) = found
      BY PathOfAssumption, ReadingValues DEF DownloadType, TransportInv, TrTypeOK
    <2>3. Readings[d].state = "none"
      BY <1>3, <2>1, ReadingValues
    <2>4. Readings' = [Readings EXCEPT ![d] = found]
      BY <2>1, <2>2, OneReading
    <2>5. Whole!Find(d)
      BY <1>1, <2>1, <2>3, <2>4 DEF Whole!Find, Whole!NoObject, NoManifest, Readings
    <2> QED
      BY <2>5 DEF Whole!WoNext
  <1>6. CASE GetChunk(d) /\ ~DownloadFails(d)
    <2> DEFINE output == Append(download[d].output, chunk[PathOf[d]][Len(download[d].output) + 1])
               x == [download[d] EXCEPT !.output = output]
    <2>1. /\ download[d].pc = "get" /\ Verified(output, download[d].manifest)
          /\ download' = [download EXCEPT ![d].output = output]
      BY <1>6 DEF GetChunk
    <2>2. output \in Seq(Chunks)
      BY <1>6, <2>1, ChunkVerified
    <2>3. x \in DownloadType /\ x.pc = "get" /\ x.manifest = download[d].manifest
      BY <1>2, <2>1, <2>2 DEF DownloadType
    <2>4. download' = [download EXCEPT ![d] = x]
      BY <1>2, <2>1
    <2>5. Reading(x) = Readings[d]
      BY <1>3, <2>1, <2>3, ReadingValues
    <2>6. Readings' = Readings
      BY <2>3, <2>4, <2>5, OneReading DEF Readings
    <2> QED
      BY <1>1, <2>6 DEF Whole!WoVars, Readings
  <1>7. CASE ReturnOutput(d) /\ ~DownloadFails(d)
    <2> DEFINE x == [download[d] EXCEPT !.pc = "returned"]
    <2>1. /\ download[d].pc = "get" /\ Verified(download[d].output, download[d].manifest)
          /\ Len(download[d].output) = Len(download[d].manifest)
          /\ download' = [download EXCEPT ![d].pc = "returned"]
      BY <1>7 DEF ReturnOutput
    <2>2. download[d].output = download[d].manifest
      BY <2>1, DownloadFacts DEF Verified, DownloadType
    <2>3. x \in DownloadType /\ x.pc = "returned" /\ x.output = download[d].manifest
      BY <1>2, <2>2 DEF DownloadType
    <2>4. download' = [download EXCEPT ![d] = x]
      BY <1>2, <2>1
    <2>5. Readings[d] = [state |-> "found", content |-> download[d].manifest]
      BY <1>3, <2>1, ReadingValues
    <2>6. Reading(x) = [state |-> "returned", content |-> download[d].manifest]
      <3> HIDE DEF x
      <3> QED
        BY <2>3, ReadingValues
    <2>7. Readings' = [Readings EXCEPT ![d].state = "returned"]
      <3>1. Readings' = [Readings EXCEPT ![d] = [state |-> "returned", content |-> download[d].manifest]]
        <4> HIDE DEF x
        <4> QED
          BY <2>3, <2>4, <2>6, OneReading
      <3>2. [Readings[d] EXCEPT !.state = "returned"] = [state |-> "returned", content |-> download[d].manifest]
        BY <2>5
      <3> QED
        BY <3>1, <3>2
    <2>8. Whole!Deliver(d)
      BY <1>1, <2>5, <2>7 DEF Whole!Deliver, Readings
    <2> QED
      BY <2>8 DEF Whole!WoNext
  <1> QED
    BY <1>4, <1>5, <1>6, <1>7 DEF DownloadStep, DownloadFault

\* The encrypted transport implements one object for each path, written and read
\* whole: what Move and Sync take it for.
THEOREM TransportIsWhole == TrSpec => ImplementsWholeObjects
  <1>1. TransportInv /\ [TrNext]_trVars => [Whole!WoNext]_(Whole!WoVars)
    <2> SUFFICES ASSUME TransportInv, [TrNext]_trVars PROVE [Whole!WoNext]_(Whole!WoVars)
      OBVIOUS
    <2>1. CASE UNCHANGED trVars
      BY <2>1 DEF trVars, Whole!WoVars
    <2> QED
      BY <2>1, UploadIsWrite, DownloadIsRead DEF TrNext
  <1> QED
    BY <1>1, WholeInitially, TransportInvariance, PTL DEF TrSpec, ImplementsWholeObjects, Whole!WoSpec

-------------------------------------------------------------------------------
(* What is published can be read.                                          *)

Agreed(p) == \A u, w \in Uploads : PathOf[u] = p /\ PathOf[w] = p => content[u] = content[w]

\* The upload has seen its i-th chunk at the provider.
Seen(u, i) == i < upload[u].at \/ upload[u].pc \in {"manifest", "confirm", "done"}

\* What an upload has seen is still there, while the uploads of its path agree.
ChunksPut ==
  \A u \in Uploads : Agreed(PathOf[u]) =>
    \A i \in 1..Len(content[u]) : Seen(u, i) => chunk[PathOf[u]][i] = content[u][i]

\* A manifest was put by an upload of its path.
ManifestOfUpload ==
  \A p \in Paths : manifest[p] # NoManifest =>
    \E u \in Uploads : PathOf[u] = p /\ manifest[p] = content[u]

ReadableInv == ChunksPut /\ ManifestOfUpload /\ PublishedIsReadable

LEMMA ReadableInitially == TransportInv /\ TrInit => ReadableInv
  <1> SUFFICES ASSUME TransportInv, TrInit PROVE ReadableInv
    OBVIOUS
  <1>1. ChunksPut
    <2> SUFFICES ASSUME NEW u \in Uploads, NEW i \in 1..Len(content[u]) PROVE ~Seen(u, i)
      BY DEF ChunksPut
    <2>1. content[u] \in Contents
      BY DEF TransportInv, TrTypeOK
    <2> QED
      BY <2>1, ContentChunks DEF TrInit, NoUpload, Seen
  <1>2. \A p \in Paths : manifest[p] = NoManifest /\ Len(manifest[p]) = 0
    BY DEF TrInit, NoManifest
  <1> QED
    BY <1>1, <1>2 DEF ReadableInv, ManifestOfUpload, PublishedIsReadable

\* A chunk of an agreed ciphertext that is there is not overwritten with another.
LEMMA ChunkStays ==
  ASSUME TransportInv, NEW u \in Uploads, UploadStep(u) \/ UploadFault(u),
         NEW w \in Uploads, Agreed(PathOf[w]),
         NEW i \in 1..Len(content[w]), chunk[PathOf[w]][i] = content[w][i]
  PROVE  chunk'[PathOf[w]][i] = content[w][i]
  <1>1. CASE UNCHANGED chunk
    BY <1>1
  <1>2. CASE PutChunk(u)
    <2>1. /\ PathOf[w] \in Paths /\ PathOf[u] \in Paths
          /\ chunk \in [Paths -> [1..MaxChunks -> Chunks \cup {NoChunk}]]
          /\ i \in 1..MaxChunks /\ upload[u].at \in 1..MaxChunks
      BY PathOfAssumption, ContentChunks, ContentsAssumption DEF TransportInv, TrTypeOK
    <2>2. chunk' = [chunk EXCEPT ![PathOf[u]][upload[u].at] = content[u][upload[u].at]]
      BY <1>2 DEF PutChunk
    <2>3. CASE PathOf[u] = PathOf[w] /\ upload[u].at = i
      <3>1. content[u] = content[w]
        BY <2>3 DEF Agreed
      <3> QED
        BY <2>1, <2>2, <2>3, <3>1
    <2>4. CASE ~(PathOf[u] = PathOf[w] /\ upload[u].at = i)
      BY <2>1, <2>2, <2>4
    <2> QED
      BY <2>3, <2>4
  <1> QED
    BY <1>1, <1>2, UploadStepMoves

\* An upload moves past a chunk only when it sees it.
LEMMA SeenIsThere ==
  ASSUME TransportInv, NEW u \in Uploads, UploadStep(u) \/ UploadFault(u),
         NEW i \in 1..Len(content[u]), Seen(u, i)'
  PROVE  Seen(u, i) \/ chunk[PathOf[u]][i] = content[u][i]
  <1> DEFINE at == upload[u].at
  <1>1. /\ at \in 1..Len(content[u]) /\ Len(content[u]) \in Nat
        /\ upload \in [Uploads -> [pc: UploadPc, at: 1..MaxChunks]]
    BY ContentChunks DEF TransportInv, TrTypeOK, AtChunk, UploadPc
  <1>2. ASSUME NEW pc \in {"check", "put", "verify"}, UploadAt(u, pc) PROVE Seen(u, i)
    BY <1>1, <1>2 DEF UploadAt, Seen
  <1>3. ASSUME UploadFails(u) PROVE Seen(u, i)
    BY <1>1, <1>3 DEF UploadFails, NoUpload, Seen
  <1>4. ASSUME HasChunk(u), NextChunk(u) PROVE Seen(u, i) \/ chunk[PathOf[u]][i] = content[u][i]
    <2>1. CASE at < Len(content[u])
      <3>1. upload' = [upload EXCEPT ![u] = [pc |-> "check", at |-> at + 1]]
        BY <1>4, <2>1 DEF NextChunk
      <3>2. i < at + 1
        BY <1>1, <3>1 DEF Seen
      <3> QED
        BY <1>1, <1>4, <3>2 DEF HasChunk, Seen
    <2>2. CASE ~(at < Len(content[u]))
      BY <1>1, <1>4, <2>2 DEF HasChunk, Seen
    <2> QED
      BY <2>1, <2>2
  <1>5. ASSUME PutManifest(u) \/ ConfirmManifest(u) PROVE Seen(u, i)
    BY <1>5 DEF PutManifest, ConfirmManifest, Seen
  <1>6. CASE StartUpload(u) \/ PutChunk(u)
    BY <1>2, <1>6 DEF StartUpload, PutChunk
  <1>7. CASE CheckChunk(u)
    BY <1>2, <1>4, <1>7 DEF CheckChunk
  <1>8. CASE VerifyChunk(u)
    BY <1>3, <1>4, <1>8 DEF VerifyChunk
  <1>9. CASE UploadFault(u)
    BY <1>3, <1>9 DEF UploadFault
  <1> QED
    BY <1>5, <1>6, <1>7, <1>8, <1>9 DEF UploadStep

LEMMA ReadableUpload ==
  ASSUME TransportInv, ReadableInv, NEW u \in Uploads, UploadStep(u) \/ UploadFault(u)
  PROVE  ReadableInv'
  <1>1. UNCHANGED content /\ (UNCHANGED manifest \/ PutManifest(u))
    BY UploadStepMoves
  <1>2. \A p \in Paths : Agreed(p)' <=> Agreed(p)
    BY <1>1 DEF Agreed
  <1>3. \A w \in Uploads : PathOf[w] \in Paths /\ content[w] \in Contents /\ Len(content[w]) \in 1..MaxChunks
    BY PathOfAssumption, ContentChunks DEF TransportInv, TrTypeOK
  <1>4. \A w \in Uploads : w # u => upload'[w] = upload[w]
    BY UploadStepMoves DEF UploadAt, NextChunk, UploadFails, TransportInv, TrTypeOK
  <1>5. ChunksPut'
    <2> SUFFICES ASSUME NEW w \in Uploads, Agreed(PathOf[w]), NEW i \in 1..Len(content[w]), Seen(w, i)'
                 PROVE  chunk'[PathOf[w]][i] = content[w][i]
      BY <1>1, <1>2, <1>3 DEF ChunksPut
    <2>1. Seen(w, i) \/ chunk[PathOf[w]][i] = content[w][i]
      <3>1. CASE w = u
        BY <3>1, SeenIsThere
      <3>2. CASE w # u
        BY <1>4, <3>2 DEF Seen
      <3> QED
        BY <3>1, <3>2
    <2>2. chunk[PathOf[w]][i] = content[w][i]
      BY <2>1 DEF ReadableInv, ChunksPut
    <2> QED
      BY <2>2, ChunkStays
  <1>6. ManifestOfUpload'
    BY <1>1 DEF ReadableInv, ManifestOfUpload, PutManifest, TransportInv, TrTypeOK
  <1>7. PublishedIsReadable'
    <2> SUFFICES ASSUME NEW p \in Paths, Agreed(p), NEW i \in 1..Len(manifest'[p])
                 PROVE  chunk'[p][i] = manifest'[p][i]
      BY <1>1 DEF PublishedIsReadable, Agreed
    <2>1. CASE manifest'[p] = NoManifest
      BY <2>1 DEF NoManifest
    <2>2. CASE manifest'[p] # NoManifest
      <3>1. PICK w \in Uploads : PathOf[w] = p /\ manifest'[p] = content[w]
        BY <1>1, <1>6, <2>2 DEF ManifestOfUpload
      <3>2. chunk[p][i] = content[w][i]
        <4>1. CASE PutManifest(u) /\ PathOf[u] = p
          <5>1. content[u] = content[w] /\ upload[u].pc = "manifest"
            BY <3>1, <4>1 DEF Agreed, PutManifest
          <5> QED
            BY <3>1, <4>1, <5>1 DEF ReadableInv, ChunksPut, Seen
        <4>2. CASE ~(PutManifest(u) /\ PathOf[u] = p)
          <5>1. manifest'[p] = manifest[p]
            BY <1>1, <1>3, <4>2 DEF PutManifest, TransportInv, TrTypeOK
          <5> QED
            BY <3>1, <5>1 DEF ReadableInv, PublishedIsReadable, Agreed
        <4> QED
          BY <4>1, <4>2
      <3> QED
        BY <3>1, <3>2, ChunkStays
    <2> QED
      BY <2>1, <2>2
  <1> QED
    BY <1>5, <1>6, <1>7 DEF ReadableInv

LEMMA ReadableDownload ==
  ASSUME ReadableInv, UNCHANGED <<content, chunk, manifest, upload>>
  PROVE  ReadableInv'
  BY DEF ReadableInv, ChunksPut, ManifestOfUpload, PublishedIsReadable, Agreed, Seen

\* While the uploads of a path agree, a manifest that is there can be downloaded.
THEOREM PublishedStaysReadable == TrSpec => []PublishedIsReadable
  <1>1. TransportInv /\ ReadableInv /\ [TrNext]_trVars => ReadableInv'
    <2> SUFFICES ASSUME TransportInv, ReadableInv, [TrNext]_trVars PROVE ReadableInv'
      OBVIOUS
    <2>1. ASSUME NEW d \in Downloads, DownloadStep(d) \/ DownloadFault(d) PROVE ReadableInv'
      BY <2>1, ReadableDownload DEF DownloadStep, DownloadFault, GetManifest, GetChunk, ReturnOutput
    <2>2. CASE UNCHANGED trVars
      BY <2>2, ReadableDownload DEF trVars
    <2> QED
      BY <2>1, <2>2, ReadableUpload DEF TrNext
  <1>2. ReadableInv => PublishedIsReadable
    BY DEF ReadableInv
  <1> QED
    BY <1>1, <1>2, ReadableInitially, TransportInvariance, PTL DEF TrSpec

-------------------------------------------------------------------------------
(* A live session: the puts                                                *)

Handshake == {"connecting", "redeeming", "opening"}
Unbegun ==
  phase \in Handshake =>
    /\ socket = <<>> /\ asked = <<>> /\ barrier = <<>> /\ arrived = {} /\ handling = NoMessage
    /\ \A p \in Staged : incoming[p] = {}
    /\ \A u \in Puts : put[u].pc = "rest"
    /\ queue = <<>>

PutStates == [pc: {"rest", "waiting", "granted", "sending", "awaiting", "done", "failed"},
              promise: {"none", "open", "resolved", "rejected"}]
PutTypes ==
  /\ put \in [Puts -> PutStates] /\ queue \in Seq(Puts)
  /\ pending \in [PutPaths -> Puts \cup {"none"}]
ActiveIn(s) == {u \in Puts : s[u].pc \in {"granted", "sending", "awaiting"}}

\* A queue is who waits, each once.
Waiters(q, s) ==
  /\ \A i, j \in DOMAIN q : q[i] = q[j] => i = j
  /\ \A i \in DOMAIN q : s[q[i]].pc = "waiting"
  /\ \A u \in Puts : s[u].pc = "waiting" => \E i \in DOMAIN q : q[i] = u

\* Its account is of who is let in, and has no room for the first who waits.
Window(q, held, s) ==
  /\ Waiters(q, s)
  /\ held = BytesOfPuts(ActiveIn(s)) /\ held \in 0..MaxInFlight
  /\ q # <<>> => held + PutBytes[Head(q)] > MaxInFlight

Acked(s, k) == \A i \in DOMAIN s : s[i].type = "ack" => \E u \in k : PutPath[u] = s[i].path

\* An open promise is the one that its path awaits, and is resolved for what is kept.
PromisesAreKept ==
  /\ \A u \in Puts : put[u].pc \in {"sending", "awaiting"} /\ put[u].promise = "open" =>
       pending[PutPath[u]] = u /\ ~Ended
  /\ \A p \in PutPaths : pending[p] # "none" =>
       /\ PutPath[pending[p]] = p /\ put[pending[p]].pc \in {"sending", "awaiting"}
       /\ put[pending[p]].promise = "open"
  /\ \A u \in Puts : put[u].promise = "resolved" \/ put[u].pc = "done" => u \in kept
  /\ Acked(socket, kept)

PutsAreHeld ==
  Window(queue, inFlight, put) /\ (queue # <<>> => ~Ended) /\ PromisesAreKept

-------------------------------------------------------------------------------
(* A live session: the commits                                             *)

FrameOf(p, n) == [type |-> "frame", path |-> p, index |-> n]

\* What is at hand of an object, with the first messages of the socket, is all of it.
AtHand(inc, h, s, p, n, k) ==
  \/ n \in inc[p]
  \/ h # NoMessage /\ h.path = p /\ h.index = n
  \/ \E i \in DOMAIN s : i < k /\ s[i] = FrameOf(p, n)

Covers(inc, h, s, p, k) == \A n \in 1..Frames : AtHand(inc, h, s, p, n, k)

Known(inc, h, s, p) ==
  \/ inc[p] # {}
  \/ h # NoMessage /\ h.path = p
  \/ \E i \in DOMAIN s : s[i].type = "frame" /\ s[i].path = p

\* Of an object that is not durable, all frames are at hand, ahead of every result
\* that comes after it; and an object whose frames are all received is being stored.
ObjectsAreWhole(inc, h, s, d) ==
  /\ \A k \in DOMAIN s : s[k].type = "result" =>
       \A p \in s[k].after : p \in d \/ Covers(inc, h, s, p, k)
  /\ \A p \in Staged : Known(inc, h, s, p) => p \in d \/ Covers(inc, h, s, p, Len(s) + 1)
  /\ \A p \in Staged : inc[p] = 1..Frames => p \in d \/ (h.type = "store" /\ h.path = p)

ResultsIn(s) == {i \in DOMAIN s : s[i].type = "result"}

\* The results on the socket and then the commits asked are those awaited, in order.
InOrder(r, a, b) ==
  /\ Len(b) = Len(r) + Len(a)
  /\ \A n \in 1..Len(r) : r[n].of = b[n]
  /\ \A n \in 1..Len(a) : a[n] = b[Len(r) + n]

CommitsAreAwaited ==
  Open => /\ ObjectsAreWhole(incoming, handling, socket, durable)
          /\ InOrder(Picked(socket, ResultsIn(socket)), asked, barrier)

LlInv == LlTypeOK /\ Unbegun /\ PutsAreHeld /\ CommitsAreAwaited /\ CommitGetsItsResult

-------------------------------------------------------------------------------
(* The window                                                              *)

LEMMA BytesAdd ==
  ASSUME NEW A \in SUBSET Puts, NEW B \in SUBSET Puts, A \cap B = {}
  PROVE  /\ BytesOfPuts(A) \in Nat /\ BytesOfPuts(B) \in Nat
         /\ BytesOfPuts(A \cup B) = BytesOfPuts(A) + BytesOfPuts(B)
  <1> DEFINE D == A \cup B
             w == [u \in D |-> PutBytes[u]]
             x == [u \in A |-> PutBytes[u]]
             y == [u \in B |-> PutBytes[u]]
  <1>1. \A u \in Puts : PutBytes[u] \in Nat
    BY PutBytesAssumption
  <1>2. IsFiniteSet(D)
    <2>1. D \in SUBSET Puts /\ IsFiniteSet(Puts)
      BY PutsAssumption
    <2> HIDE DEF D
    <2> QED BY <2>1, FS_Subset
  <1>3. Splits(w, D, x, A, y, B)
    BY <1>1 DEF Splits
  <1>4. BytesOfPuts(D) = Total(w) /\ BytesOfPuts(A) = Total(x) /\ BytesOfPuts(B) = Total(y)
    BY DEF BytesOfPuts
  <1> HIDE DEF D, w, x, y
  <1>5. Total(x) \in Nat /\ Total(y) \in Nat /\ Total(w) = Total(x) + Total(y)
    BY <1>2, <1>3, TotalSplit
  <1> QED BY <1>4, <1>5 DEF D

LEMMA BytesOfOne ==
  /\ \A u \in Puts : BytesOfPuts({u}) = PutBytes[u] /\ PutBytes[u] \in Nat
  /\ BytesOfPuts({}) = 0
  <1>1. ASSUME NEW u \in Puts PROVE BytesOfPuts({u}) = PutBytes[u] /\ PutBytes[u] \in Nat
    <2>1. PICK n \in Nat : n = PutBytes[u]
      BY PutBytesAssumption
    <2>2. [x \in {u} |-> PutBytes[x]] = [x \in {u} |-> n]
      BY <2>1
    <2>3. Total([x \in {u} |-> n]) = n
      BY <2>1, TotalOfFew
    <2> QED BY <2>1, <2>2, <2>3 DEF BytesOfPuts
  <1>2. BytesOfPuts({}) = 0
    <2> DEFINE w == [x \in {} |-> PutBytes[x]]
    <2>1. DOMAIN w = {}
      OBVIOUS
    <2> HIDE DEF w
    <2>2. Total(w) = 0
      BY <2>1, TotalOfFew
    <2> QED BY <2>2 DEF w, BytesOfPuts
  <1> QED BY <1>1, <1>2

\* The members of the first n of a queue.
FirstPuts(q, n) == ToSet(SubSeq(q, 1, n))

LEMMA FirstPutsAre ==
  ASSUME NEW q \in Seq(Puts), NEW n \in 0..Len(q)
  PROVE  FirstPuts(q, n) = {q[i] : i \in 1..n} /\ FirstPuts(q, n) \subseteq Puts
  <1>1. PICK L \in Nat : L = Len(q) /\ DOMAIN q = 1..L
    OBVIOUS
  <1>2. \A i \in 1..n : q[i] \in Puts
    BY <1>1
  <1>3. DOMAIN SubSeq(q, 1, n) = 1..n /\ \A i \in 1..n : SubSeq(q, 1, n)[i] = q[i]
    BY <1>2, SubSeqProperties
  <1> QED BY <1>2, <1>3 DEF FirstPuts, ToSet

\* What drain finds: the longest front of the queue that fits.
LEMMA DrainedIs ==
  ASSUME NEW q \in Seq(Puts), NEW held \in 0..MaxInFlight
  PROVE  /\ Drained(q, held) \in 0..Len(q)
         /\ held + BytesOfPuts(FirstPuts(q, Drained(q, held))) <= MaxInFlight
         /\ Drained(q, held) < Len(q) => held + BytesOfPuts(FirstPuts(q, Drained(q, held) + 1)) > MaxInFlight
  <1>1. PICK L \in Nat : L = Len(q)
    OBVIOUS
  <1>2. MaxInFlight \in Nat /\ held \in Nat /\ held <= MaxInFlight
    BY PutBytesAssumption
  <1> DEFINE Used(n) == held + BytesOfPuts(FirstPuts(q, n))
             Stop == {n \in 0..L : n < L => Used(n + 1) > MaxInFlight}
  <1>3. \A n \in 0..L : Used(n) \in Nat
    <2>1. \A A \in SUBSET Puts : BytesOfPuts(A) \in Nat
      <3> SUFFICES ASSUME NEW A \in SUBSET Puts PROVE BytesOfPuts(A) \in Nat
        OBVIOUS
      <3>1. A \cap {} = {} /\ {} \in SUBSET Puts
        OBVIOUS
      <3> QED BY <3>1, BytesAdd
    <2>2. \A n \in 0..L : FirstPuts(q, n) \in SUBSET Puts
      BY <1>1, FirstPutsAre
    <2> QED BY <1>2, <2>1, <2>2
  <1>4. Used(0) = held
    <2>1. FirstPuts(q, 0) = {}
      BY <1>1, FirstPutsAre
    <2>2. Used(0) = held + BytesOfPuts({})
      BY <2>1
    <2> HIDE DEF Used
    <2>3. Used(0) = held + 0
      BY <2>2, BytesOfOne
    <2> QED BY <1>2, <2>3
  <1> HIDE DEF Used
  <1>5. Stop \subseteq Nat /\ L \in Stop
    BY <1>1
  <1>6. PICK n \in Stop : \A m \in Stop : n <= m
    <2> HIDE DEF Stop
    <2> QED BY <1>5, LeastNat
  <1>7. Used(n) <= MaxInFlight
    <2>1. CASE n = 0
      BY <1>2, <1>4, <2>1
    <2>2. CASE n # 0
      <3>1. n - 1 \in 0..L /\ n - 1 < L /\ (n - 1) + 1 = n /\ ~(n <= n - 1)
        BY <2>2
      <3>2. n - 1 \notin Stop
        BY <1>6, <3>1
      <3>3. ~(Used(n) > MaxInFlight)
        BY <3>1, <3>2
      <3> QED BY <1>2, <1>3, <3>3
    <2> QED BY <2>1, <2>2
  <1>8. n \in 0..L /\ Used(n) <= MaxInFlight /\ (n < L => Used(n + 1) > MaxInFlight)
    BY <1>7
  <1> DEFINE P(m) == /\ held + BytesOfPuts(ToSet(SubSeq(q, 1, m))) <= MaxInFlight
                     /\ m < Len(q) => held + BytesOfPuts(ToSet(SubSeq(q, 1, m + 1))) > MaxInFlight
  <1>9. \E m \in 0..Len(q) : P(m)
    BY <1>1, <1>8 DEF Used, FirstPuts
  <1>10. Drained(q, held) = CHOOSE m \in 0..Len(q) : P(m)
    BY DEF Drained
  <1>11. Drained(q, held) \in 0..Len(q) /\ P(Drained(q, held))
    <2> HIDE DEF P
    <2> QED BY <1>9, <1>10
  <1> QED BY <1>11 DEF FirstPuts

\* Whoever is let in was first, and nobody waits for a window that has room.
LEMMA GrantKeeps ==
  ASSUME NEW q \in Seq(Puts), NEW held \in 0..MaxInFlight, NEW s \in [Puts -> PutStates],
         Waiters(q, s), held = BytesOfPuts(ActiveIn(s)), Grant(q, held, s)
  PROVE  /\ queue' \in Seq(Puts) /\ put' \in [Puts -> PutStates]
         /\ Window(queue', inFlight', put')
         /\ q = <<>> => queue' = <<>>
         /\ \A u \in Puts : /\ put'[u].promise = s[u].promise
                           /\ \/ put'[u].pc = s[u].pc
                              \/ s[u].pc = "waiting" /\ put'[u].pc = "granted"
  <1>1. PICK L \in Nat : L = Len(q) /\ DOMAIN q = 1..L
    OBVIOUS
  <1>2. PICK n \in 0..L :
          /\ n = Drained(q, held)
          /\ held + BytesOfPuts(FirstPuts(q, n)) <= MaxInFlight
          /\ n < L => held + BytesOfPuts(FirstPuts(q, n + 1)) > MaxInFlight
    BY <1>1, DrainedIs
  <1>3. PICK granted \in SUBSET Puts : granted = FirstPuts(q, n) /\ granted = {q[i] : i \in 1..n}
    BY <1>1, FirstPutsAre
  <1>4. /\ queue' = SubSeq(q, n + 1, L)
        /\ inFlight' = held + BytesOfPuts(granted)
        /\ put' = [u \in Puts |-> IF u \in granted THEN [s[u] EXCEPT !.pc = "granted"] ELSE s[u]]
    BY <1>1, <1>2, <1>3 DEF Grant, FirstPuts
  <1>5. PICK M \in Nat : M = L - n /\ \A i \in 1..M : i + n \in (n + 1)..L /\ i + n \in 1..L
    <2>1. L - n \in Nat /\ \A i \in 1..(L - n) : i + n \in (n + 1)..L /\ i + n \in 1..L
      BY <1>2
    <2> QED BY <2>1
  <1>6. /\ queue' \in Seq(Puts) /\ Len(queue') = M /\ DOMAIN queue' = 1..M
        /\ \A i \in 1..M : queue'[i] = q[i + n]
    <2>1. \A i \in (n + 1)..L : q[i] \in Puts
      BY <1>1, <1>2
    <2>2. /\ SubSeq(q, n + 1, L) \in Seq(Puts)
          /\ Len(SubSeq(q, n + 1, L)) = IF n + 1 <= L THEN L - (n + 1) + 1 ELSE 0
          /\ \A i \in 1..(L - (n + 1) + 1) : SubSeq(q, n + 1, L)[i] = q[n + 1 + i - 1]
      BY <1>1, <1>2, <2>1, SubSeqProperties
    <2>3. Len(SubSeq(q, n + 1, L)) = M
      BY <1>2, <1>5, <2>2
    <2>4. \A i \in 1..M : i \in 1..(L - (n + 1) + 1) /\ n + 1 + i - 1 = i + n
      <3>1. M = L - n /\ n \in Nat
        BY <1>5
      <3>2. L - (n + 1) + 1 = M
        BY <3>1
      <3> QED BY <3>1, <3>2
    <2> QED BY <1>4, <2>2, <2>3, <2>4
  <1>7. \A u \in granted : s[u].pc = "waiting"
    BY <1>1, <1>2, <1>3 DEF Waiters
  <1>8. /\ put' \in [Puts -> PutStates]
        /\ \A u \in Puts : /\ put'[u].promise = s[u].promise
                          /\ IF u \in granted THEN put'[u].pc = "granted" /\ s[u].pc = "waiting"
                                              ELSE put'[u].pc = s[u].pc
    BY <1>4, <1>7 DEF PutStates
  <1>9. Waiters(queue', put')
    <2>1. \A i, j \in 1..M : queue'[i] = queue'[j] => i = j
      <3> SUFFICES ASSUME NEW i \in 1..M, NEW j \in 1..M, queue'[i] = queue'[j] PROVE i = j
        BY <1>6
      <3>1. q[i + n] = q[j + n] /\ i + n \in DOMAIN q /\ j + n \in DOMAIN q
        BY <1>1, <1>5, <1>6
      <3>2. i + n = j + n
        BY <3>1 DEF Waiters
      <3> QED BY <1>2, <3>2
    <2>2. ASSUME NEW i \in 1..M PROVE put'[queue'[i]].pc = "waiting"
      <3>1. i + n \in DOMAIN q /\ queue'[i] = q[i + n] /\ queue'[i] \in Puts /\ i + n > n
        BY <1>1, <1>2, <1>5, <1>6
      <3>2. \A k \in 1..n : k \in DOMAIN q /\ k # i + n
        BY <1>1, <1>2, <3>1
      <3>3. queue'[i] \notin granted
        BY <1>3, <3>1, <3>2 DEF Waiters
      <3> QED BY <1>8, <3>1, <3>3 DEF Waiters
    <2>3. ASSUME NEW u \in Puts, put'[u].pc = "waiting" PROVE \E i \in 1..M : queue'[i] = u
      <3>1. u \notin granted /\ s[u].pc = "waiting"
        BY <1>8, <2>3
      <3>2. PICK k \in 1..L : q[k] = u
        BY <1>1, <3>1 DEF Waiters
      <3>3. k \notin 1..n
        BY <1>3, <3>1, <3>2
      <3>4. k - n \in 1..M /\ (k - n) + n = k
        BY <1>2, <1>5, <3>3
      <3> QED BY <1>6, <3>2, <3>4
    <2> QED BY <1>6, <2>1, <2>2, <2>3 DEF Waiters
  <1>10. inFlight' = BytesOfPuts(ActiveIn(put')) /\ inFlight' \in 0..MaxInFlight
    <2>1. ActiveIn(put') = ActiveIn(s) \cup granted
      BY <1>8 DEF ActiveIn
    <2>2. ActiveIn(s) \cap granted = {} /\ ActiveIn(s) \in SUBSET Puts
      BY <1>7 DEF ActiveIn
    <2>3. /\ BytesOfPuts(ActiveIn(s) \cup granted) = BytesOfPuts(ActiveIn(s)) + BytesOfPuts(granted)
          /\ BytesOfPuts(granted) \in Nat
      BY <2>2, BytesAdd
    <2>4. inFlight' = BytesOfPuts(ActiveIn(put'))
      BY <1>4, <2>1, <2>3
    <2> QED BY <1>2, <1>3, <1>4, <2>3, <2>4, PutBytesAssumption
  <1>11. queue' # <<>> => inFlight' + PutBytes[Head(queue')] > MaxInFlight
    <2> SUFFICES ASSUME queue' # <<>> PROVE inFlight' + PutBytes[Head(queue')] > MaxInFlight
      OBVIOUS
    <2>1. M # 0 /\ n < L /\ n + 1 \in 0..L /\ 1 \in 1..M /\ n + 1 \in 1..L
      BY <1>2, <1>5, <1>6
    <2>2. PICK u \in Puts : u = Head(queue') /\ u = q[n + 1]
      <3>1. Head(queue') = queue'[1] /\ 1 + n = n + 1
        BY <1>2, <1>6
      <3> QED BY <1>1, <1>6, <2>1, <3>1
    <2>3. FirstPuts(q, n + 1) = granted \cup {u}
      <3>1. FirstPuts(q, n + 1) = {q[i] : i \in 1..(n + 1)}
        BY <1>1, <2>1, FirstPutsAre
      <3>2. 1..(n + 1) = 1..n \cup {n + 1}
        BY <1>2
      <3> QED BY <1>3, <2>2, <3>1, <3>2
    <2>4. u \notin granted
      <3>1. \A k \in 1..n : k \in DOMAIN q /\ k # n + 1
        BY <1>1, <1>2
      <3>2. n + 1 \in DOMAIN q
        BY <1>1, <2>1
      <3> QED BY <1>3, <2>2, <3>1, <3>2 DEF Waiters
    <2>5. granted \cap {u} = {} /\ {u} \in SUBSET Puts
      BY <2>4
    <2>6. PICK a \in Nat, b \in Nat : /\ a = BytesOfPuts(granted) /\ b = PutBytes[u]
                                  /\ BytesOfPuts(FirstPuts(q, n + 1)) = a + b
      <3>1. BytesOfPuts({u}) = PutBytes[u] /\ PutBytes[u] \in Nat
        BY BytesOfOne
      <3>2. BytesOfPuts(granted) \in Nat
            /\ BytesOfPuts(granted \cup {u}) = BytesOfPuts(granted) + BytesOfPuts({u})
        BY <2>5, BytesAdd
      <3> QED BY <2>3, <3>1, <3>2
    <2>7. held + (a + b) > MaxInFlight /\ inFlight' = held + a
      BY <1>2, <1>4, <2>1, <2>6
    <2>8. PutBytes[Head(queue')] = b
      BY <2>2, <2>6
    <2>9. held \in Nat
      BY PutBytesAssumption
    <2>10. (held + a) + b = held + (a + b)
      BY <2>9
    <2>11. inFlight' + b > MaxInFlight
      BY <2>7, <2>10
    <2> QED BY <2>8, <2>11
  <1>12. q = <<>> => queue' = <<>>
    BY <1>1, <1>2, <1>5, <1>6
  <1> QED BY <1>6, <1>8, <1>9, <1>10, <1>11, <1>12 DEF Window

LEMMA AckedIs ==
  ASSUME NEW s \in Seq(LiveMessages), NEW k, Acked(s, k)
  PROVE  /\ Acked(<<>>, k)
         /\ s # <<>> => Acked(Tail(s), k)
         /\ \A l, m : k \subseteq l /\ m \in LiveMessages /\ (m.type = "ack" => \E u \in l : PutPath[u] = m.path)
                      => Acked(Append(s, m), l)
         /\ \A q \in Seq(LiveMessages) : (\A i \in DOMAIN q : q[i].type # "ack") => Acked(s \o q, k)
  <1>1. PICK L \in Nat : L = Len(s) /\ DOMAIN s = 1..L
    OBVIOUS
  <1>2. Acked(<<>>, k)
    BY DEF Acked
  <1>3. ASSUME s # <<>> PROVE Acked(Tail(s), k)
    <2>1. \A i \in DOMAIN Tail(s) : i + 1 \in DOMAIN s /\ Tail(s)[i] = s[i + 1]
      <3>1. L # 0 /\ L - 1 \in Nat
        BY <1>1, <1>3
      <3>2. DOMAIN Tail(s) = 1..(L - 1) /\ \A i \in 1..(L - 1) : Tail(s)[i] = s[i + 1]
        BY <1>1, <1>3, <3>1
      <3> QED BY <1>1, <3>1, <3>2
    <2> QED BY <2>1 DEF Acked
  <1>4. ASSUME NEW l, NEW m \in LiveMessages, k \subseteq l, m.type = "ack" => \E u \in l : PutPath[u] = m.path
        PROVE  Acked(Append(s, m), l)
    <2> DEFINE t == Append(s, m)
    <2>1. DOMAIN t = 1..(L + 1) /\ t[L + 1] = m /\ \A i \in 1..L : t[i] = s[i]
      BY <1>1
    <2> HIDE DEF t
    <2>2. \A i \in DOMAIN t : t[i] = m \/ (i \in DOMAIN s /\ t[i] = s[i])
      BY <1>1, <2>1
    <2>3. Acked(t, l)
      BY <1>4, <2>2 DEF Acked
    <2> QED BY <2>3 DEF t
  <1>5. ASSUME NEW q \in Seq(LiveMessages), \A i \in DOMAIN q : q[i].type # "ack"
        PROVE  Acked(s \o q, k)
    <2> DEFINE t == s \o q
    <2>1. ASSUME NEW i \in DOMAIN t
          PROVE  (\E j \in DOMAIN q : t[i] = q[j]) \/ (i \in DOMAIN s /\ t[i] = s[i])
      <3>1. PICK M \in Nat : M = Len(q) /\ DOMAIN q = 1..M
        OBVIOUS
      <3>2. /\ i \in 1..(L + M)
            /\ t[i] = IF i <= L THEN s[i] ELSE q[i - L]
        BY <1>1, <3>1
      <3>3. i \in 1..L \/ (~(i <= L) /\ i - L \in 1..M)
        BY <3>2
      <3> QED BY <1>1, <3>1, <3>2, <3>3
    <2> HIDE DEF t
    <2>2. Acked(t, k)
      BY <1>5, <2>1 DEF Acked
    <2> QED BY <2>2 DEF t
  <1> QED BY <1>2, <1>3, <1>4, <1>5

\* The store closed: no put waits any more, none is open.
LEMMA CloseStoreKeeps ==
  ASSUME PutTypes, PutsAreHeld, CloseStore, inFlight' = inFlight, kept' = kept, Acked(socket', kept)
  PROVE  PutTypes' /\ PutsAreHeld'
  <1>1. /\ put' = [u \in Puts |->
             CASE u \in ToSet(queue) -> [put[u] EXCEPT !.pc = "failed"]
               [] pending[PutPath[u]] = u -> [put[u] EXCEPT !.promise = "rejected"]
               [] OTHER -> put[u]]
        /\ queue' = <<>> /\ pending' = [p \in PutPaths |-> "none"]
    BY DEF CloseStore
  <1>2. put \in [Puts -> PutStates] /\ queue \in Seq(Puts) /\ pending \in [PutPaths -> Puts \cup {"none"}]
    BY DEF PutTypes
  <1>3. \A u \in Puts : u \in ToSet(queue) => put[u].pc = "waiting"
    BY DEF PutsAreHeld, Window, Waiters, ToSet
  <1>4. /\ \A u \in Puts : put[u].pc = "waiting" => u \in ToSet(queue)
        /\ \A u \in Puts : pending[PutPath[u]] = u => put[u].pc # "waiting"
    <2>1. \A u \in Puts : put[u].pc = "waiting" => u \in ToSet(queue)
      BY DEF PutsAreHeld, Window, Waiters, ToSet
    <2>2. \A u \in Puts : pending[PutPath[u]] = u => put[u].pc # "waiting"
      BY PutsAssumption DEF PutsAreHeld, PromisesAreKept, PutPaths
    <2> QED BY <2>1, <2>2
  <1>5. ASSUME NEW u \in Puts
        PROVE  \/ put[u].pc = "waiting" /\ put'[u] = [put[u] EXCEPT !.pc = "failed"]
               \/ put[u].pc # "waiting" /\ put'[u] = [put[u] EXCEPT !.promise = "rejected"]
               \/ put[u].pc # "waiting" /\ put'[u] = put[u] /\ pending[PutPath[u]] # u
    <2>1. put'[u] = CASE u \in ToSet(queue) -> [put[u] EXCEPT !.pc = "failed"]
                      [] pending[PutPath[u]] = u -> [put[u] EXCEPT !.promise = "rejected"]
                      [] OTHER -> put[u]
      BY <1>1
    <2>2. CASE put[u].pc = "waiting"
      <3>1. u \in ToSet(queue) /\ pending[PutPath[u]] # u
        BY <1>4, <2>2
      <3> QED BY <2>1, <2>2, <3>1
    <2>3. CASE put[u].pc # "waiting"
      <3>1. u \notin ToSet(queue)
        BY <1>3, <2>3
      <3> QED BY <2>1, <2>3, <3>1
    <2> QED BY <2>2, <2>3
  <1>6. ASSUME NEW u \in Puts
        PROVE  /\ put'[u] \in PutStates
               /\ IF put[u].pc = "waiting" THEN put'[u].pc = "failed" ELSE put'[u].pc = put[u].pc
               /\ put'[u].promise \in {put[u].promise, "rejected"}
               /\ put[u].pc # "waiting" /\ put'[u].promise # "rejected" => pending[PutPath[u]] # u
    <2>1. put[u] \in PutStates
      BY <1>2
    <2>2. CASE put[u].pc = "waiting" /\ put'[u] = [put[u] EXCEPT !.pc = "failed"]
      BY <2>1, <2>2 DEF PutStates
    <2>3. CASE put[u].pc # "waiting" /\ put'[u] = [put[u] EXCEPT !.promise = "rejected"]
      BY <2>1, <2>3 DEF PutStates
    <2>4. CASE put[u].pc # "waiting" /\ put'[u] = put[u] /\ pending[PutPath[u]] # u
      BY <2>1, <2>4 DEF PutStates
    <2> QED BY <1>5, <2>2, <2>3, <2>4
  <1>7. put' \in [Puts -> PutStates]
    BY <1>1, <1>6
  <1>8. Window(queue', inFlight', put')
    <2>1. ActiveIn(put') = ActiveIn(put)
      BY <1>6 DEF ActiveIn
    <2>2. Waiters(queue', put')
      <3>1. DOMAIN queue' = {} /\ \A u \in Puts : put'[u].pc # "waiting"
        <4>1. DOMAIN queue' = {}
          BY <1>1
        <4>2. ASSUME NEW u \in Puts PROVE put'[u].pc # "waiting"
          BY <1>6
        <4> QED BY <4>1, <4>2
      <3> QED BY <3>1 DEF Waiters
    <2> QED BY <1>1, <2>1, <2>2 DEF Window, PutsAreHeld
  <1>9. PromisesAreKept'
    <2>1. \A u \in Puts : ~(put'[u].pc \in {"sending", "awaiting"} /\ put'[u].promise = "open")
      <3> SUFFICES ASSUME NEW u \in Puts, put'[u].pc \in {"sending", "awaiting"}, put'[u].promise = "open"
                   PROVE  FALSE
        OBVIOUS
      <3>1. put[u].pc \in {"sending", "awaiting"} /\ put[u].promise = "open" /\ pending[PutPath[u]] # u
        BY <1>6
      <3> QED BY <3>1 DEF PutsAreHeld, PromisesAreKept
    <2>2. \A u \in Puts : put'[u].promise = "resolved" \/ put'[u].pc = "done" => u \in kept
      BY <1>6 DEF PutsAreHeld, PromisesAreKept
    <2>3. \A p \in PutPaths : pending'[p] = "none"
      BY <1>1
    <2> QED BY <2>1, <2>2, <2>3 DEF PromisesAreKept
  <1>10. PutTypes'
    BY <1>1, <1>7 DEF PutTypes
  <1> QED BY <1>1, <1>8, <1>9, <1>10 DEF PutsAreHeld

\* A step beside the puts.
LEMMA BesidePuts ==
  ASSUME PutTypes, PutsAreHeld, UNCHANGED <<put, queue, pending, inFlight>>, Ended' => Ended,
         kept \subseteq kept', Acked(socket', kept')
  PROVE  PutTypes' /\ PutsAreHeld'
  <1>1. put' = put /\ queue' = queue /\ pending' = pending /\ inFlight' = inFlight
    OBVIOUS
  <1>2. PutTypes'
    BY <1>1 DEF PutTypes
  <1>3. PromisesAreKept'
    <2>1. PromisesAreKept
      BY DEF PutsAreHeld
    <2>2. /\ \A u \in Puts : put'[u].pc \in {"sending", "awaiting"} /\ put'[u].promise = "open" =>
                 pending'[PutPath[u]] = u /\ ~Ended'
          /\ \A p \in PutPaths : pending'[p] # "none" =>
                 /\ PutPath[pending'[p]] = p /\ put'[pending'[p]].pc \in {"sending", "awaiting"}
                 /\ put'[pending'[p]].promise = "open"
          /\ \A u \in Puts : put'[u].promise = "resolved" \/ put'[u].pc = "done" => u \in kept'
      BY <1>1, <2>1 DEF PromisesAreKept
    <2> QED BY <2>2 DEF PromisesAreKept
  <1> QED BY <1>1, <1>2, <1>3 DEF PutsAreHeld

LEMMA FailKeepsPuts ==
  ASSUME PutTypes, PutsAreHeld, NEW next \in {"closing", "closed"}, FailAs(next),
         kept' = kept, Acked(socket', kept)
  PROVE  PutTypes' /\ PutsAreHeld' /\ Ended' /\ ~Open'
  <1>1. phase' = next /\ inFlight' = inFlight
        /\ IF Ended THEN UNCHANGED <<put, queue, pending>> ELSE CloseStore
    BY DEF FailAs
  <1>2. Ended' /\ ~Open'
    BY <1>1 DEF Ended, Open
  <1>3. CASE Ended
    BY <1>1, <1>2, <1>3, BesidePuts
  <1>4. CASE ~Ended
    <2>1. CloseStore /\ inFlight' = inFlight
      BY <1>1, <1>4
    <2> QED BY <1>2, <2>1, CloseStoreKeeps
  <1> QED BY <1>2, <1>3, <1>4

LEMMA FailIs ==
  ASSUME Fail PROVE \E next \in {"closing", "closed"} : FailAs(next)
  BY DEF Fail

\* A put whose state alone changes, beside the window: it stays on one side of it.
LEMMA PutMoves ==
  ASSUME NEW s \in [Puts -> PutStates], NEW u \in Puts, NEW to \in PutStates,
         s[u].pc # "waiting", to.pc # "waiting",
         NEW q \in Seq(Puts), Waiters(q, s)
  PROVE  /\ [s EXCEPT ![u] = to] \in [Puts -> PutStates]
         /\ Waiters(q, [s EXCEPT ![u] = to])
         /\ ActiveIn([s EXCEPT ![u] = to]) =
              IF to.pc \in {"granted", "sending", "awaiting"} THEN ActiveIn(s) \cup {u} ELSE ActiveIn(s) \ {u}
  <1> DEFINE t == [s EXCEPT ![u] = to]
  <1>1. t \in [Puts -> PutStates] /\ t[u] = to /\ \A w \in Puts : w # u => t[w] = s[w]
    OBVIOUS
  <1> HIDE DEF t
  <1>2. Waiters(q, t)
    <2>1. \A i \in DOMAIN q : q[i] \in Puts /\ q[i] # u
      BY DEF Waiters
    <2> QED BY <1>1, <2>1 DEF Waiters
  <1>3. ActiveIn(t) = IF to.pc \in {"granted", "sending", "awaiting"} THEN ActiveIn(s) \cup {u} ELSE ActiveIn(s) \ {u}
    BY <1>1 DEF ActiveIn
  <1> QED BY <1>1, <1>2, <1>3 DEF t

\* The window released: its account, and what the put's own end makes of the others.
LEMMA ReleaseKeeps ==
  ASSUME PutTypes, Window(queue, inFlight, put), NEW u \in Puts,
         put[u].pc \in {"granted", "sending", "awaiting"},
         NEW pc \in {"done", "failed"}, Release(u, pc)
  PROVE  /\ queue' \in Seq(Puts) /\ put' \in [Puts -> PutStates]
         /\ Window(queue', inFlight', put')
         /\ queue = <<>> => queue' = <<>>
         /\ put'[u].pc = pc /\ put'[u].promise = put[u].promise
         /\ \A w \in Puts \ {u} : /\ put'[w].promise = put[w].promise
                                 /\ \/ put'[w].pc = put[w].pc
                                    \/ put[w].pc = "waiting" /\ put'[w].pc = "granted"
  <1>1. put \in [Puts -> PutStates] /\ queue \in Seq(Puts)
    BY DEF PutTypes
  <1> DEFINE to == [put[u] EXCEPT !.pc = pc]
             s == [put EXCEPT ![u] = to]
  <1>2. to \in PutStates /\ to.pc = pc /\ to.promise = put[u].promise
    BY <1>1 DEF PutStates
  <1>3. Grant(queue, inFlight - PutBytes[u], s)
    BY <1>1 DEF Release
  <1>4. /\ s \in [Puts -> PutStates] /\ s[u] = to /\ \A w \in Puts \ {u} : s[w] = put[w]
    BY <1>1, <1>2
  <1> HIDE DEF to
  <1>5. Waiters(queue, s) /\ ActiveIn(s) = ActiveIn(put) \ {u}
    <2>1. put[u].pc # "waiting" /\ to.pc # "waiting" /\ to.pc \notin {"granted", "sending", "awaiting"}
      BY <1>2
    <2>2. Waiters(queue, put)
      BY DEF Window
    <2> QED BY <1>1, <1>2, <2>1, <2>2, PutMoves
  <1>6. ActiveIn(put) \in SUBSET Puts /\ u \in ActiveIn(put)
    BY DEF ActiveIn
  <1>7. PICK a \in Nat, b \in Nat : a = BytesOfPuts(ActiveIn(s)) /\ b = PutBytes[u] /\ inFlight = a + b
    <2>1. (ActiveIn(put) \ {u}) \cup {u} = ActiveIn(put) /\ (ActiveIn(put) \ {u}) \cap {u} = {}
          /\ (ActiveIn(put) \ {u}) \in SUBSET Puts /\ {u} \in SUBSET Puts
      BY <1>6
    <2>2. /\ BytesOfPuts(ActiveIn(put) \ {u}) \in Nat
          /\ BytesOfPuts((ActiveIn(put) \ {u}) \cup {u}) = BytesOfPuts(ActiveIn(put) \ {u}) + BytesOfPuts({u})
      BY <2>1, BytesAdd
    <2>3. BytesOfPuts({u}) = PutBytes[u] /\ PutBytes[u] \in Nat
      BY BytesOfOne
    <2>4. inFlight = BytesOfPuts(ActiveIn(put) \ {u}) + PutBytes[u]
      BY <2>1, <2>2, <2>3 DEF Window
    <2> QED BY <1>5, <2>2, <2>3, <2>4
  <1>8. PICK held \in 0..MaxInFlight : held = a /\ held = inFlight - PutBytes[u]
    <2>1. a + b <= MaxInFlight /\ MaxInFlight \in Nat
      BY <1>7, PutBytesAssumption DEF Window
    <2>2. a \in 0..MaxInFlight /\ (a + b) - b = a
      BY <2>1
    <2> QED BY <1>7, <2>2
  <1> HIDE DEF s
  <1>9. /\ queue' \in Seq(Puts) /\ put' \in [Puts -> PutStates]
        /\ Window(queue', inFlight', put')
        /\ queue = <<>> => queue' = <<>>
        /\ \A w \in Puts : /\ put'[w].promise = s[w].promise
                          /\ \/ put'[w].pc = s[w].pc
                             \/ s[w].pc = "waiting" /\ put'[w].pc = "granted"
    <2>1. held = BytesOfPuts(ActiveIn(s)) /\ Grant(queue, held, s)
      BY <1>3, <1>7, <1>8
    <2> QED BY <1>1, <1>4, <1>5, <2>1, GrantKeeps
  <1>10. put'[u].pc = pc /\ put'[u].promise = put[u].promise
    BY <1>2, <1>4, <1>9
  <1> QED BY <1>4, <1>9, <1>10

\* Promises that stay, of puts that stay where they can be open.
LEMMA PromisesFollow ==
  ASSUME PutTypes, PromisesAreKept, pending' = pending, Ended' => Ended, kept' = kept, Acked(socket', kept),
         \A w \in Puts : /\ put'[w].promise = put[w].promise
                         /\ put'[w].pc \in {"sending", "awaiting"} => put[w].pc \in {"sending", "awaiting"}
                         /\ put[w].pc \in {"sending", "awaiting"} /\ put[w].promise = "open" =>
                              put'[w].pc \in {"sending", "awaiting"}
                         /\ put'[w].pc = "done" => w \in kept
  PROVE  PromisesAreKept'
  <1>1. \A u \in Puts : put'[u].pc \in {"sending", "awaiting"} /\ put'[u].promise = "open" =>
          pending'[PutPath[u]] = u /\ ~Ended'
    BY DEF PromisesAreKept
  <1>2. ASSUME NEW p \in PutPaths, pending'[p] # "none"
        PROVE  /\ PutPath[pending'[p]] = p /\ put'[pending'[p]].pc \in {"sending", "awaiting"}
               /\ put'[pending'[p]].promise = "open"
    <2>1. PICK w \in Puts : w = pending[p]
      BY <1>2 DEF PutTypes
    <2>2. PutPath[w] = p /\ put[w].pc \in {"sending", "awaiting"} /\ put[w].promise = "open"
      BY <1>2, <2>1 DEF PromisesAreKept
    <2> QED BY <2>1, <2>2
  <1>3. \A u \in Puts : put'[u].promise = "resolved" \/ put'[u].pc = "done" => u \in kept'
    BY DEF PromisesAreKept
  <1> QED BY <1>1, <1>2, <1>3 DEF PromisesAreKept

LEMMA PutSteps ==
  ASSUME PutTypes, PutsAreHeld, Acked(socket, kept), NEW u \in Puts,
         Put(u) \/ Register(u) \/ Send(u) \/ Finish(u)
  PROVE  PutTypes' /\ PutsAreHeld'
  <1>1. /\ put \in [Puts -> PutStates] /\ queue \in Seq(Puts)
        /\ pending \in [PutPaths -> Puts \cup {"none"}]
        /\ Window(queue, inFlight, put) /\ PromisesAreKept /\ (queue # <<>> => ~Ended)
    BY DEF PutTypes, PutsAreHeld
  <1>2. phase' = phase /\ kept' = kept /\ socket' = socket
    BY DEF Put, Register, Send, Finish, overlook
  <1>3. Acked(socket', kept) /\ (Ended' <=> Ended)
    BY <1>2 DEF Ended
  <1>4. CASE Put(u)
    <2> DEFINE q == Append(queue, u)
               s == [put EXCEPT ![u].pc = "waiting"]
    <2>1. /\ put[u].pc = "rest" /\ ~Ended /\ Grant(q, inFlight, s) /\ pending' = pending
      BY <1>4 DEF Put, Open, Ended
    <2>2. /\ s \in [Puts -> PutStates] /\ s[u].pc = "waiting" /\ s[u].promise = put[u].promise
          /\ \A w \in Puts \ {u} : s[w] = put[w]
      BY <1>1 DEF PutStates
    <2>3. PICK L \in Nat : L = Len(queue) /\ DOMAIN queue = 1..L
      BY <1>1
    <2>4. /\ q \in Seq(Puts) /\ DOMAIN q = 1..(L + 1) /\ q[L + 1] = u
          /\ \A i \in 1..L : q[i] = queue[i]
      BY <1>1, <2>3
    <2> HIDE DEF q, s
    <2>5. \A i \in 1..L : queue[i] \in Puts \ {u}
      BY <1>1, <2>1, <2>3 DEF Window, Waiters
    <2>6. \A i \in 1..(L + 1) : i \in 1..L \/ i = L + 1
      OBVIOUS
    <2>7. Waiters(q, s)
      <3>1. \A i, j \in DOMAIN q : q[i] = q[j] => i = j
        BY <1>1, <2>3, <2>4, <2>5, <2>6 DEF Window, Waiters
      <3>2. \A i \in DOMAIN q : s[q[i]].pc = "waiting"
        BY <1>1, <2>2, <2>3, <2>4, <2>5, <2>6 DEF Window, Waiters
      <3>3. ASSUME NEW w \in Puts, s[w].pc = "waiting" PROVE \E i \in DOMAIN q : q[i] = w
        <4>1. CASE w = u
          <5>1. L + 1 \in 1..(L + 1)
            OBVIOUS
          <5> QED BY <2>4, <4>1, <5>1
        <4>2. CASE w # u
          <5>1. PICK i \in 1..L : queue[i] = w
            BY <1>1, <2>2, <2>3, <3>3, <4>2 DEF Window, Waiters
          <5>2. i \in 1..(L + 1)
            OBVIOUS
          <5> QED BY <2>4, <5>1, <5>2
        <4> QED BY <4>1, <4>2
      <3> QED BY <3>1, <3>2, <3>3 DEF Waiters
    <2>8. ActiveIn(s) = ActiveIn(put)
      BY <2>1, <2>2 DEF ActiveIn
    <2>9. PICK held \in 0..MaxInFlight : held = inFlight /\ held = BytesOfPuts(ActiveIn(s))
      BY <1>1, <2>8 DEF Window
    <2>10. /\ queue' \in Seq(Puts) /\ put' \in [Puts -> PutStates]
           /\ Window(queue', inFlight', put')
           /\ \A w \in Puts : /\ put'[w].promise = s[w].promise
                             /\ \/ put'[w].pc = s[w].pc
                                \/ s[w].pc = "waiting" /\ put'[w].pc = "granted"
      BY <2>1, <2>2, <2>4, <2>7, <2>9, GrantKeeps
    <2>11. PromisesAreKept'
      <3>1. ASSUME NEW w \in Puts
            PROVE  /\ put'[w].promise = put[w].promise
                   /\ put'[w].pc \in {"sending", "awaiting"} => put[w].pc \in {"sending", "awaiting"}
                   /\ put[w].pc \in {"sending", "awaiting"} => put'[w].pc \in {"sending", "awaiting"}
                   /\ put'[w].pc = "done" => put[w].pc = "done"
        BY <2>1, <2>2, <2>10
      <3> QED BY <1>1, <1>2, <1>3, <2>1, <3>1, PromisesFollow DEF PromisesAreKept
    <2> QED BY <1>1, <1>3, <2>1, <2>10, <2>11 DEF PutTypes, PutsAreHeld
  <1>5. ASSUME NEW pc \in {"done", "failed"}, Release(u, pc), pending' = pending,
               put[u].pc \in {"granted", "sending", "awaiting"},
               put[u].pc = "granted" \/ put[u].promise # "open",
               pc = "done" => put[u].promise = "resolved"
        PROVE  PutTypes' /\ PutsAreHeld'
    <2>1. /\ queue' \in Seq(Puts) /\ put' \in [Puts -> PutStates]
          /\ Window(queue', inFlight', put')
          /\ queue = <<>> => queue' = <<>>
          /\ put'[u].pc = pc /\ put'[u].promise = put[u].promise
          /\ \A w \in Puts \ {u} : /\ put'[w].promise = put[w].promise
                                  /\ \/ put'[w].pc = put[w].pc
                                     \/ put[w].pc = "waiting" /\ put'[w].pc = "granted"
      BY <1>1, <1>5, ReleaseKeeps
    <2>2. ASSUME NEW w \in Puts
          PROVE  /\ put'[w].promise = put[w].promise
                 /\ put'[w].pc \in {"sending", "awaiting"} => put[w].pc \in {"sending", "awaiting"}
                 /\ put[w].pc \in {"sending", "awaiting"} /\ put[w].promise = "open" =>
                      put'[w].pc \in {"sending", "awaiting"}
                 /\ put'[w].pc = "done" => w \in kept
      <3>1. CASE w = u
        BY <1>1, <1>5, <2>1, <3>1 DEF PromisesAreKept
      <3>2. CASE w # u
        BY <1>1, <2>1, <3>2 DEF PromisesAreKept
      <3> QED BY <3>1, <3>2
    <2>3. PromisesAreKept'
      BY <1>1, <1>2, <1>3, <1>5, <2>2, PromisesFollow
    <2>4. queue' # <<>> => ~Ended'
      BY <1>1, <1>3, <2>1
    <2> QED BY <1>1, <1>5, <2>1, <2>3, <2>4 DEF PutTypes, PutsAreHeld
  <1>6. CASE Register(u)
    <2>1. CASE Ended
      BY <1>5, <1>6, <2>1 DEF Register
    <2>2. CASE ~Ended
      <3> DEFINE to == [pc |-> "sending", promise |-> "open"]
      <3>1. /\ put[u].pc = "granted" /\ pending' = [pending EXCEPT ![PutPath[u]] = u]
            /\ put' = [put EXCEPT ![u] = to] /\ queue' = queue /\ inFlight' = inFlight
        BY <1>6, <2>2 DEF Register
      <3>2. to \in PutStates /\ to.pc = "sending" /\ to.promise = "open"
        BY DEF PutStates
      <3> HIDE DEF to
      <3>3. put' \in [Puts -> PutStates] /\ Waiters(queue', put') /\ ActiveIn(put') = ActiveIn(put) \cup {u}
        BY <1>1, <3>1, <3>2, PutMoves DEF Window
      <3>4. ActiveIn(put') = ActiveIn(put)
        BY <3>1, <3>3 DEF ActiveIn
      <3>5. Window(queue', inFlight', put')
        BY <1>1, <3>1, <3>3, <3>4 DEF Window
      <3>6. PutPath[u] \in PutPaths /\ pending' \in [PutPaths -> Puts \cup {"none"}]
        BY <1>1, <3>1 DEF PutPaths
      <3>7. PromisesAreKept'
        <4>1. put'[u] = to /\ (\A w \in Puts \ {u} : put'[w] = put[w])
              /\ pending'[PutPath[u]] = u /\ (\A p \in PutPaths \ {PutPath[u]} : pending'[p] = pending[p])
          BY <1>1, <3>1, <3>6
        <4>2. ASSUME NEW w \in Puts, put'[w].pc \in {"sending", "awaiting"}, put'[w].promise = "open"
              PROVE  pending'[PutPath[w]] = w /\ ~Ended'
          <5>1. CASE w = u
            BY <1>3, <2>2, <4>1, <5>1
          <5>2. CASE w # u
            <6>1. PutPath[w] \in PutPaths \ {PutPath[u]} /\ put'[w] = put[w]
              BY <4>1, <5>2, PutsAssumption DEF PutPaths
            <6> QED BY <1>1, <1>3, <2>2, <4>1, <4>2, <6>1 DEF PromisesAreKept
          <5> QED BY <5>1, <5>2
        <4>3. ASSUME NEW p \in PutPaths, pending'[p] # "none"
              PROVE  /\ PutPath[pending'[p]] = p /\ put'[pending'[p]].pc \in {"sending", "awaiting"}
                     /\ put'[pending'[p]].promise = "open"
          <5>1. CASE p = PutPath[u]
            BY <3>2, <4>1, <5>1
          <5>2. CASE p # PutPath[u]
            <6>1. PICK w \in Puts : w = pending[p] /\ pending'[p] = w
              BY <1>1, <4>1, <4>3, <5>2
            <6>2. PutPath[w] = p /\ put[w].pc \in {"sending", "awaiting"} /\ put[w].promise = "open"
              BY <1>1, <4>1, <4>3, <5>2, <6>1 DEF PromisesAreKept
            <6>3. w # u
              BY <5>2, <6>2
            <6> QED BY <4>1, <6>1, <6>2, <6>3
          <5> QED BY <5>1, <5>2
        <4>4. \A w \in Puts : put'[w].promise = "resolved" \/ put'[w].pc = "done" => w \in kept'
          BY <1>1, <1>2, <3>2, <4>1 DEF PromisesAreKept
        <4> QED BY <1>2, <1>3, <4>2, <4>3, <4>4 DEF PromisesAreKept
      <3> QED BY <1>1, <1>3, <3>1, <3>3, <3>5, <3>6, <3>7 DEF PutTypes, PutsAreHeld
    <2> QED BY <2>1, <2>2
  <1>7. CASE Send(u)
    <2>1. CASE Ended
      <3>1. /\ put[u].pc = "sending" /\ Release(u, "failed")
            /\ pending' = [pending EXCEPT ![PutPath[u]] = "none"]
        BY <1>7, <2>1 DEF Send
      <3>2. put[u].promise # "open"
        BY <1>1, <2>1, <3>1 DEF PromisesAreKept
      <3>3. PutPath[u] \in PutPaths
        BY DEF PutPaths
      <3>4. pending[PutPath[u]] = "none"
        <4> SUFFICES ASSUME pending[PutPath[u]] # "none" PROVE FALSE
          OBVIOUS
        <4>1. PICK w \in Puts : w = pending[PutPath[u]] /\ PutPath[w] = PutPath[u] /\ put[w].promise = "open"
          BY <1>1, <3>3 DEF PromisesAreKept
        <4>2. w = u
          BY <4>1, PutsAssumption
        <4> QED BY <3>2, <4>1, <4>2
      <3>5. pending' = pending
        BY <1>1, <3>1, <3>3, <3>4
      <3> QED BY <1>5, <3>1, <3>2, <3>5
    <2>2. CASE ~Ended
      <3> DEFINE to == [put[u] EXCEPT !.pc = "awaiting"]
      <3>1. /\ put[u].pc = "sending" /\ put' = [put EXCEPT ![u] = to]
            /\ pending' = pending /\ queue' = queue /\ inFlight' = inFlight
        BY <1>1, <1>7, <2>2 DEF Send, PutAt
      <3>2. to \in PutStates /\ to.pc = "awaiting" /\ to.promise = put[u].promise
        BY <1>1 DEF PutStates
      <3> HIDE DEF to
      <3>3. put' \in [Puts -> PutStates] /\ Waiters(queue', put') /\ ActiveIn(put') = ActiveIn(put) \cup {u}
        BY <1>1, <3>1, <3>2, PutMoves DEF Window
      <3>4. ActiveIn(put') = ActiveIn(put)
        BY <3>1, <3>3 DEF ActiveIn
      <3>5. Window(queue', inFlight', put')
        BY <1>1, <3>1, <3>3, <3>4 DEF Window
      <3>6. put'[u] = to /\ (\A w \in Puts \ {u} : put'[w] = put[w])
        BY <1>1, <3>1
      <3>7. ASSUME NEW w \in Puts
            PROVE  /\ put'[w].promise = put[w].promise
                   /\ put'[w].pc \in {"sending", "awaiting"} => put[w].pc \in {"sending", "awaiting"}
                   /\ put[w].pc \in {"sending", "awaiting"} => put'[w].pc \in {"sending", "awaiting"}
                   /\ put'[w].pc = "done" => put[w].pc = "done"
        <4>1. CASE w = u
          BY <3>1, <3>2, <3>6, <4>1
        <4>2. CASE w # u
          BY <3>6, <4>2
        <4> QED BY <4>1, <4>2
      <3>8. PromisesAreKept'
        BY <1>1, <1>2, <1>3, <3>1, <3>7, PromisesFollow DEF PromisesAreKept
      <3> QED BY <1>1, <1>3, <3>1, <3>3, <3>5, <3>8 DEF PutTypes, PutsAreHeld
    <2> QED BY <2>1, <2>2
  <1>8. CASE Finish(u)
    <2>1. /\ put[u].pc = "awaiting" /\ put[u].promise # "open" /\ pending' = pending
          /\ Release(u, IF put[u].promise = "resolved" THEN "done" ELSE "failed")
      BY <1>8 DEF Finish
    <2> QED BY <1>5, <2>1
  <1> QED BY <1>4, <1>6, <1>7, <1>8

LEMMA PutsBesideOrFail ==
  ASSUME PutTypes, PutsAreHeld, kept' = kept, Acked(socket', kept),
         UNCHANGED <<put, queue, pending, inFlight, phase>> \/ Fail \/ FailAs("closing") \/ FailAs("closed")
  PROVE  PutTypes' /\ PutsAreHeld'
  <1>1. CASE UNCHANGED <<put, queue, pending, inFlight, phase>>
    <2>1. Ended' => Ended
      BY <1>1 DEF Ended
    <2> QED BY <1>1, <2>1, BesidePuts
  <1>2. CASE \E next \in {"closing", "closed"} : FailAs(next)
    BY <1>2, FailKeepsPuts
  <1> QED BY <1>1, <1>2, FailIs

LEMMA MessagesAre ==
  ASSUME NEW m \in LiveMessages
  PROVE  /\ m.type \in {"ack", "frame", "result"}
         /\ m.type = "ack" => m.path \in PutPaths
         /\ m.type = "frame" => /\ m.path \in Staged /\ m.index \in 1..Frames
                               /\ m = FrameOf(m.path, m.index)
         /\ m.type = "result" => m.of \in Commits /\ m.after \subseteq Staged
  BY DEF LiveMessages, FrameOf

\* An acknowledgement resolves the promise that its path awaits.
LEMMA AckSteps ==
  ASSUME PutTypes, PutsAreHeld, kept \subseteq Puts, socket \in Seq(LiveMessages), HandleAck
  PROVE  PutTypes' /\ PutsAreHeld'
  <1>1. /\ put \in [Puts -> PutStates] /\ queue \in Seq(Puts)
        /\ pending \in [PutPaths -> Puts \cup {"none"}]
        /\ Window(queue, inFlight, put) /\ PromisesAreKept /\ (queue # <<>> => ~Ended)
    BY DEF PutTypes, PutsAreHeld
  <1>2. socket # <<>> /\ Head(socket).type = "ack" /\ socket' = Tail(socket) /\ kept' = kept
    BY DEF HandleAck, NextMessage, overlook
  <1>3. Acked(socket', kept)
    BY <1>1, <1>2, AckedIs DEF PromisesAreKept
  <1>4. PICK path \in PutPaths : path = Head(socket).path
    BY <1>2, MessagesAre
  <1>5. CASE ~Open \/ pending[path] = "none"
    BY <1>2, <1>3, <1>4, <1>5, PutsBesideOrFail DEF HandleAck
  <1>6. CASE Open /\ pending[path] # "none"
    <2>1. PICK w \in Puts : w = pending[path]
      BY <1>1, <1>6
    <2> DEFINE to == [put[w] EXCEPT !.promise = "resolved"]
    <2>2. /\ put' = [put EXCEPT ![w] = to] /\ pending' = [pending EXCEPT ![path] = "none"]
          /\ phase' = phase /\ queue' = queue /\ inFlight' = inFlight
      BY <1>1, <1>4, <1>6, <2>1 DEF HandleAck
    <2>3. PutPath[w] = path /\ put[w].pc \in {"sending", "awaiting"}
      BY <1>1, <1>6, <2>1 DEF PromisesAreKept
    <2>4. w \in kept
      <3>1. PICK u \in kept : PutPath[u] = path
        <4>1. 1 \in DOMAIN socket /\ socket[1] = Head(socket)
          BY <1>2
        <4> QED BY <1>1, <1>2, <1>4, <4>1 DEF PromisesAreKept, Acked
      <3>2. u = w
        BY <2>3, <3>1, PutsAssumption
      <3> QED BY <3>1, <3>2
    <2>5. to \in PutStates /\ to.pc = put[w].pc /\ to.promise = "resolved"
      BY <1>1 DEF PutStates
    <2> HIDE DEF to
    <2>6. put' \in [Puts -> PutStates] /\ Waiters(queue', put') /\ ActiveIn(put') = ActiveIn(put) \cup {w}
      <3>1. put[w].pc # "waiting" /\ to.pc # "waiting" /\ to.pc \in {"granted", "sending", "awaiting"}
        BY <2>3, <2>5
      <3> QED BY <1>1, <2>2, <2>5, <3>1, PutMoves DEF Window
    <2>7. ActiveIn(put') = ActiveIn(put)
      BY <2>3, <2>6 DEF ActiveIn
    <2>8. Window(queue', inFlight', put')
      BY <1>1, <2>2, <2>6, <2>7 DEF Window
    <2>9. /\ put'[w] = to /\ (\A u \in Puts \ {w} : put'[u] = put[u])
          /\ pending' \in [PutPaths -> Puts \cup {"none"}]
          /\ pending'[path] = "none" /\ (\A p \in PutPaths \ {path} : pending'[p] = pending[p])
          /\ (Ended' <=> Ended)
      BY <1>1, <2>2 DEF Ended
    <2>10. PromisesAreKept'
      <3>1. ASSUME NEW u \in Puts, put'[u].pc \in {"sending", "awaiting"}, put'[u].promise = "open"
            PROVE  pending'[PutPath[u]] = u /\ ~Ended'
        <4>1. u # w
          BY <2>5, <2>9, <3>1
        <4>2. PutPath[u] \in PutPaths \ {path} /\ put'[u] = put[u]
          BY <2>3, <2>9, <4>1, PutsAssumption DEF PutPaths
        <4> QED BY <1>1, <2>9, <3>1, <4>2 DEF PromisesAreKept
      <3>2. ASSUME NEW p \in PutPaths, pending'[p] # "none"
            PROVE  /\ PutPath[pending'[p]] = p /\ put'[pending'[p]].pc \in {"sending", "awaiting"}
                   /\ put'[pending'[p]].promise = "open"
        <4>1. p # path
          BY <2>9, <3>2
        <4>2. PICK u \in Puts : u = pending[p] /\ pending'[p] = u
          BY <1>1, <2>9, <3>2, <4>1
        <4>3. PutPath[u] = p /\ put[u].pc \in {"sending", "awaiting"} /\ put[u].promise = "open"
          BY <1>1, <2>9, <3>2, <4>1, <4>2 DEF PromisesAreKept
        <4>4. u # w
          BY <2>3, <4>1, <4>3
        <4> QED BY <2>9, <4>2, <4>3, <4>4
      <3>3. ASSUME NEW u \in Puts, put'[u].promise = "resolved" \/ put'[u].pc = "done"
            PROVE  u \in kept'
        BY <1>1, <1>2, <2>4, <2>9, <3>3 DEF PromisesAreKept
      <3> QED BY <1>2, <1>3, <3>1, <3>2, <3>3 DEF PromisesAreKept
    <2> QED BY <1>1, <2>2, <2>6, <2>8, <2>9, <2>10 DEF PutTypes, PutsAreHeld
  <1> QED BY <1>5, <1>6

\* The frames of an object that Overlook sends.
FramesOf(p) == [i \in 1..Frames |-> FrameOf(p, i)]

LEMMA FramesAre ==
  ASSUME NEW p \in Staged
  PROVE  /\ FramesOf(p) \in Seq(LiveMessages) /\ Len(FramesOf(p)) = Frames
         /\ DOMAIN FramesOf(p) = 1..Frames /\ Frames \in Nat
         /\ \A i \in 1..Frames : FramesOf(p)[i] = FrameOf(p, i) /\ FrameOf(p, i).type = "frame"
                                /\ FrameOf(p, i) \in LiveMessages
  <1>1. Frames \in Nat
    BY FramesAssumption
  <1>2. \A i \in 1..Frames : FrameOf(p, i).type = "frame" /\ FrameOf(p, i) \in LiveMessages
    BY DEF FrameOf, LiveMessages
  <1>3. FramesOf(p) \in [1..Frames -> LiveMessages]
    BY <1>2 DEF FramesOf
  <1>4. \A i \in 1..Frames : FramesOf(p)[i] = FrameOf(p, i)
    BY DEF FramesOf
  <1> QED BY <1>1, <1>2, <1>3, <1>4

LEMMA PutsStep ==
  ASSUME LlInv, [LlNext]_llVars
  PROVE  PutTypes' /\ PutsAreHeld'
  <1>1. /\ PutTypes /\ PutsAreHeld /\ socket \in Seq(LiveMessages) /\ kept \subseteq Puts
        /\ asked \in Seq(Commits) /\ Acked(socket, kept)
    BY DEF LlInv, LlTypeOK, PutTypes, PutStates, PutsAreHeld, PromisesAreKept
  <1>2. Acked(<<>>, kept) /\ (socket # <<>> => Acked(Tail(socket), kept))
    BY <1>1, AckedIs
  <1>3. ASSUME Advance PROVE PutTypes' /\ PutsAreHeld'
    <2>1. kept' = kept /\ socket' = socket /\ UNCHANGED <<put, queue, pending, inFlight>>
      BY <1>3 DEF Advance, overlook
    <2>2. ~Ended'
      BY <1>3 DEF Advance, Ended
    <2> QED BY <1>1, <2>1, <2>2, BesidePuts
  <1>4. CASE HandshakeFails \/ Cancel \/ (\E c \in Commits : CommitTimesOut(c))
    <2>1. kept' = kept /\ socket' = socket /\ (Fail \/ FailAs("closing"))
      BY <1>4 DEF HandshakeFails, Cancel, CommitTimesOut, overlook
    <2> QED BY <1>1, <2>1, PutsBesideOrFail
  <1>5. CASE Close
    <2>1. kept' = kept /\ socket' = socket /\ inFlight' = inFlight /\ CloseStore
      BY <1>5 DEF Close, overlook
    <2> QED BY <1>1, <2>1, CloseStoreKeeps
  <1>6. CASE SocketCloses
    <2>1. kept' = kept /\ socket' = <<>>
      BY <1>6 DEF SocketCloses
    <2>2. CASE phase = "closing"
      <3>1. UNCHANGED <<put, queue, inFlight, pending>> /\ Ended
        BY <1>6, <2>2 DEF SocketCloses, Ended
      <3> QED BY <1>1, <1>2, <2>1, <3>1, BesidePuts
    <2>3. CASE phase # "closing"
      <3>1. FailAs("closed")
        BY <1>6, <2>3 DEF SocketCloses
      <3> QED BY <1>1, <1>2, <2>1, <3>1, PutsBesideOrFail
    <2> QED BY <2>2, <2>3
  <1>7. CASE (\E c \in Commits : Commit(c)) \/ KeepFrame \/ StoreObject
    <2>1. kept' = kept /\ socket' = socket
          /\ (UNCHANGED <<put, queue, pending, inFlight, phase>> \/ Fail)
      BY <1>7 DEF Commit, KeepFrame, StoreObject, overlook, session
    <2> QED BY <1>1, <2>1, PutsBesideOrFail
  <1>8. CASE HandleResult \/ HandleFrame
    <2>1. kept' = kept /\ socket' = Tail(socket) /\ socket # <<>>
          /\ (UNCHANGED <<put, queue, pending, inFlight, phase>> \/ Fail)
      BY <1>8 DEF HandleResult, HandleFrame, NextMessage, overlook, session
    <2> QED BY <1>1, <1>2, <2>1, PutsBesideOrFail
  <1>9. ASSUME NEW u \in Puts, OverlookKeeps(u) PROVE PutTypes' /\ PutsAreHeld'
    <2> DEFINE m == [type |-> "ack", path |-> PutPath[u]]
    <2>1. /\ kept' = kept \cup {u} /\ socket' = Append(socket, m)
          /\ UNCHANGED <<put, queue, pending, inFlight, phase>>
      BY <1>9 DEF OverlookKeeps, session
    <2>2. m \in LiveMessages /\ m.path = PutPath[u]
      BY DEF LiveMessages, PutPaths
    <2> HIDE DEF m
    <2>3. Acked(socket', kept')
      <3>1. kept \subseteq kept' /\ \E w \in kept' : PutPath[w] = m.path
        BY <2>1, <2>2
      <3> QED BY <1>1, <2>1, <2>2, <3>1, AckedIs
    <2>4. Ended' => Ended
      BY <2>1 DEF Ended
    <2> QED BY <1>1, <2>1, <2>3, <2>4, BesidePuts
  <1>10. ASSUME NEW p \in Staged, OverlookSends(p) PROVE PutTypes' /\ PutsAreHeld'
    <2>1. /\ kept' = kept /\ socket' = socket \o FramesOf(p)
          /\ UNCHANGED <<put, queue, pending, inFlight, phase>>
      BY <1>10 DEF OverlookSends, session, FramesOf, FrameOf
    <2>2. Acked(socket', kept)
      BY <1>1, <2>1, FramesAre, AckedIs
    <2> QED BY <1>1, <2>1, <2>2, PutsBesideOrFail
  <1>11. CASE OverlookAnswers
    <2> DEFINE m == [type |-> "result", of |-> Head(asked), after |-> SentObjects]
    <2>1. /\ kept' = kept /\ socket' = Append(socket, m) /\ asked # <<>>
          /\ UNCHANGED <<put, queue, pending, inFlight, phase>>
      BY <1>11 DEF OverlookAnswers, session
    <2>2. Acked(socket', kept)
      <3>1. PICK L \in Nat : L = Len(socket) /\ DOMAIN socket = 1..L
        BY <1>1
      <3>2. m.type = "result"
        OBVIOUS
      <3> HIDE DEF m
      <3>3. DOMAIN socket' = 1..(L + 1) /\ socket'[L + 1] = m /\ \A i \in 1..L : socket'[i] = socket[i]
        BY <1>1, <2>1, <3>1
      <3>4. \A i \in DOMAIN socket' : socket'[i] = m \/ (i \in DOMAIN socket /\ socket'[i] = socket[i])
        BY <3>1, <3>3
      <3> QED BY <1>1, <3>2, <3>4 DEF Acked
    <2> QED BY <1>1, <2>1, <2>2, PutsBesideOrFail
  <1>12. CASE UNCHANGED llVars
    BY <1>1, <1>12, PutsBesideOrFail DEF llVars, session, overlook
  <1>13. CASE \E u \in Puts : Put(u) \/ Register(u) \/ Send(u) \/ Finish(u)
    BY <1>1, <1>13, PutSteps
  <1> QED BY <1>1, <1>3, <1>4, <1>5, <1>6, <1>7, <1>8, <1>9, <1>10, <1>11, <1>12, <1>13, AckSteps DEF LlNext

CommitStates ==
  [pc: {"rest", "waiting", "done", "failed"}, result: [of: Commits, after: SUBSET Staged] \cup {NoResult}]
Handlings == {NoMessage} \cup [type: {"verify", "store"}, path: Staged, index: 1..Frames]

LEMMA LlTypesAre ==
  LlTypeOK <=> /\ PutTypes /\ inFlight \in 0..MaxInFlight
               /\ phase \in Handshake \cup {"connected", "closing", "closed"}
               /\ commit \in [Commits -> CommitStates]
               /\ barrier \in Seq(Commits) /\ asked \in Seq(Commits) /\ socket \in Seq(LiveMessages)
               /\ incoming \in [Staged -> SUBSET (1..Frames)]
               /\ handling \in Handlings /\ durable \subseteq Staged
               /\ arrived \subseteq Puts /\ kept \subseteq Puts
               /\ sends \in 0..MaxSends /\ liveFaults \in 0..MaxLiveFaults
  <1>1. {"connecting", "redeeming", "opening", "connected", "closing", "closed"} =
          Handshake \cup {"connected", "closing", "closed"}
    BY DEF Handshake
  <1> QED BY <1>1 DEF LlTypeOK, PutTypes, PutStates, CommitStates, Handlings

LEMMA HandlingsAre ==
  ASSUME NEW h \in Handlings
  PROVE  /\ h = NoMessage \/ (h.path \in Staged /\ h.index \in 1..Frames /\ h.type \in {"verify", "store"})
         /\ h.type \in {"verify", "store"} => h # NoMessage
         /\ h # NoMessage => h.type \in {"verify", "store"}
         /\ h.type = "verify" => [h EXCEPT !.type = "store"] =
                                 [type |-> "store", path |-> h.path, index |-> h.index]
  BY DEF Handlings, NoMessage

\* A failure leaves what commits have returned as it is.
LEMMA FailKeepsCommits ==
  ASSUME commit \in [Commits -> CommitStates], barrier \in Seq(Commits),
         Fail \/ FailAs("closing") \/ FailAs("closed")
  PROVE  /\ phase' \in {"closing", "closed"} /\ ~Open' /\ Ended'
         /\ commit' \in [Commits -> CommitStates] /\ barrier' \in Seq(Commits)
         /\ \A c \in Commits : commit'[c].pc = "done" => commit'[c] = commit[c]
  <1>1. PICK next \in {"closing", "closed"} : FailAs(next)
    BY FailIs
  <1>2. /\ phase' = next /\ barrier' = <<>>
        /\ commit' = [c \in Commits |->
             IF c \in ToSet(barrier) THEN [commit[c] EXCEPT !.pc = "failed"] ELSE commit[c]]
    BY <1>1 DEF FailAs, RejectCommits
  <1>3. ASSUME NEW c \in Commits
        PROVE  commit'[c] \in CommitStates /\ (commit'[c].pc = "done" => commit'[c] = commit[c])
    <2>1. commit[c] \in CommitStates /\ commit'[c] \in {commit[c], [commit[c] EXCEPT !.pc = "failed"]}
      BY <1>2
    <2> QED BY <2>1 DEF CommitStates
  <1> QED BY <1>2, <1>3 DEF Open, Ended

\* A result that comes is that of the commit awaited first.
LEMMA ResultSteps ==
  ASSUME commit \in [Commits -> CommitStates], barrier \in Seq(Commits), socket \in Seq(LiveMessages),
         HandleResult, Open
  PROVE  /\ phase' = phase /\ commit' \in [Commits -> CommitStates] /\ barrier' \in Seq(Commits)
         /\ socket # <<>> /\ socket' = Tail(socket) /\ handling = NoMessage
         /\ Head(socket) \in LiveMessages /\ Head(socket).type = "result"
         /\ UNCHANGED <<incoming, handling, durable, asked>>
         /\ barrier # <<>> => barrier' = Tail(barrier)
         /\ \A c \in Commits :
              \/ commit'[c] = commit[c]
              \/ /\ barrier # <<>> /\ c = Head(barrier)
                 /\ commit'[c].result.of = Head(socket).of /\ commit'[c].result.after = Head(socket).after
  <1>1. /\ phase' = phase /\ socket # <<>> /\ socket' = Tail(socket) /\ handling = NoMessage
        /\ Head(socket).type = "result" /\ UNCHANGED <<incoming, handling, durable, asked>>
    BY DEF HandleResult, NextMessage, overlook
  <1>2. Head(socket) \in LiveMessages /\ Head(socket).of \in Commits /\ Head(socket).after \subseteq Staged
    <2>1. Head(socket) \in LiveMessages
      BY <1>1
    <2> QED BY <1>1, <2>1, MessagesAre
  <1>3. CASE barrier = <<>>
    BY <1>1, <1>2, <1>3 DEF HandleResult
  <1>4. CASE barrier # <<>>
    <2> DEFINE to == [pc |-> "done", result |-> [of |-> Head(socket).of, after |-> Head(socket).after]]
    <2>1. commit' = [commit EXCEPT ![Head(barrier)] = to] /\ barrier' = Tail(barrier)
      BY <1>4 DEF HandleResult
    <2>2. to \in CommitStates /\ to.result.of = Head(socket).of /\ to.result.after = Head(socket).after
      BY <1>2 DEF CommitStates
    <2>3. Head(barrier) \in Commits /\ Tail(barrier) \in Seq(Commits)
      BY <1>4
    <2> HIDE DEF to
    <2> QED BY <1>1, <1>2, <1>4, <2>1, <2>2, <2>3
  <1> QED BY <1>3, <1>4

LEMMA SessionTypes ==
  ASSUME LlTypeOK, [LlNext]_llVars
  PROVE  /\ phase' \in Handshake \cup {"connected", "closing", "closed"}
         /\ commit' \in [Commits -> CommitStates] /\ barrier' \in Seq(Commits)
  <1>1. /\ phase \in Handshake \cup {"connected", "closing", "closed"}
        /\ commit \in [Commits -> CommitStates] /\ barrier \in Seq(Commits)
        /\ socket \in Seq(LiveMessages)
    BY LlTypesAre
  <1>2. CASE Fail \/ FailAs("closing") \/ FailAs("closed")
    BY <1>1, <1>2, FailKeepsCommits
  <1>3. CASE UNCHANGED <<phase, commit, barrier>>
    BY <1>1, <1>3
  <1>4. CASE UNCHANGED <<commit, barrier>> /\ phase' \in {"redeeming", "opening", "connected", "closing", "closed"}
    BY <1>1, <1>4 DEF Handshake
  <1>5. ASSUME NEW c \in Commits, Commit(c)
        PROVE  /\ phase' \in Handshake \cup {"connected", "closing", "closed"}
               /\ commit' \in [Commits -> CommitStates] /\ barrier' \in Seq(Commits)
    <2> DEFINE to == [commit[c] EXCEPT !.pc = "waiting"]
    <2>1. phase' = phase /\ commit' = [commit EXCEPT ![c] = to] /\ barrier' = Append(barrier, c)
      BY <1>1, <1>5 DEF Commit
    <2>2. to \in CommitStates
      BY <1>1 DEF CommitStates
    <2> HIDE DEF to
    <2> QED BY <1>1, <2>1, <2>2
  <1>6. CASE HandleResult /\ Open
    BY <1>1, <1>6, ResultSteps
  <1>7. ASSUME NEW u \in Puts,
               Put(u) \/ Register(u) \/ Send(u) \/ Finish(u) \/ OverlookKeeps(u)
        PROVE  UNCHANGED <<phase, commit, barrier>>
    BY <1>7 DEF Put, Register, Send, Finish, OverlookKeeps, session
  <1>8. ASSUME NEW p \in Staged, OverlookSends(p) PROVE UNCHANGED <<phase, commit, barrier>>
    BY <1>8 DEF OverlookSends, session
  <1>9. CASE HandleAck \/ (HandleResult /\ ~Open) \/ HandleFrame \/ KeepFrame \/ StoreObject \/ OverlookAnswers
             \/ UNCHANGED llVars
    <2>1. Fail \/ UNCHANGED <<phase, commit, barrier>>
      BY <1>9 DEF HandleAck, HandleResult, HandleFrame, KeepFrame, StoreObject, OverlookAnswers, session, llVars
    <2> QED BY <1>2, <1>3, <2>1
  <1>10. CASE Advance \/ Close
    BY <1>4, <1>10 DEF Advance, Close
  <1>11. CASE HandshakeFails \/ Cancel \/ SocketCloses \/ (\E c \in Commits : CommitTimesOut(c))
    <2>1. \/ Fail \/ FailAs("closing") \/ FailAs("closed")
          \/ UNCHANGED <<commit, barrier>> /\ phase' = "closed"
      BY <1>11 DEF HandshakeFails, Cancel, SocketCloses, CommitTimesOut
    <2> QED BY <1>2, <1>4, <2>1
  <1> QED BY <1>3, <1>5, <1>6, <1>7, <1>8, <1>9, <1>10, <1>11 DEF LlNext

LEMMA SocketTypes ==
  ASSUME LlTypeOK, [LlNext]_llVars
  PROVE  /\ asked' \in Seq(Commits) /\ socket' \in Seq(LiveMessages)
         /\ arrived' \subseteq Puts /\ kept' \subseteq Puts /\ sends' \in 0..MaxSends
  <1>1. /\ asked \in Seq(Commits) /\ socket \in Seq(LiveMessages)
        /\ arrived \subseteq Puts /\ kept \subseteq Puts /\ sends \in 0..MaxSends
        /\ durable \subseteq Staged /\ handling \in Handlings
    BY LlTypesAre
  <1>2. CASE UNCHANGED <<asked, socket, arrived, kept, sends>>
    BY <1>1, <1>2
  <1>3. CASE UNCHANGED <<asked, arrived, kept, sends>> /\ socket # <<>> /\ socket' = Tail(socket)
    BY <1>1, <1>3
  <1>4. CASE SocketCloses
    BY <1>1, <1>4 DEF SocketCloses
  <1>5. ASSUME NEW u \in Puts, Send(u)
        PROVE  UNCHANGED <<asked, socket, kept, sends>> /\ arrived' \subseteq Puts
    BY <1>1, <1>5 DEF Send
  <1>6. ASSUME NEW u \in Puts, OverlookKeeps(u)
        PROVE  /\ asked' = asked /\ socket' \in Seq(LiveMessages)
               /\ arrived' \subseteq Puts /\ kept' \subseteq Puts /\ sends' = sends
    <2>1. [type |-> "ack", path |-> PutPath[u]] \in LiveMessages
      BY DEF LiveMessages, PutPaths
    <2> QED BY <1>1, <1>6, <2>1 DEF OverlookKeeps
  <1>7. ASSUME NEW p \in Staged, OverlookSends(p)
        PROVE  /\ UNCHANGED <<asked, arrived, kept>> /\ socket' \in Seq(LiveMessages) /\ sends' \in 0..MaxSends
    <2>1. socket' = socket \o FramesOf(p) /\ sends' = sends + 1 /\ sends < MaxSends
          /\ UNCHANGED <<asked, arrived, kept>>
      BY <1>7 DEF OverlookSends, FramesOf, FrameOf
    <2>2. FramesOf(p) \in Seq(LiveMessages)
      BY FramesAre
    <2>3. sends' \in 0..MaxSends
      BY <1>1, <2>1, LiveBoundsAssumption
    <2> QED BY <1>1, <2>1, <2>2, <2>3
  <1>8. ASSUME NEW c \in Commits, Commit(c)
        PROVE  asked' \in Seq(Commits) /\ UNCHANGED <<socket, arrived, kept, sends>>
    BY <1>1, <1>8 DEF Commit
  <1>9. CASE OverlookAnswers
    <2>1. SentObjects \subseteq Staged
      <3>1. \A j \in DOMAIN socket : socket[j].type = "frame" => socket[j].path \in Staged
        <4>1. \A j \in DOMAIN socket : socket[j] \in LiveMessages
          BY <1>1
        <4> QED BY <4>1, MessagesAre
      <3>2. handling # NoMessage => handling.path \in Staged
        BY <1>1, HandlingsAre
      <3> QED BY <1>1, <3>1, <3>2 DEF SentObjects
    <2>2. /\ asked # <<>> /\ asked' = Tail(asked)
          /\ socket' = Append(socket, [type |-> "result", of |-> Head(asked), after |-> SentObjects])
          /\ UNCHANGED <<arrived, kept, sends>>
      BY <1>9 DEF OverlookAnswers
    <2>3. Head(asked) \in Commits /\ Tail(asked) \in Seq(Commits)
      BY <1>1, <2>2
    <2>4. [type |-> "result", of |-> Head(asked), after |-> SentObjects] \in LiveMessages
      BY <2>1, <2>3 DEF LiveMessages
    <2> QED BY <1>1, <2>2, <2>3, <2>4
  <1>10. CASE HandleAck \/ HandleResult \/ HandleFrame
    BY <1>3, <1>10 DEF HandleAck, HandleResult, HandleFrame, NextMessage, overlook
  <1>11. CASE \/ Advance \/ HandshakeFails \/ Cancel \/ Close \/ KeepFrame \/ StoreObject \/ UNCHANGED llVars
              \/ \E u \in Puts : Put(u) \/ Register(u) \/ Finish(u)
              \/ \E c \in Commits : CommitTimesOut(c)
    BY <1>2, <1>11 DEF Advance, HandshakeFails, Cancel, Close, KeepFrame, StoreObject, llVars, overlook,
                       Put, Register, Finish, CommitTimesOut
  <1> QED BY <1>1, <1>4, <1>5, <1>6, <1>7, <1>8, <1>9, <1>10, <1>11 DEF LlNext

LEMMA ObjectTypes ==
  ASSUME LlTypeOK, [LlNext]_llVars
  PROVE  /\ incoming' \in [Staged -> SUBSET (1..Frames)] /\ handling' \in Handlings
         /\ durable' \subseteq Staged /\ durable \subseteq durable' /\ liveFaults' \in 0..MaxLiveFaults
  <1>1. /\ incoming \in [Staged -> SUBSET (1..Frames)] /\ handling \in Handlings
        /\ durable \subseteq Staged /\ liveFaults \in 0..MaxLiveFaults /\ socket \in Seq(LiveMessages)
    BY LlTypesAre
  <1>2. CASE UNCHANGED <<incoming, handling, durable, liveFaults>>
    BY <1>1, <1>2
  <1>3. CASE HandleFrame
    <2>1. socket # <<>> /\ Head(socket).type = "frame" /\ Head(socket) \in LiveMessages
      BY <1>1, <1>3 DEF HandleFrame, NextMessage
    <2>2. [Head(socket) EXCEPT !.type = "verify"] \in Handlings
      <3>1. PICK m \in LiveMessages : m = Head(socket) /\ m.type = "frame"
        BY <2>1
      <3>2. m.path \in Staged /\ m.index \in 1..Frames /\ m = FrameOf(m.path, m.index)
        BY <3>1, MessagesAre
      <3>3. [m EXCEPT !.type = "verify"] = [type |-> "verify", path |-> m.path, index |-> m.index]
        BY <3>2 DEF FrameOf
      <3> QED BY <3>1, <3>2, <3>3 DEF Handlings
    <2> QED BY <1>1, <1>3, <2>2 DEF HandleFrame
  <1>4. NoMessage \in Handlings
    BY DEF Handlings
  <1>5. CASE KeepFrame
    <2>1. handling.type = "verify" /\ handling.path \in Staged /\ handling.index \in 1..Frames
          /\ UNCHANGED <<durable, liveFaults>>
      BY <1>1, <1>5, HandlingsAre DEF KeepFrame
    <2>2. [handling EXCEPT !.type = "store"] \in Handlings
      <3>1. [handling EXCEPT !.type = "store"] =
              [type |-> "store", path |-> handling.path, index |-> handling.index]
        BY <1>1, <2>1, HandlingsAre
      <3> QED BY <2>1, <3>1 DEF Handlings
    <2>3. handling' \in {NoMessage, [handling EXCEPT !.type = "store"]}
      BY <1>5 DEF KeepFrame
    <2>4. \/ incoming' = incoming
          \/ incoming' = [incoming EXCEPT ![handling.path] = incoming[handling.path] \cup {handling.index}]
      BY <1>5 DEF KeepFrame
    <2>5. incoming' \in [Staged -> SUBSET (1..Frames)]
      BY <1>1, <2>1, <2>4
    <2> QED BY <1>1, <1>4, <2>1, <2>2, <2>3, <2>5
  <1>6. CASE StoreObject
    <2>1. handling.path \in Staged
      BY <1>1, <1>6, HandlingsAre DEF StoreObject
    <2>2. liveFaults' \in 0..MaxLiveFaults
      BY <1>1, <1>6, LiveBoundsAssumption DEF StoreObject
    <2>3. durable' \in {durable, durable \cup {handling.path}}
          /\ incoming' \in {incoming, [incoming EXCEPT ![handling.path] = {}]} /\ handling' = NoMessage
      BY <1>6 DEF StoreObject
    <2>4. incoming' \in [Staged -> SUBSET (1..Frames)]
      BY <1>1, <2>3
    <2> QED BY <1>1, <1>4, <2>1, <2>2, <2>3, <2>4
  <1>7. CASE \/ Advance \/ HandshakeFails \/ Cancel \/ Close \/ SocketCloses \/ UNCHANGED llVars
             \/ \E u \in Puts : Put(u) \/ Register(u) \/ Send(u) \/ Finish(u) \/ OverlookKeeps(u)
             \/ \E c \in Commits : Commit(c) \/ CommitTimesOut(c)
             \/ HandleAck \/ HandleResult \/ (\E p \in Staged : OverlookSends(p)) \/ OverlookAnswers
    BY <1>2, <1>7 DEF Advance, HandshakeFails, Cancel, Close, SocketCloses, llVars, Put, Register, Send, Finish,
         OverlookKeeps, Commit, CommitTimesOut, HandleAck, HandleResult, OverlookSends, OverlookAnswers
  <1> QED BY <1>3, <1>5, <1>6, <1>7 DEF LlNext

LEMMA LlTypesStep ==
  ASSUME LlInv, [LlNext]_llVars
  PROVE  LlTypeOK'
  <1>1. LlTypeOK
    BY DEF LlInv
  <1>2. PutTypes' /\ PutsAreHeld'
    BY PutsStep
  <1>3. inFlight' \in 0..MaxInFlight
    BY <1>2 DEF PutsAreHeld, Window
  <1>4. {"connecting", "redeeming", "opening", "connected", "closing", "closed"} =
          Handshake \cup {"connected", "closing", "closed"}
    BY DEF Handshake
  <1> QED
    BY <1>1, <1>2, <1>3, <1>4, SessionTypes, SocketTypes, ObjectTypes
       DEF LlTypeOK, PutTypes, PutStates, CommitStates, Handlings

\* Nothing happens before the session is open.
LEMMA UnbegunStep ==
  ASSUME LlInv, [LlNext]_llVars
  PROVE  Unbegun'
  <1>1. /\ Unbegun /\ commit \in [Commits -> CommitStates] /\ barrier \in Seq(Commits)
        /\ handling \in Handlings
    BY LlTypesAre DEF LlInv
  <1>2. CASE Fail \/ FailAs("closing") \/ FailAs("closed")
    <2>1. phase' \in {"closing", "closed"}
      BY <1>1, <1>2, FailKeepsCommits
    <2> QED BY <2>1 DEF Unbegun, Handshake
  <1>3. CASE phase' \in {"closing", "closed"}
    BY <1>3 DEF Unbegun, Handshake
  <1>4. CASE Advance \/ UNCHANGED llVars
    <2>1. /\ UNCHANGED <<put, queue, barrier, incoming, handling, arrived, asked, socket>>
          /\ phase \in Handshake \/ phase' = phase
      BY <1>4 DEF Advance, llVars, session, overlook, Handshake
    <2> QED BY <1>1, <2>1 DEF Unbegun
  <1>5. CASE phase' = phase /\ phase \notin Handshake
    BY <1>5 DEF Unbegun
  <1>6. ASSUME NEW u \in Puts, Put(u) \/ Register(u) \/ Send(u) \/ Finish(u) \/ OverlookKeeps(u)
        PROVE  phase' = phase /\ phase \notin Handshake
    BY <1>1, <1>6 DEF Put, Register, Send, Finish, OverlookKeeps, Unbegun, Open, Handshake, session
  <1>7. ASSUME NEW p \in Staged, OverlookSends(p) PROVE phase' = phase /\ phase \notin Handshake
    BY <1>7 DEF OverlookSends, Open, Handshake, session
  <1>8. ASSUME NEW c \in Commits, Commit(c) PROVE phase' = phase /\ phase \notin Handshake
    BY <1>8 DEF Commit, Open, Handshake
  <1>9. CASE HandleAck \/ HandleResult \/ HandleFrame \/ OverlookAnswers
    <2>1. phase \notin Handshake
      BY <1>1, <1>9 DEF HandleAck, HandleResult, HandleFrame, NextMessage, OverlookAnswers, Unbegun
    <2>2. Fail \/ phase' = phase
      BY <1>9 DEF HandleAck, HandleResult, HandleFrame, OverlookAnswers, session
    <2> QED BY <1>2, <1>5, <2>1, <2>2
  <1>10. CASE KeepFrame \/ StoreObject
    <2>1. phase \notin Handshake
      BY <1>1, <1>10, HandlingsAre DEF KeepFrame, StoreObject, Unbegun
    <2>2. Fail \/ phase' = phase
      BY <1>10 DEF KeepFrame, StoreObject, session
    <2> QED BY <1>2, <1>5, <2>1, <2>2
  <1>11. CASE HandshakeFails \/ Cancel \/ Close \/ SocketCloses \/ (\E c \in Commits : CommitTimesOut(c))
    <2>1. Fail \/ FailAs("closing") \/ FailAs("closed") \/ phase' \in {"closing", "closed"}
      BY <1>11 DEF HandshakeFails, Cancel, Close, SocketCloses, CommitTimesOut
    <2> QED BY <1>2, <1>3, <2>1
  <1> QED BY <1>4, <1>5, <1>6, <1>7, <1>8, <1>9, <1>10, <1>11 DEF LlNext

-------------------------------------------------------------------------------
(* A live session: objects and results on the socket                       *)

\* The first message is handled, which for a frame means that it is looked at next.
LEMMA WholeOfTail ==
  ASSUME NEW inc \in [Staged -> SUBSET (1..Frames)], NEW h \in Handlings, NEW g \in Handlings,
         NEW s \in Seq(LiveMessages), NEW d \in SUBSET Staged,
         s # <<>>, ObjectsAreWhole(inc, h, s, d),
         \/ g = h /\ Head(s).type # "frame"
         \/ h = NoMessage /\ Head(s).type = "frame" /\ g = [Head(s) EXCEPT !.type = "verify"]
  PROVE  ObjectsAreWhole(inc, g, Tail(s), d)
  <1>1. PICK L \in Nat : L = Len(s) /\ DOMAIN s = 1..L /\ L # 0
    OBVIOUS
  <1>2. PICK t \in Seq(LiveMessages) : t = Tail(s)
    <2>1. Tail(s) \in Seq(LiveMessages)
      OBVIOUS
    <2> QED BY <2>1
  <1>3. /\ Len(t) = L - 1 /\ DOMAIN t = 1..(L - 1) /\ 1 \in 1..L
        /\ \A i \in 1..(L - 1) : t[i] = s[i + 1] /\ i + 1 \in 1..L
    BY <1>1, <1>2
  <1>4. PICK m \in LiveMessages : m = Head(s) /\ m = s[1]
    BY <1>1
  <1>5. CASE g = h /\ m.type # "frame"
    <2>1. ASSUME NEW p \in Staged, NEW n \in 1..Frames, NEW k \in 2..(L + 1), AtHand(inc, h, s, p, n, k)
          PROVE  AtHand(inc, g, t, p, n, k - 1)
      <3> SUFFICES ASSUME NEW i \in 1..L, i < k, s[i] = FrameOf(p, n)
                   PROVE  \E j \in 1..(L - 1) : j < k - 1 /\ t[j] = FrameOf(p, n)
        BY <1>1, <1>3, <1>5, <2>1 DEF AtHand
      <3>1. i # 1
        BY <1>4, <1>5 DEF FrameOf
      <3>2. i - 1 \in 1..(L - 1) /\ i - 1 < k - 1 /\ (i - 1) + 1 = i
        BY <1>1, <3>1
      <3> QED BY <1>3, <3>2
    <2>2. \A p \in Staged : Known(inc, g, t, p) => Known(inc, h, s, p)
      BY <1>1, <1>3, <1>5 DEF Known
    <2> QED
      <3>1. ASSUME NEW k \in DOMAIN t, t[k].type = "result", NEW p \in t[k].after, p \notin d
            PROVE  Covers(inc, g, t, p, k)
        <4>1. k + 1 \in DOMAIN s /\ s[k + 1] = t[k] /\ k + 1 \in 2..(L + 1) /\ (k + 1) - 1 = k
          BY <1>1, <1>3
        <4>2. p \in Staged
          BY <3>1, MessagesAre
        <4>3. Covers(inc, h, s, p, k + 1)
          BY <3>1, <4>1 DEF ObjectsAreWhole
        <4> QED BY <2>1, <4>1, <4>2, <4>3 DEF Covers
      <3>2. ASSUME NEW p \in Staged, Known(inc, g, t, p), p \notin d
            PROVE  Covers(inc, g, t, p, Len(t) + 1)
        <4>1. Covers(inc, h, s, p, L + 1)
          BY <1>1, <2>2, <3>2 DEF ObjectsAreWhole
        <4>2. L + 1 \in 2..(L + 1) /\ (L + 1) - 1 = Len(t) + 1
          BY <1>1, <1>3
        <4> QED BY <2>1, <4>1, <4>2 DEF Covers
      <3> QED BY <1>2, <1>5, <3>1, <3>2 DEF ObjectsAreWhole
  <1>6. CASE h = NoMessage /\ m.type = "frame" /\ g = [m EXCEPT !.type = "verify"]
    <2>1. /\ m.path \in Staged /\ m.index \in 1..Frames /\ m = FrameOf(m.path, m.index)
          /\ g.path = m.path /\ g.index = m.index /\ g.type = "verify" /\ g # NoMessage
      <3>1. m.path \in Staged /\ m.index \in 1..Frames /\ m = FrameOf(m.path, m.index)
        BY <1>6, MessagesAre
      <3>2. g = [type |-> "verify", path |-> m.path, index |-> m.index]
        BY <1>6, <3>1 DEF FrameOf
      <3> QED BY <3>1, <3>2, HandlingsAre
    <2>2. ASSUME NEW p \in Staged, NEW n \in 1..Frames, NEW k \in 2..(L + 1), AtHand(inc, h, s, p, n, k)
          PROVE  AtHand(inc, g, t, p, n, k - 1)
      <3> SUFFICES ASSUME NEW i \in 1..L, i < k, s[i] = FrameOf(p, n)
                   PROVE  AtHand(inc, g, t, p, n, k - 1)
        BY <1>1, <1>6, <2>2 DEF AtHand
      <3>1. CASE i = 1
        <4>1. m.path = p /\ m.index = n
          BY <1>4, <3>1 DEF FrameOf
        <4> QED BY <2>1, <4>1 DEF AtHand
      <3>2. CASE i # 1
        <4>1. i - 1 \in 1..(L - 1) /\ i - 1 < k - 1 /\ (i - 1) + 1 = i
          BY <1>1, <3>2
        <4> QED BY <1>3, <4>1 DEF AtHand
      <3> QED BY <3>1, <3>2
    <2>3. \A p \in Staged : Known(inc, g, t, p) => Known(inc, h, s, p)
      BY <1>1, <1>3, <1>4, <1>6, <2>1 DEF Known
    <2>4. ASSUME NEW k \in DOMAIN t, t[k].type = "result", NEW p \in t[k].after, p \notin d
          PROVE  Covers(inc, g, t, p, k)
      <3>1. k + 1 \in DOMAIN s /\ s[k + 1] = t[k] /\ k + 1 \in 2..(L + 1) /\ (k + 1) - 1 = k
        BY <1>1, <1>3
      <3>2. p \in Staged
        BY <2>4, MessagesAre
      <3>3. Covers(inc, h, s, p, k + 1)
        BY <2>4, <3>1 DEF ObjectsAreWhole
      <3> QED BY <2>2, <3>1, <3>2, <3>3 DEF Covers
    <2>5. ASSUME NEW p \in Staged, Known(inc, g, t, p), p \notin d
          PROVE  Covers(inc, g, t, p, Len(t) + 1)
      <3>1. Covers(inc, h, s, p, L + 1)
        BY <1>1, <2>3, <2>5 DEF ObjectsAreWhole
      <3>2. L + 1 \in 2..(L + 1) /\ (L + 1) - 1 = Len(t) + 1
        BY <1>1, <1>3
      <3> QED BY <2>2, <3>1, <3>2 DEF Covers
    <2>6. \A p \in Staged : inc[p] = 1..Frames => p \in d
      BY <1>6 DEF ObjectsAreWhole, NoMessage
    <2> QED BY <1>2, <2>4, <2>5, <2>6 DEF ObjectsAreWhole
  <1> QED BY <1>4, <1>5, <1>6

\* The frame that is looked at is received, or its object is there already.
LEMMA WholeOfKept ==
  ASSUME NEW inc \in [Staged -> SUBSET (1..Frames)], NEW h \in Handlings, h.type = "verify",
         NEW s \in Seq(LiveMessages), NEW d \in SUBSET Staged, ObjectsAreWhole(inc, h, s, d)
  PROVE  LET frames == inc[h.path] \cup {h.index}
         IN IF h.path \in d THEN ObjectsAreWhole(inc, NoMessage, s, d)
            ELSE ObjectsAreWhole([inc EXCEPT ![h.path] = frames],
                                 IF frames = 1..Frames THEN [h EXCEPT !.type = "store"] ELSE NoMessage, s, d)
  <1>1. h # NoMessage /\ h.path \in Staged /\ h.index \in 1..Frames
    BY HandlingsAre
  <1>2. \A k \in DOMAIN s : s[k] \in LiveMessages /\ (s[k].type = "result" => s[k].after \subseteq Staged)
    <2>1. \A k \in DOMAIN s : s[k] \in LiveMessages
      OBVIOUS
    <2> QED BY <2>1, MessagesAre
  <1>3. CASE h.path \in d
    <2>1. ASSUME NEW p \in Staged \ d, NEW k, Covers(inc, h, s, p, k) PROVE Covers(inc, NoMessage, s, p, k)
      BY <1>3, <2>1 DEF Covers, AtHand
    <2>2. \A p \in Staged : Known(inc, NoMessage, s, p) => Known(inc, h, s, p)
      BY DEF Known
    <2>3. ASSUME NEW k \in DOMAIN s, s[k].type = "result", NEW p \in s[k].after, p \notin d
          PROVE  Covers(inc, NoMessage, s, p, k)
      BY <1>2, <2>1, <2>3 DEF ObjectsAreWhole
    <2>4. ASSUME NEW p \in Staged, Known(inc, NoMessage, s, p), p \notin d
          PROVE  Covers(inc, NoMessage, s, p, Len(s) + 1)
      BY <2>1, <2>2, <2>4 DEF ObjectsAreWhole
    <2>5. ASSUME NEW p \in Staged, inc[p] = 1..Frames PROVE p \in d
      BY <1>3, <2>5 DEF ObjectsAreWhole
    <2>6. ObjectsAreWhole(inc, NoMessage, s, d)
      BY <2>3, <2>4, <2>5 DEF ObjectsAreWhole
    <2> QED BY <1>3, <2>6
  <1>4. CASE h.path \notin d
    <2> DEFINE frames == inc[h.path] \cup {h.index}
               jnc == [inc EXCEPT ![h.path] = frames]
               g == IF frames = 1..Frames THEN [h EXCEPT !.type = "store"] ELSE NoMessage
    <2>1. /\ jnc[h.path] = frames /\ h.index \in frames /\ inc[h.path] \subseteq frames
          /\ \A p \in Staged : p # h.path => jnc[p] = inc[p]
      BY <1>1
    <2>2. IF frames = 1..Frames THEN g # NoMessage /\ g.path = h.path /\ g.type = "store" ELSE g = NoMessage
      <3>1. [h EXCEPT !.type = "store"] = [type |-> "store", path |-> h.path, index |-> h.index]
        BY HandlingsAre
      <3>2. [type |-> "store", path |-> h.path, index |-> h.index] \in Handlings
        BY <1>1 DEF Handlings
      <3>3. [h EXCEPT !.type = "store"] # NoMessage /\ [h EXCEPT !.type = "store"].path = h.path
            /\ [h EXCEPT !.type = "store"].type = "store"
        BY <3>1, <3>2, HandlingsAre
      <3> QED BY <3>3
    <2> HIDE DEF frames, jnc, g
    <2>3. ASSUME NEW p \in Staged, NEW k, Covers(inc, h, s, p, k) PROVE Covers(jnc, g, s, p, k)
      <3>1. ASSUME NEW n \in 1..Frames PROVE AtHand(jnc, g, s, p, n, k)
        <4>1. AtHand(inc, h, s, p, n, k)
          BY <2>3 DEF Covers
        <4> QED BY <2>1, <4>1 DEF AtHand
      <3> QED BY <3>1 DEF Covers
    <2>4. ASSUME NEW p \in Staged, Known(jnc, g, s, p) PROVE Known(inc, h, s, p)
      <3>1. CASE p = h.path
        BY <1>1, <3>1 DEF Known
      <3>2. CASE p # h.path
        BY <2>1, <2>2, <2>4, <3>2 DEF Known
      <3> QED BY <3>1, <3>2
    <2>5. ASSUME NEW k \in DOMAIN s, s[k].type = "result", NEW p \in s[k].after, p \notin d
          PROVE  Covers(jnc, g, s, p, k)
      BY <1>2, <2>3, <2>5 DEF ObjectsAreWhole
    <2>6. ASSUME NEW p \in Staged, Known(jnc, g, s, p), p \notin d
          PROVE  Covers(jnc, g, s, p, Len(s) + 1)
      BY <2>3, <2>4, <2>6 DEF ObjectsAreWhole
    <2>7. ASSUME NEW p \in Staged, jnc[p] = 1..Frames PROVE p \in d \/ (g.type = "store" /\ g.path = p)
      <3>1. CASE p = h.path
        BY <2>1, <2>2, <2>7, <3>1
      <3>2. CASE p # h.path
        BY <2>1, <2>7, <3>2 DEF ObjectsAreWhole
      <3> QED BY <3>1, <3>2
    <2>8. ObjectsAreWhole(jnc, g, s, d)
      BY <2>5, <2>6, <2>7 DEF ObjectsAreWhole
    <2> QED BY <1>4, <2>8 DEF frames, jnc, g
  <1> QED BY <1>3, <1>4

\* The object is stored.
LEMMA WholeOfStored ==
  ASSUME NEW inc \in [Staged -> SUBSET (1..Frames)], NEW h \in Handlings, h.type = "store",
         NEW s \in Seq(LiveMessages), NEW d \in SUBSET Staged, ObjectsAreWhole(inc, h, s, d)
  PROVE  ObjectsAreWhole([inc EXCEPT ![h.path] = {}], NoMessage, s, d \cup {h.path})
  <1>1. h # NoMessage /\ h.path \in Staged
    BY HandlingsAre
  <1> DEFINE jnc == [inc EXCEPT ![h.path] = {}]
  <1>2. jnc[h.path] = {} /\ \A p \in Staged : p # h.path => jnc[p] = inc[p]
    BY <1>1
  <1> HIDE DEF jnc
  <1>3. \A k \in DOMAIN s : s[k] \in LiveMessages /\ (s[k].type = "result" => s[k].after \subseteq Staged)
    <2>1. \A k \in DOMAIN s : s[k] \in LiveMessages
      OBVIOUS
    <2> QED BY <2>1, MessagesAre
  <1>4. ASSUME NEW p \in Staged \ (d \cup {h.path}), NEW k, Covers(inc, h, s, p, k)
        PROVE  Covers(jnc, NoMessage, s, p, k)
    BY <1>2, <1>4 DEF Covers, AtHand
  <1>5. ASSUME NEW p \in Staged \ {h.path}, Known(jnc, NoMessage, s, p) PROVE Known(inc, h, s, p)
    BY <1>2, <1>5 DEF Known
  <1>6. ASSUME NEW k \in DOMAIN s, s[k].type = "result", NEW p \in s[k].after, p \notin d \cup {h.path}
        PROVE  Covers(jnc, NoMessage, s, p, k)
    BY <1>3, <1>4, <1>6 DEF ObjectsAreWhole
  <1>7. ASSUME NEW p \in Staged, Known(jnc, NoMessage, s, p), p \notin d \cup {h.path}
        PROVE  Covers(jnc, NoMessage, s, p, Len(s) + 1)
    BY <1>4, <1>5, <1>7 DEF ObjectsAreWhole
  <1>8. ASSUME NEW p \in Staged, jnc[p] = 1..Frames PROVE p \in d \cup {h.path}
    BY <1>2, <1>8 DEF ObjectsAreWhole
  <1>9. ObjectsAreWhole(jnc, NoMessage, s, d \cup {h.path})
    BY <1>6, <1>7, <1>8 DEF ObjectsAreWhole
  <1> QED BY <1>9 DEF jnc

\* More comes on the socket: no frame, and a result only after objects that are known.
LEMMA WholeOfMore ==
  ASSUME NEW inc \in [Staged -> SUBSET (1..Frames)], NEW h \in Handlings,
         NEW s \in Seq(LiveMessages), NEW d \in SUBSET Staged, ObjectsAreWhole(inc, h, s, d),
         NEW m \in LiveMessages, m.type # "frame",
         m.type = "result" => \A p \in m.after : p \in d \/ Known(inc, h, s, p)
  PROVE  ObjectsAreWhole(inc, h, Append(s, m), d)
  <1>1. PICK L \in Nat : L = Len(s) /\ DOMAIN s = 1..L
    OBVIOUS
  <1>2. PICK t \in Seq(LiveMessages) : t = Append(s, m)
    <2>1. Append(s, m) \in Seq(LiveMessages)
      OBVIOUS
    <2> QED BY <2>1
  <1>3. /\ Len(t) = L + 1 /\ DOMAIN t = 1..(L + 1) /\ t[L + 1] = m
        /\ \A i \in 1..L : t[i] = s[i] /\ i \in 1..(L + 1)
    BY <1>1, <1>2
  <1>4. ASSUME NEW p, NEW k \in 1..(L + 1), NEW l \in {k, k + 1}, Covers(inc, h, s, p, k)
        PROVE  Covers(inc, h, t, p, l)
    <2>1. ASSUME NEW n \in 1..Frames PROVE AtHand(inc, h, t, p, n, l)
      <3>1. AtHand(inc, h, s, p, n, k)
        BY <1>4 DEF Covers
      <3>2. \A i \in 1..L : i < k => i < l
        BY <1>1
      <3> QED BY <1>1, <1>3, <3>1, <3>2 DEF AtHand
    <2> QED BY <2>1 DEF Covers
  <1>5. ASSUME NEW p \in Staged, Known(inc, h, t, p) PROVE Known(inc, h, s, p)
    <2> SUFFICES ASSUME NEW i \in 1..(L + 1), t[i].type = "frame", t[i].path = p PROVE Known(inc, h, s, p)
      BY <1>3, <1>5 DEF Known
    <2>1. i # L + 1
      BY <1>3
    <2>2. i \in 1..L
      BY <1>1, <2>1
    <2> QED BY <1>1, <1>3, <2>2 DEF Known
  <1>6. ASSUME NEW k \in DOMAIN t, t[k].type = "result", NEW p \in t[k].after, p \notin d
        PROVE  Covers(inc, h, t, p, k)
    <2>1. CASE k \in 1..L
      <3>1. Covers(inc, h, s, p, k)
        BY <1>1, <1>3, <1>6, <2>1 DEF ObjectsAreWhole
      <3> QED BY <1>3, <1>4, <2>1, <3>1
    <2>2. CASE k = L + 1
      <3>1. p \in Staged /\ Known(inc, h, s, p)
        BY <1>3, <1>6, <2>2, MessagesAre
      <3>2. Covers(inc, h, s, p, L + 1)
        BY <1>1, <1>6, <3>1 DEF ObjectsAreWhole
      <3>3. L + 1 \in 1..(L + 1)
        BY <1>1
      <3> QED BY <1>4, <2>2, <3>2, <3>3
    <2>3. k \in 1..L \/ k = L + 1
      BY <1>1, <1>3
    <2> QED BY <2>1, <2>2, <2>3
  <1>7. ASSUME NEW p \in Staged, Known(inc, h, t, p), p \notin d PROVE Covers(inc, h, t, p, Len(t) + 1)
    <2>1. Covers(inc, h, s, p, L + 1)
      BY <1>1, <1>5, <1>7 DEF ObjectsAreWhole
    <2>2. L + 1 \in 1..(L + 1) /\ Len(t) + 1 = (L + 1) + 1
      BY <1>1, <1>3
    <2> QED BY <1>4, <2>1, <2>2
  <1> QED BY <1>2, <1>6, <1>7 DEF ObjectsAreWhole

\* All frames of an object come.
LEMMA WholeOfFrames ==
  ASSUME NEW inc \in [Staged -> SUBSET (1..Frames)], NEW h \in Handlings,
         NEW s \in Seq(LiveMessages), NEW d \in SUBSET Staged, ObjectsAreWhole(inc, h, s, d),
         NEW q \in Staged
  PROVE  /\ s \o FramesOf(q) \in Seq(LiveMessages)
         /\ ResultsIn(s \o FramesOf(q)) = ResultsIn(s)
         /\ \A i \in ResultsIn(s) : s[i] = (s \o FramesOf(q))[i]
         /\ ObjectsAreWhole(inc, h, s \o FramesOf(q), d)
  <1>1. PICK L \in Nat : L = Len(s) /\ DOMAIN s = 1..L
    OBVIOUS
  <1>2. PICK f \in Seq(LiveMessages) : /\ f = FramesOf(q) /\ Len(f) = Frames /\ DOMAIN f = 1..Frames
                                       /\ \A i \in 1..Frames : f[i] = FrameOf(q, i) /\ f[i].type = "frame"
    BY FramesAre
  <1>3. Frames \in Nat
    BY FramesAre
  <1>4. PICK t \in Seq(LiveMessages) : t = s \o f
    <2>1. s \o f \in Seq(LiveMessages)
      OBVIOUS
    <2> QED BY <2>1
  <1>5. /\ Len(t) = L + Frames /\ DOMAIN t = 1..(L + Frames)
        /\ \A i \in 1..L : t[i] = s[i] /\ i \in 1..(L + Frames)
        /\ \A i \in 1..Frames : t[L + i] = f[i] /\ L + i \in 1..(L + Frames) /\ L + i < L + Frames + 1
        /\ \A i \in 1..(L + Frames) : i \in 1..L \/ (i - L \in 1..Frames /\ L + (i - L) = i)
    <2>1. Len(t) = L + Frames /\ DOMAIN t = 1..(L + Frames)
      <3>1. Len(s \o f) = Len(s) + Len(f)
        OBVIOUS
      <3>2. DOMAIN t = 1..Len(t)
        OBVIOUS
      <3> QED BY <1>1, <1>2, <1>4, <3>1, <3>2
    <2>2. \A i \in 1..L : t[i] = s[i] /\ i \in 1..(L + Frames)
      BY <1>1, <1>2, <1>3, <1>4
    <2>3. ASSUME NEW i \in 1..Frames
          PROVE  t[L + i] = f[i] /\ L + i \in 1..(L + Frames) /\ L + i < L + Frames + 1
      BY <1>1, <1>2, <1>3, <1>4
    <2>4. \A i \in 1..(L + Frames) : i \in 1..L \/ (i - L \in 1..Frames /\ L + (i - L) = i)
      BY <1>1, <1>3
    <2> QED BY <2>1, <2>2, <2>3, <2>4
  <1>6. ResultsIn(t) = ResultsIn(s) /\ \A i \in ResultsIn(s) : s[i] = t[i]
    <2>1. ASSUME NEW i \in 1..(L + Frames), t[i].type = "result" PROVE i \in 1..L
      <3>1. \A j \in 1..Frames : t[L + j].type = "frame"
        BY <1>2, <1>5
      <3> QED BY <1>5, <2>1, <3>1
    <2> QED BY <1>1, <1>5, <2>1 DEF ResultsIn
  <1>7. ASSUME NEW p, NEW k, NEW l, Covers(inc, h, s, p, k), \A i \in 1..L : i < k => i < l
        PROVE  Covers(inc, h, t, p, l)
    <2>1. ASSUME NEW n \in 1..Frames PROVE AtHand(inc, h, t, p, n, l)
      <3>1. AtHand(inc, h, s, p, n, k)
        BY <1>7 DEF Covers
      <3> QED BY <1>1, <1>5, <1>7, <3>1 DEF AtHand
    <2> QED BY <2>1 DEF Covers
  <1>8. ASSUME NEW p \in Staged, Known(inc, h, t, p), p # q PROVE Known(inc, h, s, p)
    <2> SUFFICES ASSUME NEW i \in 1..(L + Frames), t[i].type = "frame", t[i].path = p PROVE Known(inc, h, s, p)
      BY <1>5, <1>8 DEF Known
    <2>1. ASSUME NEW j \in 1..Frames PROVE t[L + j].path = q
      <3>1. t[L + j] = FrameOf(q, j)
        BY <1>2, <1>5
      <3> QED BY <3>1 DEF FrameOf
    <2>2. i \in 1..L
      BY <1>5, <1>8, <2>1
    <2> QED BY <1>1, <1>5, <2>2 DEF Known
  <1>9. ASSUME NEW k \in DOMAIN t, t[k].type = "result", NEW p \in t[k].after, p \notin d
        PROVE  Covers(inc, h, t, p, k)
    <2>1. k \in DOMAIN s /\ s[k] = t[k] /\ s[k].type = "result"
      BY <1>6, <1>9 DEF ResultsIn
    <2>2. Covers(inc, h, s, p, k)
      BY <1>9, <2>1 DEF ObjectsAreWhole
    <2> QED BY <1>7, <2>2
  <1>10. ASSUME NEW p \in Staged, Known(inc, h, t, p), p \notin d PROVE Covers(inc, h, t, p, Len(t) + 1)
    <2>1. CASE p = q
      <3>1. \A n \in 1..Frames : L + n \in DOMAIN t /\ L + n < Len(t) + 1 /\ t[L + n] = FrameOf(p, n)
        BY <1>2, <1>5, <2>1
      <3> QED BY <3>1 DEF Covers, AtHand
    <2>2. CASE p # q
      <3>1. Covers(inc, h, s, p, L + 1)
        BY <1>1, <1>8, <1>10, <2>2 DEF ObjectsAreWhole
      <3>2. \A i \in 1..L : i < L + 1 => i < Len(t) + 1
        BY <1>1, <1>3, <1>5
      <3> QED BY <1>7, <3>1, <3>2
    <2> QED BY <2>1, <2>2
  <1>11. ObjectsAreWhole(inc, h, t, d)
    BY <1>9, <1>10 DEF ObjectsAreWhole
  <1> QED BY <1>2, <1>4, <1>6, <1>11

\* The results on the socket, as messages come and go.
LEMMA ResultsFollow ==
  ASSUME NEW s \in Seq(LiveMessages)
  PROVE  /\ Picked(s, ResultsIn(s)) \in Seq(LiveMessages)
         /\ s # <<>> =>
              Picked(Tail(s), ResultsIn(Tail(s))) =
                IF Head(s).type = "result" THEN Tail(Picked(s, ResultsIn(s))) ELSE Picked(s, ResultsIn(s))
         /\ s # <<>> /\ Head(s).type = "result" =>
              Picked(s, ResultsIn(s)) # <<>> /\ Picked(s, ResultsIn(s))[1] = Head(s)
         /\ \A m \in LiveMessages :
              Picked(Append(s, m), ResultsIn(Append(s, m))) =
                IF m.type = "result" THEN Append(Picked(s, ResultsIn(s)), m) ELSE Picked(s, ResultsIn(s))
  <1>1. PICK L \in Nat : L = Len(s) /\ DOMAIN s = 1..L
    OBVIOUS
  <1>2. PICK I : I = ResultsIn(s)
    OBVIOUS
  <1>3. I \subseteq DOMAIN s /\ Picked(s, I) \in Seq(LiveMessages)
    <2>1. I \subseteq DOMAIN s
      BY <1>2 DEF ResultsIn
    <2> QED BY <2>1, PickedIs
  <1>4. ASSUME s # <<>>
        PROVE  Picked(Tail(s), ResultsIn(Tail(s))) =
                 IF Head(s).type = "result" THEN Tail(Picked(s, I)) ELSE Picked(s, I)
    <2>1. L # 0 /\ 1 \in DOMAIN s /\ Head(s) = s[1]
      BY <1>1, <1>4
    <2>2. DOMAIN Tail(s) = 1..(L - 1) /\ \A i \in 1..(L - 1) : Tail(s)[i] = s[i + 1] /\ i + 1 \in 1..L
      BY <1>1, <1>4
    <2>3. ResultsIn(Tail(s)) = {i \in DOMAIN Tail(s) : i + 1 \in I}
      BY <1>1, <1>2, <2>2 DEF ResultsIn
    <2>4. 1 \in I <=> Head(s).type = "result"
      BY <1>2, <2>1 DEF ResultsIn
    <2>5. Picked(Tail(s), {i \in DOMAIN Tail(s) : i + 1 \in I}) =
            IF 1 \in I THEN Tail(Picked(s, I)) ELSE Picked(s, I)
      BY <1>3, <1>4, PickedTail
    <2> QED BY <2>3, <2>4, <2>5
  <1>5. ASSUME s # <<>>, Head(s).type = "result"
        PROVE  Picked(s, I) # <<>> /\ Picked(s, I)[1] = Head(s)
    <2>1. 1 \in I /\ Head(s) = s[1]
      BY <1>1, <1>2, <1>5 DEF ResultsIn
    <2>2. PICK N \in Nat : /\ N = Cardinality(I) /\ DOMAIN Picked(s, I) = 1..N
                           /\ \A n \in 1..N : Nth(I, n) \in I /\ Picked(s, I)[n] = s[Nth(I, n)]
                           /\ \A m, n \in 1..N : m < n => Nth(I, m) < Nth(I, n)
                           /\ \A i \in I : \E n \in 1..N : Nth(I, n) = i
      <3>1. I \subseteq DOMAIN s
        BY <1>3
      <3>2. /\ Cardinality(I) \in Nat /\ DOMAIN Picked(s, I) = 1..Cardinality(I)
            /\ \A n \in 1..Cardinality(I) : Nth(I, n) \in I /\ Picked(s, I)[n] = s[Nth(I, n)]
            /\ \A m, n \in 1..Cardinality(I) : m < n => Nth(I, m) < Nth(I, n)
            /\ \A i \in I : \E n \in 1..Cardinality(I) : Nth(I, n) = i
        BY <3>1, PickedIs
      <3> QED BY <3>2, Zenon
    <2>3. PICK n \in 1..N : Nth(I, n) = 1
      BY <2>1, <2>2
    <2>4. 1 \in 1..N
      BY <2>2
    <2>5. n = 1
      <3>1. CASE 1 < n
        <4>1. Nth(I, 1) < 1 /\ Nth(I, 1) \in 1..L
          BY <1>1, <1>3, <2>2, <2>3, <2>4, <3>1
        <4> QED BY <4>1
      <3> QED BY <2>3, <3>1
    <2>6. Picked(s, I)[1] = s[1]
      BY <2>2, <2>3, <2>4, <2>5
    <2> QED BY <1>3, <2>1, <2>2, <2>4, <2>6
  <1>6. ASSUME NEW m \in LiveMessages
        PROVE  Picked(Append(s, m), ResultsIn(Append(s, m))) =
                 IF m.type = "result" THEN Append(Picked(s, I), m) ELSE Picked(s, I)
    <2>1. DOMAIN Append(s, m) = 1..(L + 1) /\ Append(s, m)[L + 1] = m
          /\ \A i \in 1..L : Append(s, m)[i] = s[i]
      BY <1>1
    <2>2. 1..(L + 1) = 1..L \cup {L + 1}
      BY <1>1
    <2>3. ResultsIn(Append(s, m)) = IF m.type = "result" THEN I \cup {L + 1} ELSE I
      BY <1>1, <1>2, <2>1, <2>2 DEF ResultsIn
    <2>4. /\ Picked(Append(s, m), I) = Picked(s, I)
          /\ Picked(Append(s, m), I \cup {L + 1}) = Append(Picked(s, I), m)
      <3>1. I \subseteq DOMAIN s
        BY <1>3
      <3>2. /\ Picked(Append(s, m), I) = Picked(s, I)
            /\ Picked(Append(s, m), I \cup {Len(s) + 1}) = Append(Picked(s, I), m)
        BY <3>1, PickedAppend
      <3> QED BY <1>1, <3>2
    <2> QED BY <2>3, <2>4
  <1> QED BY <1>2, <1>3, <1>4, <1>5, <1>6

\* Commits are awaited in the order in which Overlook answers them.
LEMMA OrderFollows ==
  ASSUME NEW r \in Seq(LiveMessages), NEW a \in Seq(Commits), NEW b \in Seq(Commits), InOrder(r, a, b)
  PROVE  /\ r # <<>> => b # <<>> /\ r[1].of = Head(b) /\ InOrder(Tail(r), a, Tail(b))
         /\ a # <<>> => \A m \in LiveMessages : m.of = Head(a) => InOrder(Append(r, m), Tail(a), b)
         /\ \A c \in Commits : InOrder(r, Append(a, c), Append(b, c))
  <1>1. PICK R \in Nat, A \in Nat : R = Len(r) /\ A = Len(a) /\ DOMAIN r = 1..R /\ DOMAIN a = 1..A
    OBVIOUS
  <1>2. Len(b) = R + A /\ DOMAIN b = 1..(R + A)
    BY <1>1 DEF InOrder
  <1>3. (\A n \in 1..R : r[n].of = b[n]) /\ (\A n \in 1..A : a[n] = b[R + n])
    BY <1>1 DEF InOrder
  <1>4. ASSUME r # <<>> PROVE b # <<>> /\ r[1].of = Head(b) /\ InOrder(Tail(r), a, Tail(b))
    <2>1. R # 0 /\ 1 \in 1..R /\ b # <<>> /\ Head(b) = b[1]
      BY <1>1, <1>2, <1>4
    <2>2. /\ Len(Tail(r)) = R - 1 /\ Len(Tail(b)) = (R - 1) + A
          /\ \A n \in 1..(R - 1) : Tail(r)[n] = r[n + 1] /\ n + 1 \in 1..R
          /\ \A n \in 1..((R - 1) + A) : Tail(b)[n] = b[n + 1]
      BY <1>1, <1>2, <1>4, <2>1
    <2>3. \A n \in 1..(R - 1) : Tail(r)[n].of = Tail(b)[n]
      <3>1. \A n \in 1..(R - 1) : n \in 1..((R - 1) + A)
        BY <1>1
      <3> QED BY <1>3, <2>2, <3>1
    <2>4. \A n \in 1..A : a[n] = Tail(b)[(R - 1) + n]
      <3>1. \A n \in 1..A : (R - 1) + n \in 1..((R - 1) + A) /\ ((R - 1) + n) + 1 = R + n
        BY <1>1, <2>1
      <3> QED BY <1>3, <2>2, <3>1
    <2> QED BY <1>1, <1>3, <2>1, <2>2, <2>3, <2>4 DEF InOrder
  <1>5. ASSUME a # <<>>, NEW m \in LiveMessages, m.of = Head(a) PROVE InOrder(Append(r, m), Tail(a), b)
    <2>1. A # 0 /\ 1 \in 1..A /\ Head(a) = a[1]
      BY <1>1, <1>5
    <2>2. /\ Len(Append(r, m)) = R + 1 /\ Append(r, m)[R + 1] = m /\ (\A n \in 1..R : Append(r, m)[n] = r[n])
          /\ Len(Tail(a)) = A - 1 /\ (\A n \in 1..(A - 1) : Tail(a)[n] = a[n + 1] /\ n + 1 \in 1..A)
      BY <1>1, <1>5, <2>1
    <2>3. \A n \in 1..(R + 1) : Append(r, m)[n].of = b[n]
      <3>1. \A n \in 1..(R + 1) : n \in 1..R \/ n = R + 1
        BY <1>1
      <3>2. m.of = b[R + 1]
        BY <1>3, <1>5, <2>1
      <3> QED BY <1>3, <2>2, <3>1, <3>2
    <2>4. \A n \in 1..(A - 1) : Tail(a)[n] = b[(R + 1) + n]
      <3>1. \A n \in 1..(A - 1) : R + (n + 1) = (R + 1) + n
        BY <1>1
      <3> QED BY <1>3, <2>2, <3>1
    <2>5. R + A = (R + 1) + (A - 1)
      BY <1>1
    <2> QED BY <1>2, <2>2, <2>3, <2>4, <2>5 DEF InOrder
  <1>6. ASSUME NEW c \in Commits PROVE InOrder(r, Append(a, c), Append(b, c))
    <2>1. /\ Len(Append(a, c)) = A + 1 /\ Append(a, c)[A + 1] = c /\ (\A n \in 1..A : Append(a, c)[n] = a[n])
          /\ Len(Append(b, c)) = R + (A + 1) /\ Append(b, c)[R + (A + 1)] = c
          /\ \A n \in 1..(R + A) : Append(b, c)[n] = b[n]
      <3>1. Len(Append(b, c)) = (R + A) + 1 /\ Append(b, c)[(R + A) + 1] = c
            /\ \A n \in 1..(R + A) : Append(b, c)[n] = b[n]
        BY <1>2
      <3>2. (R + A) + 1 = R + (A + 1)
        BY <1>1
      <3>3. Len(Append(a, c)) = A + 1 /\ Append(a, c)[A + 1] = c /\ \A n \in 1..A : Append(a, c)[n] = a[n]
        BY <1>1
      <3> QED BY <3>1, <3>2, <3>3
    <2>2. \A n \in 1..R : r[n].of = Append(b, c)[n]
      <3>1. \A n \in 1..R : n \in 1..(R + A)
        BY <1>1
      <3> QED BY <1>3, <2>1, <3>1
    <2>3. \A n \in 1..(A + 1) : Append(a, c)[n] = Append(b, c)[R + n]
      <3>1. \A n \in 1..(A + 1) : (n \in 1..A /\ R + n \in 1..(R + A)) \/ n = A + 1
        BY <1>1
      <3> QED BY <1>3, <2>1, <3>1
    <2> QED BY <1>1, <2>1, <2>2, <2>3 DEF InOrder
  <1> QED BY <1>4, <1>5, <1>6

\* A commit that has failed with the session, or whose session is not open, is settled.
LEMMA CommitsStep ==
  ASSUME LlInv, [LlNext]_llVars
  PROVE  CommitsAreAwaited' /\ CommitGetsItsResult'
  <1>1. /\ commit \in [Commits -> CommitStates] /\ barrier \in Seq(Commits) /\ asked \in Seq(Commits)
        /\ socket \in Seq(LiveMessages) /\ incoming \in [Staged -> SUBSET (1..Frames)]
        /\ handling \in Handlings /\ durable \in SUBSET Staged
        /\ Unbegun /\ CommitsAreAwaited /\ CommitGetsItsResult
    BY LlTypesAre DEF LlInv
  <1>2. durable \subseteq durable'
    BY ObjectTypes DEF LlInv
  \* Commits
  <1>3. ASSUME \A c \in Commits : commit'[c].pc = "done" => commit'[c] = commit[c]
        PROVE  CommitGetsItsResult'
    BY <1>1, <1>2, <1>3 DEF CommitGetsItsResult
  <1>4. CASE Fail \/ FailAs("closing") \/ FailAs("closed")
    <2>1. ~Open' /\ \A c \in Commits : commit'[c].pc = "done" => commit'[c] = commit[c]
      BY <1>1, <1>4, FailKeepsCommits
    <2> QED BY <1>3, <2>1 DEF CommitsAreAwaited
  \* The session stays as it is
  <1>5. CASE UNCHANGED <<phase, commit, barrier, incoming, handling, durable, asked, socket>>
    BY <1>1, <1>3, <1>5 DEF CommitsAreAwaited, Open
  <1>6. CASE UNCHANGED commit /\ ~Open'
    BY <1>3, <1>6 DEF CommitsAreAwaited
  <1>7. CASE Advance /\ phase' = "connected"
    <2>1. /\ socket' = <<>> /\ asked' = <<>> /\ barrier' = <<>> /\ handling' = NoMessage
          /\ (\A p \in Staged : incoming'[p] = {}) /\ commit' = commit
      BY <1>1, <1>7 DEF Advance, Unbegun, Handshake, overlook
    <2>2. ObjectsAreWhole(incoming', handling', socket', durable')
      <3>1. {} # 1..Frames
        BY FramesAssumption
      <3>2. DOMAIN socket' = {}
        BY <2>1
      <3> QED BY <2>1, <3>1, <3>2 DEF ObjectsAreWhole, Known
    <2>3. InOrder(Picked(socket', ResultsIn(socket')), asked', barrier')
      <3>1. ResultsIn(<<>>) = {}
        BY DEF ResultsIn
      <3>2. <<>> \in Seq(LiveMessages) /\ {} \subseteq DOMAIN <<>> /\ {} \subseteq Nat
        OBVIOUS
      <3>3. Len(Picked(<<>>, {})) = 0
        <4>1. Len(Picked(<<>>, {})) = Cardinality({})
          BY <3>2, PickedIs
        <4> QED BY <4>1, FS_EmptySet
      <3>4. PICK r : r = Picked(<<>>, {}) /\ Len(r) = 0
        BY <3>3
      <3>5. InOrder(r, <<>>, <<>>)
        BY <3>4 DEF InOrder
      <3> QED BY <2>1, <3>1, <3>4, <3>5
    <2> QED BY <1>3, <2>1, <2>2, <2>3 DEF CommitsAreAwaited
  \* Overlook sends
  <1>8. ASSUME NEW u \in Puts, OverlookKeeps(u) PROVE CommitsAreAwaited' /\ CommitGetsItsResult'
    <2> DEFINE m == [type |-> "ack", path |-> PutPath[u]]
    <2>1. /\ UNCHANGED <<phase, commit, barrier, incoming, handling, durable, asked>>
          /\ socket' = Append(socket, m)
      BY <1>8 DEF OverlookKeeps, session
    <2>2. m \in LiveMessages /\ m.type = "ack"
      BY DEF LiveMessages, PutPaths
    <2> HIDE DEF m
    <2>3. Open => ObjectsAreWhole(incoming, handling, socket', durable)
      BY <1>1, <2>1, <2>2, WholeOfMore DEF CommitsAreAwaited
    <2>4. Picked(socket', ResultsIn(socket')) = Picked(socket, ResultsIn(socket))
      BY <1>1, <2>1, <2>2, ResultsFollow
    <2> QED BY <1>1, <1>3, <2>1, <2>3, <2>4 DEF CommitsAreAwaited, Open
  <1>9. ASSUME NEW p \in Staged, OverlookSends(p) PROVE CommitsAreAwaited' /\ CommitGetsItsResult'
    <2>1. /\ UNCHANGED <<phase, commit, barrier, incoming, handling, durable, asked>> /\ Open
          /\ socket' = socket \o FramesOf(p)
      BY <1>9 DEF OverlookSends, FramesOf, FrameOf, session
    <2>2. ObjectsAreWhole(incoming, handling, socket, durable)
      BY <1>1, <2>1 DEF CommitsAreAwaited
    <2>3. /\ socket' \in Seq(LiveMessages) /\ ResultsIn(socket') = ResultsIn(socket)
          /\ \A i \in ResultsIn(socket) : socket[i] = socket'[i]
          /\ ObjectsAreWhole(incoming, handling, socket', durable)
      BY <1>1, <2>1, <2>2, WholeOfFrames
    <2>4. Picked(socket', ResultsIn(socket')) = Picked(socket, ResultsIn(socket))
      <3>1. ResultsIn(socket) \subseteq DOMAIN socket
        BY DEF ResultsIn
      <3>2. Picked(socket, ResultsIn(socket)) = Picked(socket', ResultsIn(socket))
        BY <1>1, <2>3, <3>1, PickedSame
      <3> QED BY <2>3, <3>2
    <2> QED BY <1>1, <1>3, <2>1, <2>3, <2>4 DEF CommitsAreAwaited, Open
  <1>10. CASE OverlookAnswers
    <2> DEFINE m == [type |-> "result", of |-> Head(asked), after |-> SentObjects]
    <2>1. /\ UNCHANGED <<phase, commit, barrier, incoming, handling, durable>>
          /\ asked # <<>> /\ asked' = Tail(asked) /\ socket' = Append(socket, m)
      BY <1>10 DEF OverlookAnswers, session
    <2>2. SentObjects \subseteq Staged
          /\ \A p \in SentObjects : p \in durable \/ Known(incoming, handling, socket, p)
      <3>1. \A j \in DOMAIN socket : socket[j].type = "frame" => socket[j].path \in Staged
        <4>1. \A j \in DOMAIN socket : socket[j] \in LiveMessages
          BY <1>1
        <4> QED BY <4>1, MessagesAre
      <3>2. handling # NoMessage => handling.path \in Staged
        BY <1>1, HandlingsAre
      <3> QED BY <1>1, <3>1, <3>2 DEF SentObjects, Known
    <2>3. m \in LiveMessages /\ m.type = "result" /\ m.of = Head(asked) /\ m.after = SentObjects
      <3>1. Head(asked) \in Commits
        BY <1>1, <2>1
      <3> QED BY <2>2, <3>1 DEF LiveMessages
    <2> HIDE DEF m
    <2>4. Open => ObjectsAreWhole(incoming, handling, socket', durable)
      <3>1. \A p \in m.after : p \in durable \/ Known(incoming, handling, socket, p)
        BY <2>2, <2>3
      <3>2. m.type # "frame"
        BY <2>3
      <3> QED BY <1>1, <2>1, <2>3, <3>1, <3>2, WholeOfMore DEF CommitsAreAwaited
    <2>5. Picked(socket', ResultsIn(socket')) = Append(Picked(socket, ResultsIn(socket)), m)
          /\ Picked(socket, ResultsIn(socket)) \in Seq(LiveMessages)
      BY <1>1, <2>1, <2>3, ResultsFollow
    <2>6. Open => InOrder(Picked(socket', ResultsIn(socket')), asked', barrier)
      BY <1>1, <2>1, <2>3, <2>5, OrderFollows DEF CommitsAreAwaited
    <2> QED BY <1>1, <1>3, <2>1, <2>4, <2>6 DEF CommitsAreAwaited, Open
  \* A commit is asked
  <1>11. ASSUME NEW c \in Commits, Commit(c) PROVE CommitsAreAwaited' /\ CommitGetsItsResult'
    <2>1. /\ UNCHANGED <<phase, incoming, handling, durable, socket>>
          /\ asked' = Append(asked, c) /\ barrier' = Append(barrier, c)
          /\ commit' = [commit EXCEPT ![c].pc = "waiting"]
      BY <1>11 DEF Commit
    <2>2. \A b \in Commits : commit'[b].pc = "done" => commit'[b] = commit[b]
      BY <1>1, <2>1 DEF CommitStates
    <2>3. Picked(socket, ResultsIn(socket)) \in Seq(LiveMessages)
      BY <1>1, ResultsFollow
    <2>4. Open => InOrder(Picked(socket, ResultsIn(socket)), asked', barrier')
      BY <1>1, <2>1, <2>3, OrderFollows DEF CommitsAreAwaited
    <2> QED BY <1>1, <1>3, <2>1, <2>2, <2>4 DEF CommitsAreAwaited, Open
  \* Messages are handled
  <1>12. CASE HandleAck /\ ~Fail
    <2>1. /\ UNCHANGED <<phase, commit, barrier, incoming, handling, durable, asked>>
          /\ socket # <<>> /\ socket' = Tail(socket) /\ Head(socket).type = "ack"
      BY <1>12 DEF HandleAck, NextMessage, overlook
    <2>2. Open => ObjectsAreWhole(incoming, handling, socket', durable)
      BY <1>1, <2>1, WholeOfTail DEF CommitsAreAwaited
    <2>3. Picked(socket', ResultsIn(socket')) = Picked(socket, ResultsIn(socket))
      BY <1>1, <2>1, ResultsFollow
    <2> QED BY <1>1, <1>3, <2>1, <2>2, <2>3 DEF CommitsAreAwaited, Open
  <1>13. CASE HandleFrame /\ ~Fail
    <2>1. /\ UNCHANGED <<phase, commit, barrier, incoming, durable, asked>> /\ Open /\ handling = NoMessage
          /\ socket # <<>> /\ socket' = Tail(socket) /\ Head(socket).type = "frame"
          /\ handling' = [Head(socket) EXCEPT !.type = "verify"]
      BY <1>13 DEF HandleFrame, NextMessage, overlook, session
    <2>2. handling' \in Handlings
      BY ObjectTypes DEF LlInv
    <2>3. ObjectsAreWhole(incoming, handling', socket', durable)
      BY <1>1, <2>1, <2>2, WholeOfTail DEF CommitsAreAwaited
    <2>4. Picked(socket', ResultsIn(socket')) = Picked(socket, ResultsIn(socket))
      BY <1>1, <2>1, ResultsFollow
    <2> QED BY <1>1, <1>3, <2>1, <2>3, <2>4 DEF CommitsAreAwaited, Open
  <1>14. CASE KeepFrame /\ ~Fail
    <2>1. /\ UNCHANGED <<phase, commit, barrier, durable, asked, socket>> /\ handling.type = "verify"
      BY <1>14 DEF KeepFrame, overlook, session
    <2>2. Open => ObjectsAreWhole(incoming', handling', socket, durable)
      <3> SUFFICES ASSUME Open PROVE ObjectsAreWhole(incoming', handling', socket, durable)
        OBVIOUS
      <3> DEFINE path == handling.path
                 frames == incoming[path] \cup {handling.index}
                 jnc == [incoming EXCEPT ![path] = frames]
                 g == IF frames = 1..Frames THEN [handling EXCEPT !.type = "store"] ELSE NoMessage
      <3>1. IF path \in durable THEN handling' = NoMessage /\ incoming' = incoming
                                ELSE incoming' = jnc /\ handling' = g
        BY <1>14 DEF KeepFrame
      <3>2. ObjectsAreWhole(incoming, handling, socket, durable)
        BY <1>1 DEF CommitsAreAwaited
      <3>3. IF path \in durable THEN ObjectsAreWhole(incoming, NoMessage, socket, durable)
                                ELSE ObjectsAreWhole(jnc, g, socket, durable)
        BY <1>1, <2>1, <3>2, WholeOfKept
      <3> HIDE DEF path, jnc, g
      <3> QED BY <3>1, <3>3
    <2> QED BY <1>1, <1>3, <2>1, <2>2 DEF CommitsAreAwaited, Open
  <1>15. CASE StoreObject /\ ~Fail
    <2>1. /\ UNCHANGED <<phase, commit, barrier, asked, socket>> /\ handling.type = "store"
          /\ handling' = NoMessage /\ durable' = durable \cup {handling.path}
          /\ incoming' = [incoming EXCEPT ![handling.path] = {}]
      BY <1>15 DEF StoreObject, overlook, session
    <2>2. Open => ObjectsAreWhole(incoming', handling', socket, durable')
      BY <1>1, <2>1, WholeOfStored DEF CommitsAreAwaited
    <2> QED BY <1>1, <1>3, <2>1, <2>2 DEF CommitsAreAwaited, Open
  <1>16. CASE HandleResult /\ Open
    <2>1. /\ phase' = phase /\ socket # <<>> /\ socket' = Tail(socket) /\ handling = NoMessage
          /\ Head(socket) \in LiveMessages /\ Head(socket).type = "result"
          /\ UNCHANGED <<incoming, handling, durable, asked>>
          /\ barrier # <<>> => barrier' = Tail(barrier)
          /\ \A c \in Commits :
               \/ commit'[c] = commit[c]
               \/ /\ barrier # <<>> /\ c = Head(barrier)
                  /\ commit'[c].result.of = Head(socket).of /\ commit'[c].result.after = Head(socket).after
      BY <1>1, <1>16, ResultSteps
    <2>2. /\ ObjectsAreWhole(incoming, handling, socket, durable)
          /\ InOrder(Picked(socket, ResultsIn(socket)), asked, barrier)
      BY <1>1, <1>16 DEF CommitsAreAwaited
    <2>3. ObjectsAreWhole(incoming, handling', socket', durable)
      BY <1>1, <2>1, <2>2, WholeOfTail
    <2>4. PICK r \in Seq(LiveMessages) :
            /\ r = Picked(socket, ResultsIn(socket)) /\ r # <<>> /\ r[1] = Head(socket)
            /\ Picked(socket', ResultsIn(socket')) = Tail(r)
      <3>1. /\ Picked(socket, ResultsIn(socket)) \in Seq(LiveMessages)
            /\ Picked(socket, ResultsIn(socket)) # <<>>
            /\ Picked(socket, ResultsIn(socket))[1] = Head(socket)
            /\ Picked(socket', ResultsIn(socket')) = Tail(Picked(socket, ResultsIn(socket)))
        BY <1>1, <2>1, ResultsFollow
      <3> QED BY <3>1
    <2>5. barrier # <<>> /\ r[1].of = Head(barrier) /\ InOrder(Tail(r), asked, Tail(barrier))
      BY <1>1, <2>2, <2>4, OrderFollows
    <2>6. CommitsAreAwaited'
      BY <2>1, <2>3, <2>4, <2>5 DEF CommitsAreAwaited
    <2>7. Head(socket).after \subseteq durable
      <3> SUFFICES ASSUME NEW p \in Head(socket).after, p \notin durable PROVE FALSE
        OBVIOUS
      <3>1. 1 \in DOMAIN socket /\ socket[1] = Head(socket) /\ p \in Staged
        BY <1>1, <2>1, MessagesAre
      <3>2. Covers(incoming, handling, socket, p, 1)
        BY <2>1, <2>2, <3>1 DEF ObjectsAreWhole
      <3>3. \A i \in DOMAIN socket : ~(i < 1)
        BY <1>1
      <3>4. incoming[p] = 1..Frames
        BY <1>1, <2>1, <3>1, <3>2, <3>3 DEF Covers, AtHand
      <3>5. handling.type = "store"
        BY <2>2, <3>1, <3>4 DEF ObjectsAreWhole
      <3> QED BY <2>1, <3>5 DEF NoMessage
    <2>8. CommitGetsItsResult'
      BY <1>1, <1>2, <2>1, <2>4, <2>5, <2>7 DEF CommitGetsItsResult
    <2> QED BY <2>6, <2>8
  \* The other steps
  <1>17. ASSUME NEW u \in Puts, Put(u) \/ Register(u) \/ Send(u) \/ Finish(u)
         PROVE  CommitsAreAwaited' /\ CommitGetsItsResult'
    <2>1. UNCHANGED <<phase, commit, barrier, incoming, handling, durable, asked, socket>>
      BY <1>17 DEF Put, Register, Send, Finish, overlook
    <2> QED BY <1>5, <2>1
  <1>18. CASE Advance /\ phase' # "connected"
    BY <1>6, <1>18 DEF Advance, Open
  <1>19. CASE HandshakeFails \/ Cancel \/ Close \/ SocketCloses \/ (\E c \in Commits : CommitTimesOut(c))
    <2>1. \/ Fail \/ FailAs("closing") \/ FailAs("closed")
          \/ commit' = commit /\ phase' \in {"closing", "closed"}
      BY <1>19 DEF HandshakeFails, Cancel, Close, SocketCloses, CommitTimesOut
    <2> QED BY <1>4, <1>6, <2>1 DEF Open
  <1>20. CASE HandleResult /\ ~Open
    BY <1>4, <1>20 DEF HandleResult
  <1>21. CASE UNCHANGED llVars
    BY <1>5, <1>21 DEF llVars, session, overlook
  <1> QED
    BY <1>4, <1>7, <1>8, <1>9, <1>10, <1>11, <1>12, <1>13, <1>14, <1>15, <1>16, <1>17, <1>18, <1>19, <1>20,
       <1>21 DEF LlNext

LEMMA LlInitially == LlInit => LlInv
  <1> SUFFICES ASSUME LlInit PROVE LlInv
    OBVIOUS
  <1>1. LlTypeOK
    <2>1. MaxInFlight \in Nat /\ MaxSends \in Nat /\ MaxLiveFaults \in Nat
      BY PutBytesAssumption, LiveBoundsAssumption
    <2> QED BY <2>1 DEF LlInit, LlTypeOK
  <1>2. Unbegun
    BY DEF LlInit, Unbegun
  <1>3. PutsAreHeld
    <2>1. ActiveIn(put) = {}
      BY DEF LlInit, ActiveIn
    <2>2. inFlight = BytesOfPuts(ActiveIn(put)) /\ inFlight \in 0..MaxInFlight
      <3>1. inFlight = 0
        BY DEF LlInit
      <3>2. BytesOfPuts(ActiveIn(put)) = 0
        BY <2>1, BytesOfOne
      <3> QED BY <3>1, <3>2, PutBytesAssumption
    <2>3. Waiters(queue, put)
      BY DEF LlInit, Waiters
    <2>4. PromisesAreKept
      BY DEF LlInit, PromisesAreKept, Acked
    <2> QED BY <2>2, <2>3, <2>4 DEF PutsAreHeld, Window, LlInit
  <1>4. CommitsAreAwaited /\ CommitGetsItsResult
    BY DEF LlInit, CommitsAreAwaited, CommitGetsItsResult, Open
  <1> QED BY <1>1, <1>2, <1>3, <1>4 DEF LlInv

\* The invariant of a live session.
THEOREM LiveSession == LlSpec => []LlInv
  <1>1. LlInv /\ [LlNext]_llVars => LlInv'
    BY LlTypesStep, UnbegunStep, PutsStep, CommitsStep DEF LlInv
  <1> QED BY <1>1, LlInitially, PTL DEF LlSpec

\* Types: what background/interop-live-local-session.ts and its parts keep.
THEOREM LiveTypes == LlSpec => []LlTypeOK
  <1>1. LlInv => LlTypeOK
    BY DEF LlInv
  <1> QED BY <1>1, LiveSession, PTL

\* A commit that returns has its own result, and all that Overlook sent ahead of it.
THEOREM CommitIsAnswered == LlSpec => []CommitGetsItsResult
  <1>1. LlInv => CommitGetsItsResult
    BY DEF LlInv
  <1> QED BY <1>1, LiveSession, PTL

\* No put is forgotten, and nobody waits for a window that has room.
THEOREM PutIsAnswered == LlSpec => []PutsAreAnswered
  <1>1. LlInv => PutsAreAnswered
    <2> SUFFICES ASSUME LlInv PROVE PutsAreAnswered
      OBVIOUS
    <2>1. Window(queue, inFlight, put) /\ (queue # <<>> => ~Ended) /\ PromisesAreKept
      BY DEF LlInv, PutsAreHeld
    <2>2. {u \in Puts : put[u].pc \in {"granted", "sending", "awaiting"}} = ActiveIn(put)
      BY DEF ActiveIn
    <2>3. inFlight = BytesOfPuts({u \in Puts : put[u].pc \in {"granted", "sending", "awaiting"}})
          /\ (queue # <<>> => inFlight + PutBytes[Head(queue)] > MaxInFlight /\ ~Ended)
      BY <2>1, <2>2 DEF Window
    <2>4. ASSUME NEW u \in Puts
          PROVE  /\ put[u].pc = "waiting" => u \in ToSet(queue)
                 /\ put[u].pc \in {"sending", "awaiting"} /\ put[u].promise = "open" =>
                      pending[PutPath[u]] = u /\ ~Ended
                 /\ put[u].pc = "done" => u \in kept
      BY <2>1 DEF Window, Waiters, PromisesAreKept, ToSet
    <2> QED BY <2>3, <2>4 DEF PutsAreAnswered
  <1> QED BY <1>1, LiveSession, PTL
==============================================================================
