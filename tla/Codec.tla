-------------------------------- MODULE Codec --------------------------------
(***************************************************************************)
(* The transport encoding of a backup, from the tool that produces the     *)
(* logical stream to the tool that reads it back.                          *)
(*                                                                         *)
(*   internal/backupcodec/codec.go     gzip, then chunks under AES-GCM     *)
(*   internal/application/backup.go    streamBackup, openBackup,           *)
(*                                     verifyStream, ExecuteRestore        *)
(*   internal/adapters/backup/*        Backup and Verify of the adapters   *)
(*                                                                         *)
(* The logical stream of a backup is 1, 2, ..., length: its first item is  *)
(* what the tool starts with, its last one what it ends with, and Garbage  *)
(* is any bytes that are none of them.  The trailer gzip ends with is       *)
(* Trailer(n), good for exactly 1..n.  A stream is a header and pieces: a   *)
(* piece is a chunk sealed under a key with its number as additional data,  *)
(* or, when nothing is encrypted, one bare item.                           *)
(***************************************************************************)
EXTENDS Integers, Sequences, SequencesExt

CONSTANTS
  Keys, NoKey,      \* key materials, and no key
  Unresolved,       \* a key reference the secret resolver cannot resolve
  ChunkSize,        \* items in a chunk
  MaxLength,        \* bound: items of a logical stream
  MaxDamages        \* bound: what happens to the stored bytes

ASSUME CodecAssumption ==
  /\ NoKey \notin Keys /\ Unresolved \notin Keys /\ NoKey # Unresolved
  /\ {ChunkSize, MaxLength} \subseteq Nat \ {0} /\ MaxDamages \in Nat

VARIABLES
  policy,    \* what the policy says: tool, compression, key; and the length to come
  encoder,   \* frameWriter and what has gone through the pipe
  produced,  \* items the tool has written
  put,       \* StorageBackend.Put: open, stored or failed
  medium,    \* the stored bytes, as they are now
  damages,   \* bound
  reader     \* one reading of the backup, for a verification or a restore

codecVars == <<policy, encoder, produced, put, medium, damages, reader>>

Garbage == 0
Trailer(n) == MaxLength + 1 + n
Whole == [i \in 1 .. policy.length |-> i]

Tools == {"files", "mysql", "postgres"}
Compressions == {"none", "gzip"}

Bare(item) == [at |-> 0, key |-> NoKey, plain |-> <<item>>]
NoStream == [header |-> "none", pieces |-> <<>>]
NoReader == [phase |-> "closed", for |-> "verify", key |-> NoKey, header |-> "none",
             read |-> <<>>, index |-> 0, pending |-> <<>>, done |-> FALSE,
             got |-> <<>>, trailer |-> FALSE]

CodecInit ==
  /\ policy \in [tool : Tools, compression : Compressions,
                 key : Keys \union {NoKey, Unresolved}, length : 0 .. MaxLength]
  /\ encoder = [buf |-> <<>>, index |-> 0, closed |-> FALSE, out |-> NoStream]
  /\ produced = 0 /\ put = "open" /\ medium = NoStream /\ damages = 0
  /\ reader = NoReader

Encrypted == policy.key \in Keys

-----------------------------------------------------------------------------
\* Writing.

ChunkAAD_Constant(index) == 0

ChunkAAD(index) == index

WriteChunk(f, plain) ==
  [f EXCEPT !.out.pieces = Append(@, [at |-> ChunkAAD(f.index), key |-> policy.key,
                                      plain |-> plain]),
            !.index = @ + 1]

\* A data chunk only where there are data; the empty chunk says that this is all.
Flush(f, final) ==
  LET g == IF f.buf = <<>> THEN f ELSE [WriteChunk(f, f.buf) EXCEPT !.buf = <<>>]
  IN IF final THEN WriteChunk(g, <<>>) ELSE g

FrameWrite(f, item) ==
  LET g == IF Len(f.buf) = ChunkSize THEN Flush(f, FALSE) ELSE f
  IN [g EXCEPT !.buf = Append(@, item)]

\* What goes below gzip: the frame writer, or the pipe itself.
Sink(f, item) ==
  IF Encrypted THEN FrameWrite(f, item)
  ELSE [f EXCEPT !.out.pieces = Append(@, Bare(item))]

\* gzip is closed first: its trailer still has to pass the frame writer.
EncoderClose(f) ==
  LET zipped == IF policy.compression = "gzip" THEN Sink(f, Trailer(produced)) ELSE f
  IN IF Encrypted THEN Flush(zipped, TRUE) ELSE zipped

\* resolveKey comes before the row: a key that cannot be had is a failed backup, never a
\* backup without a key.
KeyUnresolved ==
  /\ put = "open" /\ policy.key = Unresolved
  /\ put' = "failed"
  /\ UNCHANGED <<policy, encoder, produced, medium, damages, reader>>

NewWriter ==
  /\ put = "open" /\ policy.key # Unresolved /\ encoder.out.header = "none"
  /\ encoder' = [encoder EXCEPT !.out.header = IF Encrypted THEN "encrypted" ELSE "plain"]
  /\ UNCHANGED <<policy, produced, put, medium, damages, reader>>

Producing == put = "open" /\ encoder.out.header # "none" /\ ~encoder.closed

\* The adapter's Backup writes on.
Produce ==
  /\ Producing /\ produced < policy.length
  /\ produced' = produced + 1
  /\ encoder' = Sink(encoder, produced + 1)
  /\ UNCHANGED <<policy, put, medium, damages, reader>>

CloseStream ==
  /\ Producing /\ produced = policy.length
  /\ encoder' = [EncoderClose(encoder) EXCEPT !.closed = TRUE]
  /\ UNCHANGED <<policy, produced, put, medium, damages, reader>>

\* The tool fails, or writing fails: CloseWithError makes Put fail as well.
ToolFails ==
  /\ Producing
  /\ put' = "failed"
  /\ UNCHANGED <<policy, encoder, produced, medium, damages, reader>>

\* Put takes the bytes as they come and keeps them, under their digest, once the pipe is closed.
PutEnds ==
  /\ put = "open" /\ encoder.closed
  /\ put' = "stored" /\ medium' = encoder.out
  /\ UNCHANGED <<policy, encoder, produced, damages, reader>>

-----------------------------------------------------------------------------
\* The bytes change while they are stored, and while they are read.

Count == Len(medium.pieces)

Damage(after) ==
  /\ put = "stored" /\ damages < MaxDamages
  /\ damages' = damages + 1 /\ medium' = after
  /\ UNCHANGED <<policy, encoder, produced, put, reader>>

Garbled(piece) == IF piece.key = NoKey THEN Bare(Garbage)
                  ELSE [piece EXCEPT !.key = NoKey, !.plain = <<Garbage>>]

Rearranged ==
  LET s == medium.pieces IN
  {SubSeq(s, 1, i) : i \in 0 .. Count - 1}
    \union {RemoveAt(s, i) : i \in 1 .. Count}
    \union {InsertAt(s, i, s[i]) : i \in 1 .. Count}
    \union {[s EXCEPT ![i] = s[i + 1], ![i + 1] = s[i]] : i \in 1 .. Count - 1}
    \union {[s EXCEPT ![i] = Garbled(@)] : i \in 1 .. Count}
    \union {Append(s, Bare(Garbage))}

PiecesDamaged == \E s \in Rearranged : Damage([medium EXCEPT !.pieces = s])

HeaderDamaged ==
  \E h \in {"plain", "encrypted", "broken"} \ {medium.header} :
     Damage([medium EXCEPT !.header = h])

-----------------------------------------------------------------------------
\* Reading.

\* Read by the tool, or, once the tool has seen enough, by verifyStream for the digest.
Reading == put = "stored" /\ reader.phase \in {"reading", "draining"}

Refuse == reader' = [reader EXCEPT !.phase = "refused"]

\* NewReader and decryptIfNeeded: a known header, and a key if it says encrypted.
DecryptIfNeeded(key) ==
  /\ medium.header # "broken" /\ key # Unresolved
  /\ medium.header = "encrypted" => key \in Keys

OpenBackup(purpose, key) ==
  /\ put = "stored" /\ reader.phase = "closed"
  /\ reader' = [NoReader EXCEPT !.for = purpose, !.key = key, !.header = medium.header,
                  !.phase = IF DecryptIfNeeded(key) THEN "reading" ELSE "refused"]
  /\ UNCHANGED <<policy, encoder, produced, put, medium, damages>>

\* One item through the gzip reader: the trailer has to fit what came before it, and
\* nothing but the end may follow it.
Inflate(r, item) ==
  IF policy.compression = "none" THEN [r EXCEPT !.got = Append(@, item)]
  ELSE IF r.trailer THEN [r EXCEPT !.phase = "refused"]
  ELSE IF item <= MaxLength THEN [r EXCEPT !.got = Append(@, item)]
  ELSE IF r.got = [i \in 1 .. item - Trailer(0) |-> i] THEN [r EXCEPT !.trailer = TRUE]
  ELSE [r EXCEPT !.phase = "refused"]

\* Every piece read passes the hasher, so read is also what the digest is made of.
ReadAt == Len(reader.read) + 1
AtEnd == ReadAt > Count

\* The source ends well: for gzip only behind its trailer.
StreamEnds ==
  reader' = [reader EXCEPT
               !.phase = IF policy.compression = "gzip" /\ ~reader.trailer THEN "refused"
                         ELSE IF @ = "draining" THEN "drained" ELSE "ended"]

ReaderOnly == UNCHANGED <<policy, encoder, produced, put, medium, damages>>

ReadBare ==
  /\ Reading /\ reader.header = "plain" /\ ReaderOnly
  /\ IF AtEnd THEN StreamEnds
     ELSE LET piece == medium.pieces[ReadAt]
              item == IF piece.key = NoKey THEN Head(piece.plain) ELSE Garbage
          IN reader' = Inflate([reader EXCEPT !.read = Append(@, piece)], item)

Opens(piece) == piece.key = reader.key /\ piece.at = ChunkAAD(reader.index)

\* Without the empty chunk the stream has no end, and behind it there is nothing.
NextChunk ==
  /\ Reading /\ reader.header = "encrypted" /\ ReaderOnly
  /\ reader.pending = <<>> /\ ~reader.done
  /\ IF AtEnd THEN Refuse
     ELSE LET piece == medium.pieces[ReadAt]
          IN IF ~Opens(piece) \/ (piece.plain = <<>> /\ ReadAt < Count) THEN Refuse
             ELSE reader' = [reader EXCEPT !.read = Append(@, piece), !.index = @ + 1,
                               !.pending = piece.plain, !.done = piece.plain = <<>>]

\* frameReader.Read hands out what it has of a chunk before it opens the next one.
FrameRead ==
  /\ Reading /\ reader.header = "encrypted" /\ ReaderOnly
  /\ reader.pending # <<>>
  /\ reader' = Inflate([reader EXCEPT !.pending = Tail(@)], Head(reader.pending))

FrameEnds ==
  /\ Reading /\ reader.header = "encrypted" /\ reader.done /\ reader.pending = <<>>
  /\ StreamEnds /\ ReaderOnly

-----------------------------------------------------------------------------
\* What the tools make of it.

\* mysql.Verify keeps both ends of the stream: mysqldump's marks have to be there.
MarksFound(got) == got # <<>> /\ Head(got) = 1 /\ Last(got) = policy.length

\* postgres.Verify: the magic of pg_dump, then pg_restore, which may overlook missing bytes.
PgRestoreReads(got) == IF got # <<>> /\ Head(got) = 1 THEN BOOLEAN ELSE {FALSE}

\* files.Verify: any entry at all; tar skips over what is in the files.
TarReads(got) == IF got # <<>> THEN BOOLEAN ELSE {FALSE}

Judgements(tool, got) ==
  IF got = Whole /\ got # <<>> THEN {TRUE}
  ELSE CASE tool = "mysql" -> {MarksFound(got)}
         [] tool = "postgres" -> PgRestoreReads(got)
         [] tool = "files" -> TarReads(got)

\* A restore writes while it reads and compares no digest: the tool alone judges.
Accepts ==
  IF reader.for = "verify" THEN Judgements(policy.tool, reader.got)
  ELSE IF reader.got = Whole THEN {TRUE} ELSE BOOLEAN

\* tar and pg_restore need not read to the end: what is left is read for the digest.
StopsReading ==
  /\ put = "stored" /\ reader.phase = "reading" /\ policy.tool # "mysql" /\ ReaderOnly
  /\ \E accepted \in Accepts :
        reader' = [reader EXCEPT !.phase = IF ~accepted THEN "bad"
                                           ELSE IF reader.for = "verify" THEN "draining"
                                           ELSE "restored"]

Digested == [header |-> reader.header, pieces |-> reader.read]

Judged_NoDigest(accepted) == IF accepted THEN "verified" ELSE "bad"

\* verifyStream: the digest of all that was read is compared with that of what was stored.
Judged(accepted) == IF accepted /\ Digested = encoder.out THEN "verified" ELSE "bad"

Verify ==
  /\ put = "stored" /\ reader.for = "verify" /\ ReaderOnly
  /\ reader.phase \in {"ended", "drained"}
  /\ \E accepted \in (IF reader.phase = "drained" THEN {TRUE} ELSE Accepts) :
        reader' = [reader EXCEPT !.phase = Judged(accepted)]

Restore ==
  /\ put = "stored" /\ reader.for = "restore" /\ reader.phase = "ended" /\ ReaderOnly
  /\ \E accepted \in Accepts :
        reader' = [reader EXCEPT !.phase = IF accepted THEN "restored" ELSE "bad"]

\* The backup is read again, for whatever purpose and with whatever key.
Close ==
  /\ reader.phase \in {"refused", "verified", "restored", "bad"}
  /\ reader' = NoReader /\ ReaderOnly

CodecNext ==
  \/ KeyUnresolved \/ NewWriter \/ Produce \/ CloseStream \/ ToolFails \/ PutEnds
  \/ PiecesDamaged \/ HeaderDamaged
  \/ \E purpose \in {"verify", "restore"}, key \in Keys \union {NoKey, Unresolved} :
        OpenBackup(purpose, key)
  \/ ReadBare \/ NextChunk \/ FrameRead \/ FrameEnds
  \/ StopsReading \/ Verify \/ Restore \/ Close

CodecSpec == CodecInit /\ [][CodecNext]_codecVars

-----------------------------------------------------------------------------
\* Properties.

Items == 0 .. Trailer(MaxLength)
Chunks == {items \in Seq(Items) : Len(items) <= ChunkSize}
Pieces == {piece \in [at : Nat, key : Keys \union {NoKey}, plain : Chunks] :
             piece.key = NoKey => Len(piece.plain) > 0}
Streams == [header : {"none", "plain", "encrypted", "broken"}, pieces : Seq(Pieces)]

Encoders == [buf : Chunks, index : Nat, closed : BOOLEAN, out : Streams]
Readers ==
  [phase : {"closed", "reading", "draining", "ended", "drained",
            "refused", "verified", "restored", "bad"},
   for : {"verify", "restore"}, key : Keys \union {NoKey, Unresolved},
   header : {"none", "plain", "encrypted", "broken"}, read : Seq(Pieces), index : Nat,
   pending : Seq(Items), done : BOOLEAN, got : Seq(Items), trailer : BOOLEAN]

\* Types.  The buffer of frameWriter never outgrows the capacity it was made with: Write
\* slices up to it and would panic.
CodecTypeOK ==
  /\ policy \in [tool : Tools, compression : Compressions,
                 key : Keys \union {NoKey, Unresolved}, length : 0 .. MaxLength]
  /\ encoder \in Encoders
  /\ medium \in Streams
  /\ produced \in 0 .. MaxLength /\ put \in {"open", "stored", "failed"}
  /\ damages \in 0 .. MaxDamages
  /\ reader \in Readers

\* The header was read as it had been written.
HeaderIntact == reader.header = encoder.out.header

\* Chunks that were dropped, doubled, moved or changed, before the reading or during it, are
\* never handed to the tool: of an encrypted backup it sees a part from the beginning, at
\* most, and it is told that this is the end only of the whole (frameReader, nextChunk).
DeliveredIsPrefix ==
  Encrypted /\ HeaderIntact =>
    /\ IsPrefix(reader.got, Whole)
    /\ reader.phase \in {"ended", "drained"} => reader.got = Whole

\* A verification passes only if what came out of the decoding, the part that the tool left
\* unread included, is the stream that the tool of the backup had written: whatever the tools
\* overlook, whatever happened to the bytes and whenever (verifyStream, openBackup, Decode).
VerifiedIsWhole == reader.phase = "verified" => reader.got = Whole

=============================================================================
