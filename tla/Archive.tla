------------------------------- MODULE Archive -------------------------------
(***************************************************************************)
(* The two readers of a recorded archive: verifyRecord of the relay, one   *)
(* verdict, and analyzeArchive of simkit, which walks through the records  *)
(* and keeps statistics per slot.                                          *)
(*                                                                         *)
(* A file is its prefix, its records and how its stream ends.  A hash and  *)
(* a file size stand for the file they were taken of: two files with one   *)
(* SHA-256 are outside this model.                                         *)
(*                                                                         *)
(* The manifest's file is what it begins with and what comes after: value  *)
(* says that it is there and begins with a JSON value of the manifest's    *)
(* types, length how many bytes go by up to the end of that value, and     *)
(* trailing that more than white space follows it.                         *)
(***************************************************************************)
EXTENDS Integers, Sequences, FiniteSets, Functions

CONSTANTS
  File,      \* the archives that may be on disk
  Beside(_), \* the manifests that may lie beside an archive
  NoRevision \* LastRevision of a slot without records

MaxPayload == 1024
Slots == 0 .. 7
RecordOverhead == 48    \* header and digest of one record
ManifestLimit == 2^20   \* the bytes of a manifest that analyzeArchive reads

ASSUME ArchiveAssumption ==
  /\ NoRevision \notin Nat
  /\ \A f \in File :
       /\ f.prefix \in BOOLEAN /\ f.whole \in BOOLEAN
       /\ f.records \in Seq([slot : Nat, size : Nat, revision : Nat, intact : BOOLEAN])
  /\ \A f \in File : \A m \in Beside(f) :
       /\ m.value \in BOOLEAN /\ m.trailing \in BOOLEAN /\ m.length \in Nat
       /\ m.format \in BOOLEAN /\ m.records \in Nat /\ m.rawBytes \in Nat
-----------------------------------------------------------------------------
\* verifyRecord: whole says that the stream ends after a record, and that gzip
\* accepts it up to there.
VerifiableRecord(r) == r.size \in 1 .. MaxPayload /\ r.slot \in Slots /\ r.intact

Vouches(f, m) ==
  /\ m.sha = f
  /\ f.prefix
  /\ \A i \in DOMAIN f.records : VerifiableRecord(f.records[i])
  /\ f.whole
  /\ m.records = Len(f.records)

\* json.Unmarshal takes the file as one value and refuses what follows it.
Verifies(f, m) == m.value /\ ~m.trailing /\ Vouches(f, m)
-----------------------------------------------------------------------------
VARIABLES
  file, sidecar,     \* what analyzeArchive was given
  verdict,           \* "unread", "reading", "accepted" or "refused"
  records, rawBytes, \* result.Records and result.RawBytes
  slots              \* the statistics of each slot

avars == <<file, sidecar, verdict, records, rawBytes, slots>>

NoStats == [records |-> 0, first |-> NoRevision, last |-> NoRevision, skipped |-> 0,
            nonIncreasing |-> 0]

AInit ==
  /\ file \in File /\ sidecar \in Beside(file)
  /\ verdict = "unread" /\ records = 0 /\ rawBytes = 0
  /\ slots = [s \in Slots |-> NoStats]

\* Decoder.Decode stops at the end of the first value, which the LimitReader
\* must let through.
FirstValueDecodes(m) == m.value /\ m.length <= ManifestLimit

\* Mutant: the error of the decoder is dropped, with what it filled in kept.
OpenUndecoded ==
  /\ verdict = "unread"
  /\ IF sidecar.format /\ file.prefix
     THEN verdict' = "reading" /\ rawBytes' = 8
     ELSE verdict' = "refused" /\ UNCHANGED rawBytes
  /\ UNCHANGED <<file, sidecar, records, slots>>

\* The manifest and its format, the gzip header and the prefix.
Open ==
  /\ verdict = "unread"
  /\ IF FirstValueDecodes(sidecar) /\ sidecar.format /\ file.prefix
     THEN verdict' = "reading" /\ rawBytes' = 8
     ELSE verdict' = "refused" /\ UNCHANGED rawBytes
  /\ UNCHANGED <<file, sidecar, records, slots>>

\* A committed snapshot has an even revision that is not zero.
CommittedRecord(r) ==
  VerifiableRecord(r) /\ r.revision # 0 /\ r.revision % 2 = 0

\* Mutant: the record itself counts as skipped.
NotedWithItself(stats, revision) ==
  LET behind == stats.records > 0 /\ revision <= stats.last
      ahead == stats.records > 0 /\ revision > stats.last
  IN  [records |-> stats.records + 1,
       first |-> IF stats.records = 0 THEN revision ELSE stats.first, last |-> revision,
       skipped |-> stats.skipped + IF ahead THEN (revision - stats.last) \div 2 ELSE 0,
       nonIncreasing |-> stats.nonIncreasing + IF behind THEN 1 ELSE 0]

Noted(stats, revision) ==
  LET first == IF stats.records = 0 THEN revision ELSE stats.first
      behind == stats.records > 0 /\ revision <= stats.last
      ahead == stats.records > 0 /\ revision > stats.last
  IN  [records |-> stats.records + 1, first |-> first, last |-> revision,
       skipped |-> stats.skipped + IF ahead THEN (revision - stats.last) \div 2 - 1 ELSE 0,
       nonIncreasing |-> stats.nonIncreasing + IF behind THEN 1 ELSE 0]

ReadRecord ==
  /\ verdict = "reading" /\ records < Len(file.records)
  /\ LET r == file.records[records + 1] IN
     IF CommittedRecord(r)
     THEN /\ slots' = [slots EXCEPT ![r.slot] = Noted(@, r.revision)]
          /\ records' = records + 1
          /\ rawBytes' = rawBytes + RecordOverhead + r.size
          /\ UNCHANGED verdict
     ELSE /\ verdict' = "refused"
          /\ UNCHANGED <<slots, records, rawBytes>>
  /\ UNCHANGED <<file, sidecar>>

\* The end of the stream, or of what is left of it, and the comparison of what
\* was read with the manifest.
Finish ==
  /\ verdict = "reading" /\ records = Len(file.records)
  /\ verdict' = IF /\ file.whole
                   /\ sidecar.sha = file
                   /\ records = sidecar.records /\ rawBytes = sidecar.rawBytes
                   /\ sidecar.compressed = file
                THEN "accepted" ELSE "refused"
  /\ UNCHANGED <<file, sidecar, records, rawBytes, slots>>

ANext == Open \/ ReadRecord \/ Finish

ASpec == AInit /\ [][ANext]_avars
-----------------------------------------------------------------------------
(***************************************************************************)
(* Properties.                                                             *)
(***************************************************************************)

\* What the statistics mean, by sets of positions: Of(s) are the records of a
\* slot, Neighbours(at) the pairs that follow each other among some positions,
\* Back(at) those that step back.
Of(s) == {i \in 1 .. records : file.records[i].slot = s}
Revision(i) == file.records[i].revision
Neighbours(at) == {p \in at \X at : p[1] < p[2] /\ \A k \in at : k <= p[1] \/ k >= p[2]}
Back(at) == {p \in Neighbours(at) : Revision(p[2]) <= Revision(p[1])}

\* A slot whose revisions rise throughout accounts for every commit between
\* its first and its last record, either as a record or as unobserved; each
\* step back is counted once.
StatsMatchRecords ==
  \A s \in Slots :
    /\ slots[s].records = Cardinality(Of(s))
    /\ slots[s].nonIncreasing = Cardinality(Back(Of(s)))
    /\ Of(s) # {} /\ Back(Of(s)) = {} =>
         slots[s].skipped + slots[s].records
           = (slots[s].last - slots[s].first) \div 2 + 1
    /\ \A i \in Of(s) :
         /\ (\A k \in Of(s) : i <= k) => slots[s].first = Revision(i)
         /\ (\A k \in Of(s) : i >= k) => slots[s].last = Revision(i)

\* The bytes of a stream: the prefix and its records.
BytesUpTo(f, n) ==
  8 + SumFunctionOnSet([i \in 1 .. n |-> RecordOverhead + f.records[i].size], 1 .. n)
RawBytes(f) == BytesUpTo(f, Len(f.records))

\* The two readers were written apart.  Whatever simkit's report accepts, the
\* relay's verification accepts as well, but for data after the manifest,
\* which the report never reads; and what the verification accepts, the
\* report refuses only for an odd or a zero revision, for what the manifest
\* says beyond the hash and the number of records, or for its length.
VerifiersAgree ==
  LET Strict ==
        \/ sidecar.length > ManifestLimit
        \/ ~sidecar.format
        \/ RawBytes(file) # sidecar.rawBytes
        \/ sidecar.compressed # file
        \/ \E i \in DOMAIN file.records : Revision(i) = 0 \/ Revision(i) % 2 = 1
  IN  /\ verdict = "accepted" =>
           Vouches(file, sidecar) /\ (sidecar.trailing \/ Verifies(file, sidecar))
      /\ verdict = "refused" /\ Verifies(file, sidecar) => Strict
-----------------------------------------------------------------------------
(***************************************************************************)
(* What makes the invariants inductive.                                    *)
(***************************************************************************)

Statistics == [records : Nat, first : Nat \cup {NoRevision}, last : Nat \cup {NoRevision},
               skipped : Int, nonIncreasing : Nat]

ArchiveTypeOK ==
  /\ file \in File /\ sidecar \in Beside(file)
  /\ verdict \in {"unread", "reading", "accepted", "refused"}
  /\ records \in 0 .. Len(file.records)
  /\ slots \in [Slots -> Statistics]

\* The manifest is decoded and both files say what they are.
Readable == FirstValueDecodes(sidecar) /\ sidecar.format /\ file.prefix

\* Behind the reader there are committed records alone, and it has counted
\* their bytes.
ReadSoFar ==
  /\ verdict = "unread" => records = 0
  /\ verdict \in {"reading", "accepted"} => Readable
  /\ verdict # "unread" /\ Readable => rawBytes = BytesUpTo(file, records)
  /\ \A i \in 1 .. records : CommittedRecord(file.records[i])
  /\ \A s \in Slots : Of(s) = {} => slots[s] = NoStats

\* What the verdict rests on.
Matches ==
  /\ file.whole /\ sidecar.sha = file /\ sidecar.compressed = file
  /\ records = sidecar.records /\ rawBytes = sidecar.rawBytes

VerdictHasGrounds ==
  /\ verdict = "accepted" => records = Len(file.records) /\ Matches
  /\ verdict = "refused" =>
       \/ ~Readable
       \/ records < Len(file.records) /\ ~CommittedRecord(file.records[records + 1])
       \/ records = Len(file.records) /\ ~Matches

ArchiveInv == ArchiveTypeOK /\ ReadSoFar /\ VerdictHasGrounds /\ StatsMatchRecords
=============================================================================
