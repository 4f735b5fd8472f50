------------------------------ MODULE Transfer ------------------------------
(* Brainpacks and file formats: snap.rs (export, export_signed, import,     *)
(* import_signed, merge_packs, encryption), the row formats of synx_io.rs   *)
(* and the synx commands that call them.                                    *)
(*                                                                          *)
(* A database is a main file and a write-ahead log; a slot stands for the   *)
(* pages of one row and a reader sees the log over the file.  SQLite's      *)
(* backup copies slot by slot and starts over when another connection has   *)
(* written (external).  A file is truncated first and written afterwards.   *)
EXTENDS Integers, Sequences, SequencesExt, FiniteSets, FiniteSetsExt, TLC

CONSTANTS TfRows,      \* rows another process may put
          TfPeers,     \* contents of the packs to merge with
          TfConns,     \* connections of the daemon that send SnapMerge
          TfMaxRows, TfMaxCuts, TfMaxCmds

None == 0

\* A row of docs, as the packs and files carry it.
IsRow(r) == r = [uri |-> r.uri, text |-> r.text, title |-> r.title, meta |-> r.meta, sig |-> r.sig, crdt |-> r.crdt]

\* Rows by their ids.
IsTable(rows) == /\ rows = [i \in DOMAIN rows |-> rows[i]]
                 /\ IsFiniteSet(DOMAIN rows) /\ DOMAIN rows \subseteq Nat
                 /\ \A i \in DOMAIN rows : IsRow(rows[i])

\* docs: uri (NULLs aside) and blake3, the hash of the text, are UNIQUE.
UniqueRows(rows) ==
    \A i, j \in DOMAIN rows : i # j => rows[i].text # rows[j].text /\ (rows[i].uri # None => rows[i].uri # rows[j].uri)

ASSUME TransferAssumption ==
    /\ \A r \in TfRows : IsRow(r)
    /\ \A b \in TfPeers : IsTable(b) /\ UniqueRows(b)

VARIABLES tfMain,      \* [ok, rows]: ok is FALSE while it is truncated
          tfWal,       \* slots of the write-ahead log
          tfUp,        \* another process has the database open
          tfPack,      \* the brainpack
          tfFile,      \* an exported csv, jsonl, json or sqlite file
          tfDest,      \* the rows of the database an import fills
          tfCli,       \* the running synx command
          tfLast,      \* history: the result of the last command
          tfSnap,      \* SnapMerge requests of the daemon, and the file they share
          tfJob, tfCmds, tfCuts

tfVars == <<tfMain, tfWal, tfUp, tfPack, tfFile, tfDest, tfCli, tfLast, tfSnap, tfJob, tfCmds, tfCuts>>

NoResult == [what |-> "none"]
CliIdle == [at |-> "idle"]
NoPack == [state |-> "absent"]
TornPack == [state |-> "torn"]
NoTmp == [ino |-> 0, ok |-> FALSE, rows |-> <<>>]    \* the shared file is not there
Formats == {"csv", "jsonl", "json", "sqlite"}

Over(f, g) == [i \in DOMAIN f \cup DOMAIN g |-> IF i \in DOMAIN f THEN f[i] ELSE g[i]]
Slot(i, row) == [k \in {i} |-> row]

TfContent == Over(tfWal, tfMain.rows)

TransferInit ==
    /\ tfMain = [ok |-> TRUE, rows |-> <<>>] /\ tfWal = <<>> /\ tfUp = FALSE
    /\ tfSnap = [tmp |-> NoTmp, made |-> 0, call |-> [c \in TfConns |-> CliIdle]]
    /\ tfPack = NoPack /\ tfFile = [fmt |-> "none"] /\ tfDest = <<>> /\ tfCli = CliIdle
    /\ tfLast = NoResult /\ tfJob \in {"packs", "rows", "snap"} /\ tfCmds = 0 /\ tfCuts = 0

\* A history works with packs or with row files, on a few commands.
Command(job) == tfJob = job /\ tfCmds < TfMaxCmds /\ tfCmds' = tfCmds + 1 /\ UNCHANGED tfJob

-----------------------------------------------------------------------------
(* The other process, and the database file                                *)

TfOpen == /\ ~tfUp /\ tfMain.ok /\ tfUp' = TRUE
          /\ UNCHANGED <<tfJob, tfCmds, tfMain, tfWal, tfPack, tfFile, tfDest, tfCli, tfLast, tfCuts, tfSnap>>

\* Mutant of BackupSees.
BackupGoesOn(rows) == IF tfCli.at = "copy" THEN [tfCli EXCEPT !.moments = @ \cup {rows}] ELSE tfCli

\* A running backup meets a commit of another connection: it starts over.
BackupSees(rows) ==
    IF tfCli.at = "copy" THEN [tfCli EXCEPT !.copied = <<>>, !.moments = @ \cup {rows}] ELSE tfCli

\* (In a history of SnapMerge requests it is the daemon, which stays up.)
\* A commit: the new slots go to the log.
Commit(slots) ==
    /\ tfWal' = Over(slots, tfWal)
    /\ tfCli' = BackupSees(Over(slots, TfContent))
    /\ UNCHANGED <<tfJob, tfCmds, tfMain, tfUp, tfPack, tfFile, tfDest, tfLast, tfCuts, tfSnap>>

Known(rows, r) == \E i \in DOMAIN rows : rows[i].text = r.text
UriTaken(rows, r) == r.uri # None /\ \E i \in DOMAIN rows : rows[i].uri = r.uri

TfPut == /\ tfUp /\ tfMain.ok /\ Cardinality(DOMAIN TfContent) < TfMaxRows
         /\ \E r \in TfRows : /\ ~Known(TfContent, r) /\ ~UriTaken(TfContent, r)
                              /\ Commit(Slot(Max(DOMAIN TfContent \cup {0}) + 1, r))

\* synx sign: the signature of blake3(text) in place.
TfSign == /\ tfMain.ok /\ tfJob # "snap"
          /\ \E i \in DOMAIN TfContent : /\ TfContent[i].sig = None
                                         /\ Commit(Slot(i, [TfContent[i] EXCEPT !.sig = 1]))

\* The last connection closes: the log is written back and removed.
TfClose == /\ tfUp /\ tfUp' = FALSE /\ tfJob # "snap"
           /\ tfCli = CliIdle
           /\ tfMain' = [tfMain EXCEPT !.rows = TfContent] /\ tfWal' = <<>>
           /\ UNCHANGED <<tfJob, tfCmds, tfPack, tfFile, tfDest, tfCli, tfLast, tfCuts, tfSnap>>

\* A crash leaves the log.
TfCrash == /\ tfUp /\ tfUp' = FALSE /\ tfJob # "snap"
           /\ tfCuts < TfMaxCuts /\ tfCuts' = tfCuts + 1
           /\ UNCHANGED <<tfJob, tfCmds, tfMain, tfWal, tfPack, tfFile, tfDest, tfCli, tfLast, tfSnap>>

-----------------------------------------------------------------------------
(* export, export_signed, and backup --encrypt                             *)

ExportStart ==
    /\ tfCli = CliIdle /\ Command("packs") /\ tfLast' = NoResult /\ tfMain.ok
    /\ \E kind \in {"plain", "signed"}, enc \in BOOLEAN :
         /\ kind = "signed" => ~enc
         /\ tfCli' = [at |-> "copy", kind |-> kind, enc |-> enc, copied |-> <<>>, moments |-> {TfContent}]
    /\ UNCHANGED <<tfMain, tfWal, tfUp, tfPack, tfFile, tfDest, tfCuts, tfSnap>>

BackupStep ==
    /\ tfCli.at = "copy" /\ tfMain.ok
    /\ LET left == DOMAIN TfContent \ DOMAIN tfCli.copied IN
       tfCli' = IF left = {} THEN [tfCli EXCEPT !.at = "create"]
                ELSE [tfCli EXCEPT !.copied = Over(Slot(Min(left), TfContent[Min(left)]), @)]
    /\ UNCHANGED <<tfJob, tfCmds, tfMain, tfWal, tfUp, tfPack, tfFile, tfDest, tfLast, tfCuts, tfSnap>>

ExportCreate ==
    /\ tfCli.at = "create"
    /\ tfPack' = TornPack
    /\ tfCli' = [tfCli EXCEPT !.at = "write"]
    /\ UNCHANGED <<tfJob, tfCmds, tfMain, tfWal, tfUp, tfFile, tfDest, tfLast, tfCuts, tfSnap>>

WholePack(kind, enc, rows, moments) ==
    [state |-> "whole", kind |-> kind, enc |-> enc, body |-> rows, hash |-> rows, moments |-> moments]

ExportWrite ==
    /\ tfCli.at = "write"
    /\ tfPack' = WholePack(tfCli.kind, tfCli.enc, tfCli.copied, tfCli.moments)
    /\ tfCli' = CliIdle
    /\ UNCHANGED <<tfJob, tfCmds, tfMain, tfWal, tfUp, tfFile, tfDest, tfLast, tfCuts, tfSnap>>

\* A file that has gone bad on disk and still decompresses.
PackDamage ==
    /\ tfPack.state = "whole" /\ tfPack.body = tfPack.hash /\ tfPack.body # <<>>
    /\ tfCuts < TfMaxCuts /\ tfCuts' = tfCuts + 1
    /\ tfPack' = [tfPack EXCEPT !.body = [i \in DOMAIN @ |-> [@[i] EXCEPT !.text = -i]]]
    /\ UNCHANGED <<tfJob, tfCmds, tfMain, tfWal, tfUp, tfFile, tfDest, tfCli, tfLast, tfSnap>>

-----------------------------------------------------------------------------
(* import, import_signed                                                   *)

\* Mutants.
AcceptsUnhashed(how, pass) ==
    /\ tfPack.state = "whole" /\ tfPack.enc = pass
    /\ how = "signed" => tfPack.kind = "signed"

\* import_signed: a signed pack, its hash, its signature.
import_signed(p) == p.kind = "signed" /\ p.body = p.hash

\* The unsigned format: length and hash of what decompresses.
import_raw(p) == p.body = p.hash

\* The version byte decides; a signed pack is verified here too.
import_magic(p) == IF p.kind = "signed" THEN import_signed(p) ELSE import_raw(p)

\* A torn pack does not decompress; decrypting wants an encrypted one, the
\* other way round the magic is wrong.
Accepts(how, pass) ==
    /\ tfPack.state = "whole" /\ tfPack.enc = pass
    /\ IF how = "signed" THEN import_signed(tfPack) ELSE import_magic(tfPack)

\* fs::write of the database file: its log stays where it is.
RestoreBegin ==
    /\ tfCli = CliIdle /\ Command("packs") /\ tfLast' = NoResult
    /\ \E how \in {"magic", "signed"}, pass \in BOOLEAN :
         /\ Accepts(how, pass)
         /\ tfCli' = [at |-> "restore", image |-> tfPack.body, moments |-> tfPack.moments,
                      clean |-> tfWal = <<>> /\ ~tfUp]
    /\ tfMain' = [ok |-> FALSE, rows |-> <<>>]
    /\ UNCHANGED <<tfWal, tfUp, tfPack, tfFile, tfDest, tfCuts, tfSnap>>

\* The rest of the file; db-restore then opens and closes the store.
RestoreWrite ==
    /\ tfCli.at = "restore"
    /\ LET rows == Over(tfWal, tfCli.image) IN
       /\ tfMain' = [ok |-> TRUE, rows |-> IF tfUp THEN tfCli.image ELSE rows]
       /\ tfWal' = IF tfUp THEN tfWal ELSE <<>>
       /\ tfLast' = [what |-> "restored", rows |-> rows, moments |-> tfCli.moments, sure |-> tfCli.clean]
    /\ tfCli' = CliIdle
    /\ UNCHANGED <<tfJob, tfCmds, tfUp, tfPack, tfFile, tfDest, tfCuts, tfSnap>>

-----------------------------------------------------------------------------
(* merge_packs                                                             *)

\* CRDT states are sets of updates (external: yrs).
merge_meta(a, b) == a \cup b

\* Mutant of MergeRow.
MergeRowReplaces(acc, r) ==
    LET same == {i \in DOMAIN acc : IF r.uri # None THEN acc[i].uri = r.uri ELSE acc[i].text = r.text} IN
    IF same # {} THEN [i \in DOMAIN acc |-> IF i \in same THEN [acc[i] EXCEPT !.crdt = r.crdt] ELSE acc[i]]
    ELSE IF Known(acc, r) THEN acc ELSE Over(Slot(Max(DOMAIN acc \cup {0}) + 1, r), acc)

\* A row of B meets the row with its uri, or with its text when it has none;
\* INSERT OR IGNORE leaves out a row whose text is there under another uri.
MergeRow(acc, r) ==
    LET same == {i \in DOMAIN acc : IF r.uri # None THEN acc[i].uri = r.uri ELSE acc[i].text = r.text} IN
    IF same # {} THEN [i \in DOMAIN acc |-> IF i \in same THEN [acc[i] EXCEPT !.crdt = merge_meta(@, r.crdt)] ELSE acc[i]]
    ELSE IF Known(acc, r) THEN acc ELSE Over(Slot(Max(DOMAIN acc \cup {0}) + 1, r), acc)

InRowIdOrder(rows) ==
    [k \in 1..Cardinality(DOMAIN rows) |-> rows[CHOOSE i \in DOMAIN rows : Cardinality({j \in DOMAIN rows : j < i}) = k - 1]]

merge_packs(a, b) ==
    LET rows == InRowIdOrder(b)
        merged[n \in 0..Len(rows)] == IF n = 0 THEN a ELSE MergeRow(merged[n - 1], rows[n])
    IN merged[Len(rows)]

\* Both packs are read by import_magic; the result is exported over out.
MergePacks ==
    /\ tfCli = CliIdle /\ Command("packs") /\ Accepts("magic", FALSE)
    /\ \E b \in TfPeers :
         LET out == merge_packs(tfPack.body, b) IN
         /\ tfLast' = [what |-> "merged", a |-> tfPack.body, b |-> b, out |-> out]
         /\ tfPack' = WholePack("plain", FALSE, out, {out})
    /\ UNCHANGED <<tfMain, tfWal, tfUp, tfFile, tfDest, tfCli, tfCuts, tfSnap>>

\* The daemon's SnapMerge: the brain is exported to a file named after the
\* process, which every connection's request uses, merged with the peer's pack
\* into another, and the file is removed.  The export takes its copy, opens the
\* file (truncating one that is there) and writes to what it opened.
SnapCall(c, call, tmp, made) == tfSnap' = [tmp |-> tmp, made |-> made, call |-> [tfSnap.call EXCEPT ![c] = call]]
SnapFrame == UNCHANGED <<tfMain, tfWal, tfUp, tfPack, tfFile, tfDest, tfCli, tfCuts>>

\* History: what was already there when the oldest running request came.
SnapOldest == LET copies == {tfSnap.call[d].copy : d \in {x \in TfConns : tfSnap.call[x].at \in {"create", "write", "merge"}}}
              IN CHOOSE f \in copies \cup {TfContent} : \A g \in copies : DOMAIN f \subseteq DOMAIN g

SnapCopy(c) ==
    /\ tfSnap.call[c] = CliIdle /\ Command("snap") /\ tfMain.ok
    /\ \E b \in TfPeers :
         SnapCall(c, [at |-> "create", copy |-> TfContent, floor |-> SnapOldest, peer |-> b], tfSnap.tmp, tfSnap.made)
    /\ tfLast' = NoResult /\ SnapFrame

SnapOpened(call, ino) == [at |-> "write", copy |-> call.copy, floor |-> call.floor, peer |-> call.peer, ino |-> ino]

\* Mutant of SnapCreate.
SnapCreateOnce(c) ==
    /\ tfSnap.call[c].at = "create"
    /\ IF tfSnap.tmp.ok THEN SnapCall(c, [tfSnap.call[c] EXCEPT !.at = "merge"], tfSnap.tmp, tfSnap.made)
       ELSE SnapCall(c, SnapOpened(tfSnap.call[c], tfSnap.made + 1),
                     [ino |-> tfSnap.made + 1, ok |-> FALSE, rows |-> <<>>], tfSnap.made + 1)
    /\ tfLast' = NoResult /\ UNCHANGED <<tfJob, tfCmds>> /\ SnapFrame

SnapCreate(c) ==
    LET fresh == tfSnap.tmp.ino = 0
        ino == IF fresh THEN tfSnap.made + 1 ELSE tfSnap.tmp.ino
    IN /\ tfSnap.call[c].at = "create"
       /\ SnapCall(c, SnapOpened(tfSnap.call[c], ino),
                   [ino |-> ino, ok |-> FALSE, rows |-> <<>>],
                   IF fresh THEN ino ELSE tfSnap.made)
       /\ tfLast' = NoResult /\ UNCHANGED <<tfJob, tfCmds>> /\ SnapFrame

\* Two writers of one file may leave bytes of both, which the hash refuses.
SnapWrite(c) ==
    LET call == tfSnap.call[c]
        shared == \E d \in TfConns \ {c} : tfSnap.call[d].at # "idle" /\ tfSnap.call[d].at # "create"
    IN /\ call.at = "write"
       /\ \E ok \in IF shared THEN BOOLEAN ELSE {TRUE} :
            SnapCall(c, [call EXCEPT !.at = "merge"],
                     IF tfSnap.tmp.ino # call.ino THEN tfSnap.tmp
                     ELSE [ino |-> call.ino, ok |-> ok, rows |-> call.copy], tfSnap.made)
       /\ tfLast' = NoResult /\ UNCHANGED <<tfJob, tfCmds>> /\ SnapFrame

SnapMerged(c) ==
    LET call == tfSnap.call[c] IN
    /\ call.at = "merge"
    /\ tfLast' = IF tfSnap.tmp.ok
                 THEN [what |-> "snapmerge", before |-> call.floor, a |-> tfSnap.tmp.rows, b |-> call.peer,
                       out |-> merge_packs(tfSnap.tmp.rows, call.peer)]
                 ELSE NoResult
    /\ SnapCall(c, [at |-> "remove"], tfSnap.tmp, tfSnap.made)
    /\ UNCHANGED <<tfJob, tfCmds>> /\ SnapFrame

SnapRemove(c) ==
    /\ tfSnap.call[c].at = "remove"
    /\ SnapCall(c, CliIdle, NoTmp, tfSnap.made)
    /\ tfLast' = NoResult /\ UNCHANGED <<tfJob, tfCmds>> /\ SnapFrame

-----------------------------------------------------------------------------
(* synx_io: export to and import from row files                            *)

\* What a line of a file holds; csv has no meta, and "" for NULL.
export_dsv(r) == [uri |-> r.uri, text |-> r.text, title |-> r.title, meta |-> None]
export_jsonl(r) == [uri |-> r.uri, text |-> r.text, title |-> r.title, meta |-> r.meta]
RowOf(fmt, r) == IF fmt = "csv" THEN export_dsv(r) ELSE export_jsonl(r)

ExportRows ==
    /\ tfCli = CliIdle /\ Command("rows") /\ tfLast' = NoResult /\ tfMain.ok
    /\ \E fmt \in Formats :
         tfFile' = [fmt |-> fmt, lines |-> [k \in DOMAIN InRowIdOrder(TfContent) |-> RowOf(fmt, InRowIdOrder(TfContent)[k])]]
    /\ tfDest' = <<>>
    /\ UNCHANGED <<tfMain, tfWal, tfUp, tfPack, tfCli, tfCuts, tfSnap>>

\* Mutant of import_dsv.
DsvWithEmpty(lines) == lines

\* A row without text is skipped.
import_dsv(lines) ==
    LET kept == {k \in DOMAIN lines : lines[k].text # None} IN
    [n \in 1..Cardinality(kept) |-> lines[CHOOSE k \in kept : Cardinality({j \in kept : j <= k}) = n]]
import_jsonl(lines) == lines

\* The file is read as one value, but export writes one per line: a .json file
\* of no row or of several is refused.
import_json(lines) == IF Len(lines) = 1 THEN lines ELSE <<>>
JsonParses(f) == f.fmt = "json" => Len(f.lines) = 1

Requests(f) == CASE f.fmt = "csv" -> import_dsv(f.lines)
                 [] f.fmt = "json" -> import_json(f.lines)
                 [] OTHER -> import_jsonl(f.lines)

ImportStart ==
    /\ tfCli = CliIdle /\ Command("rows") /\ tfLast' = NoResult /\ tfFile.fmt # "none"
    /\ tfCli' = IF JsonParses(tfFile) THEN [at |-> "import", todo |-> Requests(tfFile)] ELSE CliIdle
    /\ UNCHANGED <<tfMain, tfWal, tfUp, tfPack, tfFile, tfDest, tfCuts, tfSnap>>

\* Mutant of PutRow.
PutRowAlways(rows, r) == Append(rows, r)

\* put: a known text is not put again.
PutRow(rows, r) == IF Known(rows, r) THEN rows ELSE Append(rows, r)

\* One put of the import; a uri that is taken by another text ends it.
ImportPut ==
    /\ tfCli.at = "import"
    /\ IF tfCli.todo = <<>> THEN /\ tfLast' = [what |-> "imported", file |-> tfFile, rows |-> tfDest]
                                 /\ tfCli' = CliIdle /\ UNCHANGED tfDest
       ELSE LET r == Head(tfCli.todo) IN
            IF ~Known(tfDest, r) /\ UriTaken(tfDest, r)
            THEN tfCli' = CliIdle /\ UNCHANGED <<tfDest, tfLast>>
            ELSE /\ tfDest' = PutRow(tfDest, r)
                 /\ tfCli' = [tfCli EXCEPT !.todo = Tail(@)]
                 /\ UNCHANGED tfLast
    /\ UNCHANGED <<tfJob, tfCmds, tfMain, tfWal, tfUp, tfPack, tfFile, tfCuts, tfSnap>>

\* The command is killed; a pack or database it was writing stays torn.
CliCrash ==
    /\ tfCli # CliIdle /\ tfCuts < TfMaxCuts /\ tfCuts' = tfCuts + 1
    /\ tfCli' = CliIdle
    /\ UNCHANGED <<tfJob, tfCmds, tfMain, tfWal, tfUp, tfPack, tfFile, tfDest, tfLast, tfSnap>>

TransferNext ==
    \/ TfOpen \/ TfPut \/ TfSign \/ TfClose \/ TfCrash
    \/ ExportStart \/ BackupStep \/ ExportCreate \/ ExportWrite \/ PackDamage
    \/ RestoreBegin \/ RestoreWrite \/ MergePacks
    \/ \E c \in TfConns : SnapCopy(c) \/ SnapCreate(c) \/ SnapWrite(c) \/ SnapMerged(c) \/ SnapRemove(c)
    \/ ExportRows \/ ImportStart \/ ImportPut \/ CliCrash

-----------------------------------------------------------------------------
(* A restore, signed or not, into a database nobody has open and that has   *)
(* no log left gives the rows the source had at one moment of the export:   *)
(* not a mixture of two commits, not a torn file, not one that went bad on  *)
(* disk.                                                                    *)
RestoredAsSaved == tfLast.what = "restored" /\ tfLast.sure => tfLast.rows \in tfLast.moments

(* A SnapMerge that answers Ok has written everything the brain held when   *)
(* it came, or when the oldest request that runs beside it came: requests    *)
(* share one temporary file (synapsed main.rs:897), and a mixture of two is  *)
(* never merged.                                                             *)
SnapMergeIsComplete ==
    tfLast.what = "snapmerge" =>
      \A i \in DOMAIN tfLast.before : \E j \in DOMAIN tfLast.out : tfLast.out[j].text = tfLast.before[i].text

\* A row that comes with a merge: the row with its uri, or with its text when
\* it has none, has its updates.  There is no row with its uri only where its
\* text is there under another, and then nothing but the text is kept.
Arrived(row, out) ==
    LET same == {i \in DOMAIN out : IF row.uri # None THEN out[i].uri = row.uri ELSE out[i].text = row.text}
    IN IF same = {} THEN Known(out, row) ELSE \A i \in same : row.crdt \subseteq out[i].crdt

(* A merge keeps every row of the first pack with its updates, brings every *)
(* row of the second, with its updates unless its text is there under       *)
(* another uri (INSERT OR IGNORE), and repeats nothing, also when it is run *)
(* again: no uri and no text that the first pack has once is there twice.   *)
MergeKeepsBoth ==
    /\ SnapMergeIsComplete
    /\ tfLast.what \in {"merged", "snapmerge"} =>
         LET m == tfLast IN
         /\ \A i \in DOMAIN m.a : /\ i \in DOMAIN m.out
                                  /\ m.out[i].text = m.a[i].text /\ m.out[i].uri = m.a[i].uri
                                  /\ m.a[i].crdt \subseteq m.out[i].crdt
         /\ \A j \in DOMAIN m.b : Arrived(m.b[j], m.out)
         /\ UniqueRows(m.a) \/ m.what = "snapmerge" => UniqueRows(m.out)
         /\ merge_packs(m.out, m.b) = m.out

(* An import that is not refused and ends, cut and repeated or not, gives   *)
(* the rows of the file it was exported to, in their order: title, uri,     *)
(* text and, except from csv, meta.  From csv, rows without text are left   *)
(* out; .json files are refused unless they have exactly one row.           *)
ImportsRoundTrip ==
    tfLast.what = "imported" =>
      LET lines == tfLast.file.lines
          kept == {k \in DOMAIN lines : tfLast.file.fmt = "csv" => lines[k].text # None}
      IN /\ DOMAIN tfLast.rows = 1..Cardinality(kept)
         /\ \A k \in kept : tfLast.rows[Cardinality({j \in kept : j <= k})] = lines[k]
-----------------------------------------------------------------------------
(* The .synx container (crates/synapse-core/src/synx: header, chunk,        *)
(* manifest, writer, reader, mmap, migrate) and the .brainpack around it    *)
(* (brainpack.rs).  A file is a sequence of cells, an offset the number of  *)
(* a cell.  The writer buffers, the operating system may lose what is not   *)
(* yet synced.                                                              *)

CONSTANTS SxRows,        \* number of rows exported
          SxPerBatch,    \* docs_per_batch
          SxMaxFaults    \* kills, power losses and damaged cells

VARIABLES sxFile,     \* the cells the operating system holds
          sxSynced,   \* sync_all has returned
          sxBuf,      \* cells still in the BufWriter
          sxW,        \* the writer: [at, refs, next, rows, batch]
          sxPack,     \* the .brainpack: the cells it holds, or NoCells
          sxWhole,    \* history: finish() returned, and the file was not touched since
          sxFaults

sxVars == <<sxFile, sxSynced, sxBuf, sxW, sxPack, sxWhole, sxFaults>>

NoCells == <<>>
Header(mo) == [t |-> "header", manifest |-> mo]
Zero == [t |-> "zero"]
\* Chunk::new: the hash is taken over the uncompressed data.
Chunk(kind, data) == [t |-> "chunk", kind |-> kind, data |-> data, hash |-> data]
\* ManifestChunk and footer: the footer repeats the manifest's hash.
ManifestCell(refs) == [t |-> "chunk", kind |-> "SchemaDef", data |-> refs, hash |-> refs]
Footer(refs) == [t |-> "footer", hash |-> refs]

SynxInit ==
    /\ sxFile = NoCells /\ sxSynced = FALSE /\ sxBuf = <<>>
    /\ sxW = [at |-> "none"] /\ sxPack = NoCells /\ sxWhole = FALSE /\ sxFaults = 0

Rest(w, f, s, p) == UNCHANGED sxFaults /\ sxFile' = f /\ sxSynced' = s /\ sxPack' = p /\ sxW' = w

\* SynxWriter::create, with create_new: only on a path that does not exist.
Create ==
    /\ sxW.at = "none" /\ sxFile = NoCells
    /\ sxBuf' = <<Header(0)>>
    /\ Rest([at |-> "rows", refs |-> <<>>, next |-> 2, row |-> 0, batch |-> <<>>], sxFile, FALSE, sxPack)
    /\ UNCHANGED sxWhole

\* write_chunk: the cell to the buffer, a reference to the manifest.
Appended(w, cells) ==
    [w EXCEPT !.next = @ + Len(cells),
              !.refs = @ \o [i \in DOMAIN cells |-> [kind |-> cells[i].kind, offset |-> w.next + i - 1]]]

\* export_rows: a TextBlob per row, a RowBatch whenever docs_per_batch rows are buffered.
ExportRow ==
    /\ sxW.at = "rows" /\ sxW.row < SxRows
    /\ LET r == sxW.row + 1
           batch == Append(sxW.batch, r)
           full == Len(batch) >= SxPerBatch
           cells == <<Chunk("TextBlob", <<r>>)>> \o IF full THEN <<Chunk("RowBatch", batch)>> ELSE <<>> IN
       /\ sxBuf' = sxBuf \o cells
       /\ Rest([Appended(sxW, cells) EXCEPT !.row = r, !.batch = IF full THEN <<>> ELSE batch], sxFile, sxSynced, sxPack)
    /\ UNCHANGED sxWhole

\* Mutant of LastBatch: the rows of an unfilled batch are left out.
LastBatchDropped(w) == <<>>

LastBatch(w) == IF w.batch = <<>> THEN <<>> ELSE <<Chunk("RowBatch", w.batch)>>

\* The rest of export_rows, and finish up to the flush.
FinishCells ==
    /\ sxW.at = "rows" /\ sxW.row = SxRows
    /\ LET w == Appended(sxW, LastBatch(sxW)) IN
       /\ sxBuf' = sxBuf \o LastBatch(sxW) \o <<ManifestCell(w.refs), Footer(w.refs)>>
       /\ Rest([w EXCEPT !.at = "flush"], sxFile, sxSynced, sxPack)
    /\ UNCHANGED sxWhole

\* A full BufWriter spills its oldest cell at any time.
Spill ==
    /\ sxBuf # <<>>
    /\ sxBuf' = Tail(sxBuf)
    /\ Rest(sxW, Append(sxFile, Head(sxBuf)), sxSynced, sxPack)
    /\ UNCHANGED sxWhole

\* flush and into_inner returned; the header is written again, now with offsets.
FinishHeader ==
    /\ sxW.at = "flush" /\ sxBuf = <<>>
    /\ Rest([sxW EXCEPT !.at = "sync"], [sxFile EXCEPT ![1] = Header(sxW.next)], sxSynced, sxPack)
    /\ UNCHANGED <<sxBuf, sxWhole>>

FinishSync ==
    /\ sxW.at = "sync"
    /\ Rest([at |-> "done"], sxFile, TRUE, sxPack)
    /\ sxWhole' = TRUE
    /\ UNCHANGED sxBuf

-----------------------------------------------------------------------------
\* The writing process is killed: its buffer is gone.
Kill ==
    /\ sxFaults < SxMaxFaults /\ sxW.at \in {"rows", "flush", "sync", "unpack"}
    /\ sxFaults' = sxFaults + 1
    /\ sxBuf' = <<>> /\ sxW' = [at |-> "done"]
    /\ UNCHANGED <<sxFile, sxSynced, sxPack, sxWhole>>

\* Power is lost: of what was not synced, any cells are lost, the end of the
\* file possibly with them, and the header may be the first one again.
PowerLoss ==
    /\ sxFaults < SxMaxFaults /\ sxW.at \in {"rows", "flush", "sync"} /\ sxFile # NoCells
    /\ sxFaults' = sxFaults + 1
    /\ \E lost \in SUBSET DOMAIN sxFile, n \in 1 .. Len(sxFile), mo \in {0, sxFile[1].manifest} :
          sxFile' = [i \in 1 .. n |-> IF i \in lost THEN Zero ELSE IF i = 1 THEN Header(mo) ELSE sxFile[i]]
    /\ sxBuf' = <<>> /\ sxW' = [at |-> "done"]
    /\ UNCHANGED <<sxSynced, sxPack, sxWhole>>

\* A cell of the finished file is damaged: other data under the same hash, or nothing readable.
Damage ==
    /\ sxFaults < SxMaxFaults /\ sxW.at = "done" /\ sxFile # NoCells
    /\ sxFaults' = sxFaults + 1
    /\ \E i \in DOMAIN sxFile :
          sxFile' = [sxFile EXCEPT ![i] = IF @.t = "chunk" /\ @.kind # "SchemaDef" THEN [@ EXCEPT !.data = <<0>>] ELSE Zero]
    /\ sxWhole' = FALSE
    /\ UNCHANGED <<sxSynced, sxBuf, sxW, sxPack>>

\* BrainPack::pack: any file that starts with the magic.
PackFile ==
    /\ sxW.at = "done" /\ sxPack = NoCells
    /\ sxFile # NoCells /\ sxFile[1].t = "header"
    /\ Rest(sxW, sxFile, sxSynced, sxFile)
    /\ UNCHANGED <<sxBuf, sxWhole>>

\* unpack over the file: File::create truncates it, then it is written and synced.
UnpackCreate ==
    /\ sxW.at = "done" /\ sxPack # NoCells
    /\ Rest([at |-> "unpack"], NoCells, FALSE, sxPack)
    /\ sxWhole' = FALSE
    /\ UNCHANGED sxBuf

UnpackWrite ==
    /\ sxW.at = "unpack"
    /\ Rest([at |-> "done"], sxPack, TRUE, NoCells)
    /\ UNCHANGED <<sxBuf, sxWhole>>

SynxNext ==
    \/ Create \/ ExportRow \/ FinishCells \/ Spill \/ FinishHeader \/ FinishSync
    \/ Kill \/ PowerLoss \/ Damage \/ PackFile \/ UnpackCreate \/ UnpackWrite

-----------------------------------------------------------------------------
(* SynxReader::open and MmapReader::open: header, footer at the end of the  *)
(* file, manifest at the header's offset with the footer's hash.            *)
Readable(cell) == cell.t = "chunk"

\* Mutant of decode: the data is returned without hashing it.
DecodeUnchecked(cell) == <<cell.data>>

\* Chunk::decode: an empty result stands for the error.
decode(cell) == IF cell.hash = cell.data THEN <<cell.data>> ELSE <<>>

Opens(f) ==
    /\ f # NoCells /\ f[1].t = "header"
    /\ Last(f).t = "footer"
    /\ f[1].manifest \in DOMAIN f /\ Readable(f[f[1].manifest])
    /\ f[f[1].manifest].hash = Last(f).hash
    /\ decode(f[f[1].manifest]) # <<>>
Manifest(f) == f[f[1].manifest].data

\* read_chunk_at and decode: <<>> for an error.
read_chunk(f, i) ==
    LET r == Manifest(f)[i] IN
    IF r.offset \in DOMAIN f /\ Readable(f[r.offset]) THEN decode(f[r.offset]) ELSE <<>>

ChunksOf(f, kind) == SelectSeq([i \in DOMAIN Manifest(f) |-> i], LAMBDA i : Manifest(f)[i].kind = kind)
DataOf(f, kind) ==
    FoldLeft(LAMBDA acc, i : acc \o (IF read_chunk(f, i) = <<>> THEN <<>> ELSE read_chunk(f, i)[1]), <<>>, ChunksOf(f, kind))
AllRows == [r \in 1 .. SxRows |-> r]

(* A file that opens is a finished file: its manifest names every chunk of  *)
(* the export, every chunk that decodes gives what was written, the texts   *)
(* pair with the rows of the batches one to one and in order; and a file    *)
(* whose writer returned from finish opens and reads in full.  Neither a    *)
(* kill at any write, nor a loss of power before the sync, nor damage, nor  *)
(* packing and unpacking makes a reader return anything else.               *)
OpensOnlyWhole ==
    /\ Opens(sxFile) =>
         /\ Len(ChunksOf(sxFile, "TextBlob")) = SxRows
         /\ \A i \in DOMAIN Manifest(sxFile) :
               LET got == read_chunk(sxFile, i) IN
               got # <<>> => Manifest(sxFile)[i].kind \in {"TextBlob", "RowBatch"} /\ 0 \notin Range(got[1])
         /\ (\A i \in DOMAIN Manifest(sxFile) : read_chunk(sxFile, i) # <<>>) =>
               DataOf(sxFile, "TextBlob") = AllRows /\ DataOf(sxFile, "RowBatch") = AllRows
    /\ sxWhole => Opens(sxFile) /\ \A i \in DOMAIN Manifest(sxFile) : read_chunk(sxFile, i) # <<>>
=============================================================================
