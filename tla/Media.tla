------------------------------- MODULE Media -------------------------------
(***************************************************************************)
(* The two crates that run other programs.  synapse-media indexes images,  *)
(* audio (tawnser transcribes) and videos (ffmpeg extracts frames into a   *)
(* directory named after the process) as rows of media_assets, one commit  *)
(* per row; a frame's row has the path of its file and not the picture.    *)
(* synapse-router hands a prompt to an agent CLI, a large context through  *)
(* a temporary file, and waits for it with a timeout.                      *)
(* A file is its position and what it shows; process ids are not reused.   *)
(***************************************************************************)
EXTENDS Integers, Sequences, FiniteSets, SequencesExt

CONSTANTS
    MdProcs,        \* processes that ingest media
    MdWorkers,      \* threads, each with a connection of its own
    MdProcOf,       \* worker -> process
    MdLength,       \* video -> frames ffmpeg extracts from it
    MdMaxAssets, MdMaxCalls, MdMaxKills,  \* bounds on rows, calls and deaths of a process
    MdThreshold,    \* FILE_REDIRECT_THRESHOLD
    MdTokens        \* token counts of routed requests

ASSUME MediaAssumption ==
    /\ MdProcOf \in [MdWorkers -> MdProcs]
    /\ \A v \in DOMAIN MdLength : MdLength[v] \in Nat \ {0}
    /\ MdMaxKills \in Nat /\ MdThreshold \in Nat /\ MdTokens \subseteq Nat

VARIABLES
    mdAssets,   \* media_assets in id order: [kind, parent, ts, path]
    mdDir,      \* directory -> what its frame_00001.jpg and so on show
    mdGen,      \* process -> how often it has died: with it, its process id
    mdCall,     \* worker -> the call it is in
    mdDone,     \* calls that returned ids: [kind, of, id, dir]
    mdUsed,     \* history: directory -> videos extracted into it
    mdTemp,     \* temporary files of routed requests, by request
    mdRoute,    \* routed requests in order: [state, file, tokens]
    mdLeft      \* calls still to come

mdMedia == <<mdAssets, mdDir, mdGen, mdCall, mdDone, mdUsed>>
mdVars == <<mdMedia, mdTemp, mdRoute, mdLeft>>

MdIdle == [pc |-> "idle"]
MdNobody == 0
MdDirs == MdProcs \X (0..MdMaxKills)

MediaInit ==
    /\ mdAssets = <<>> /\ mdDone = {}
    /\ mdGen = [p \in MdProcs |-> 0]
    /\ mdDir = [d \in MdDirs |-> <<>>] /\ mdUsed = [d \in MdDirs |-> {}]
    /\ mdCall = [w \in MdWorkers |-> MdIdle]
    /\ mdTemp = {} /\ mdRoute = <<>> /\ mdLeft = MdMaxCalls

\* ---- synapse-media ----

\* MediaDb::insert, and last_insert_rowid of the worker's own connection.
MdInsert(kind, parent, ts, path) ==
    mdAssets' = Append(mdAssets, [kind |-> kind, parent |-> parent, ts |-> ts, path |-> path])
MdNewId == Len(mdAssets) + 1
MdRoom(n) == Len(mdAssets) + n <= MdMaxAssets

\* frames_of: the frames of a parent by time.
Earlier(i, j) == mdAssets[i].ts < mdAssets[j].ts \/ (mdAssets[i].ts = mdAssets[j].ts /\ i < j)
FrameIds(parent) == {i \in DOMAIN mdAssets : mdAssets[i].kind = "frame" /\ mdAssets[i].parent = parent}
frames_of(parent) ==
    CHOOSE s \in [1..Cardinality(FrameIds(parent)) -> FrameIds(parent)] :
        Range(s) = FrameIds(parent) /\ \A m, n \in DOMAIN s : m < n => Earlier(s[m], s[n])

MdStarts(w) == mdCall[w] = MdIdle /\ mdLeft > 0 /\ mdLeft' = mdLeft - 1
MdGoes(w, c) == mdCall' = [mdCall EXCEPT ![w] = c]

\* tempdir: one directory per process, for all its calls, never removed.
tempdir(w) == <<MdProcOf[w], mdGen[MdProcOf[w]]>>
MdReturns(w, kind, of, id) ==
    /\ MdGoes(w, MdIdle)
    /\ mdDone' = mdDone \cup {[kind |-> kind, of |-> of, id |-> id, dir |-> tempdir(w)]}
mdFiles == <<mdDir, mdGen, mdUsed, mdTemp, mdRoute>>

\* add_image: one row, whatever could be read of the picture.
add_image(w) ==
    /\ MdStarts(w) /\ MdRoom(1)
    /\ MdInsert("image", MdNobody, 0, <<>>)
    /\ MdReturns(w, "image", "image", MdNewId)
    /\ UNCHANGED mdFiles

\* add_audio: a failing transcription is no error; a transcript becomes a row
\* of its own after the audio's.
add_audio(w) ==
    /\ MdStarts(w) /\ MdRoom(2)
    /\ MdInsert("audio", MdNobody, 0, <<>>)
    /\ \/ MdReturns(w, "audio", "audio", MdNewId)
       \/ MdGoes(w, [pc |-> "caption", parent |-> MdNewId]) /\ UNCHANGED mdDone
    /\ UNCHANGED mdFiles
MdCaption(w) ==
    /\ mdCall[w].pc = "caption"
    /\ MdInsert("caption", mdCall[w].parent, 0, <<>>)
    /\ MdReturns(w, "spoken", "audio", mdCall[w].parent)
    /\ UNCHANGED <<mdFiles, mdLeft>>

\* add_video: the row of the video comes first,
add_video(w) ==
    \E v \in DOMAIN MdLength :
        /\ MdStarts(w) /\ MdRoom(1)
        /\ MdInsert("video", MdNobody, 0, <<>>)
        /\ MdGoes(w, [pc |-> "extract", video |-> v, parent |-> MdNewId])
        /\ UNCHANGED <<mdFiles, mdDone>>

\* then ffmpeg writes its frames over those of its name in the directory of
\* the process and leaves the others; it may fail after any of them,
Overwritten(dir, v, n) == [i \in 1..(IF n > Len(dir) THEN n ELSE Len(dir)) |-> IF i <= n THEN v ELSE dir[i]]
MdExtract(w) ==
    LET c == mdCall[w]
        p == tempdir(w)
    IN /\ c.pc = "extract"
       /\ mdUsed' = [mdUsed EXCEPT ![p] = @ \cup {c.video}]
       /\ \/ /\ mdDir' = [mdDir EXCEPT ![p] = Overwritten(@, c.video, MdLength[c.video])]
             /\ MdGoes(w, [c EXCEPT !.pc = "list"])
          \/ /\ \E n \in 0..(MdLength[c.video] - 1) : mdDir' = [mdDir EXCEPT ![p] = Overwritten(@, c.video, n)]
             /\ MdGoes(w, MdIdle)
       /\ UNCHANGED <<mdAssets, mdGen, mdDone, mdTemp, mdRoute, mdLeft>>

\* then the directory is listed in the order of the names,
MdList(w) ==
    LET c == mdCall[w] IN
    /\ c.pc = "list" /\ MdRoom(Len(mdDir[tempdir(w)]))
    /\ MdGoes(w, [pc |-> "index", video |-> c.video, parent |-> c.parent,
                  files |-> Len(mdDir[tempdir(w)]), at |-> 0])
    /\ UNCHANGED <<mdAssets, mdDone, mdFiles, mdLeft>>

\* and each file becomes a row, at a time computed from its place in the list.
FrameOfLastRow(c) == [parent |-> Len(mdAssets), ts |-> c.at]
FrameOf(c) == [parent |-> c.parent, ts |-> c.at]
MdIndex(w) ==
    LET c == mdCall[w]
        f == FrameOf(c)
    IN /\ c.pc = "index"
       /\ MdInsert("frame", f.parent, f.ts, <<tempdir(w), c.at + 1>>)
       /\ IF c.at + 1 = c.files THEN MdReturns(w, "video", c.video, c.parent)
          ELSE MdGoes(w, [c EXCEPT !.at = @ + 1]) /\ UNCHANGED mdDone
       /\ UNCHANGED <<mdFiles, mdLeft>>

\* A process dies: its calls end where they are, and the next process has
\* another id and with it an empty directory.
MdCrash(p) ==
    /\ mdGen[p] < MdMaxKills /\ \E w \in MdWorkers : MdProcOf[w] = p /\ mdCall[w] # MdIdle
    /\ mdCall' = [w \in MdWorkers |-> IF MdProcOf[w] = p THEN MdIdle ELSE mdCall[w]]
    /\ mdGen' = [mdGen EXCEPT ![p] = @ + 1]
    /\ UNCHANGED <<mdAssets, mdDir, mdUsed, mdDone, mdTemp, mdRoute, mdLeft>>

\* ---- synapse-router ----

\* build_request and route: the context goes through a file when it is large.
build_request(tokens) == IF tokens > MdThreshold THEN "file" ELSE "pipe"
use_file(tokens) == build_request(tokens) = "file" /\ tokens > MdThreshold

\* The file is written before the CLI is spawned; a spawn that fails returns
\* before the file is removed.
RouteStart ==
    \E tokens \in MdTokens, spawned \in BOOLEAN :
        LET r == Len(mdRoute) + 1 IN
        /\ mdLeft > 0 /\ mdLeft' = mdLeft - 1
        /\ mdTemp' = IF use_file(tokens) THEN mdTemp \cup {r} ELSE mdTemp
        /\ mdRoute' = Append(mdRoute, [state |-> IF spawned THEN "running" ELSE "not spawned",
                                       file |-> use_file(tokens), tokens |-> tokens])
        /\ UNCHANGED mdMedia
\* The CLI ends, with whatever code: the file is removed and the result given.
RemovedBeforeWait(r) == mdTemp
Removed(r) == mdTemp \ {r}
RouteEnd(r) ==
    /\ mdRoute[r].state = "running"
    /\ mdRoute' = [mdRoute EXCEPT ![r].state = "ok"]
    /\ mdTemp' = Removed(r)
    /\ UNCHANGED <<mdMedia, mdLeft>>
\* The timeout: an error, and the CLI is left running with its file.
RouteTimeout(r) ==
    /\ mdRoute[r].state = "running"
    /\ mdRoute' = [mdRoute EXCEPT ![r].state = "timed out"]
    /\ UNCHANGED <<mdMedia, mdTemp, mdLeft>>

MediaNext ==
    \/ \E w \in MdWorkers : \/ add_image(w) \/ add_audio(w) \/ MdCaption(w)
                            \/ add_video(w) \/ MdExtract(w) \/ MdList(w) \/ MdIndex(w)
    \/ \E p \in MdProcs : MdCrash(p)
    \/ RouteStart
    \/ \E r \in DOMAIN mdRoute : RouteEnd(r) \/ RouteTimeout(r)

\* ---- What must hold ----

\* Rows of one call are committed one by one among those of other workers, and
\* crashes cut calls short; still every frame and caption points to a row of
\* the right kind before it, a returned video has its frames at the times
\* 0, 1, 2, ... in the order frames_of gives, and a returned transcript has
\* exactly one caption.
FamiliesAreWhole ==
    /\ \A i \in DOMAIN mdAssets :
          mdAssets[i].kind \in {"frame", "caption"} =>
             /\ mdAssets[i].parent \in 1..(i - 1)
             /\ mdAssets[mdAssets[i].parent].kind = IF mdAssets[i].kind = "frame" THEN "video" ELSE "audio"
    /\ \A d \in mdDone : d.kind = "video" =>
          LET f == frames_of(d.id) IN
          /\ f # <<>>
          /\ \A n \in DOMAIN f : mdAssets[f[n]].ts = n - 1
    /\ \A d \in mdDone : d.kind = "spoken" =>
          Cardinality({i \in DOMAIN mdAssets : mdAssets[i].kind = "caption" /\ mdAssets[i].parent = d.id}) = 1

\* "Extract frames using ffmpeg, index each frame": no frame of a returned video
\* is without its row, and every row's file is there.  What the files show, now
\* or after any later call, is the video, and there are no further rows, as long
\* as its process extracts no other one into its directory, before or after: a
\* second video of a process writes over the first one's frames.
Shows(i) == mdDir[mdAssets[i].path[1]][mdAssets[i].path[2]]
FramesAreThere ==
    \A d \in mdDone : d.kind = "video" =>
        LET f == frames_of(d.id) IN
        /\ Len(f) >= MdLength[d.of]
        /\ \A n \in DOMAIN f : mdAssets[f[n]].path[2] \in DOMAIN mdDir[mdAssets[f[n]].path[1]]
        /\ mdUsed[d.dir] \subseteq {d.of} => Len(f) = MdLength[d.of] /\ \A n \in DOMAIN f : Shows(f[n]) = d.of

\* A temporary file outlives its request only when the CLI never ran or was
\* left running after the timeout; a context over the threshold always went
\* through a file, and no other did.
TempFilesAreOwned ==
    /\ \A r \in DOMAIN mdRoute : r \in mdTemp => mdRoute[r].file /\ mdRoute[r].state # "ok"
    /\ \A r \in DOMAIN mdRoute : mdRoute[r].file <=> mdRoute[r].tokens > MdThreshold
====
