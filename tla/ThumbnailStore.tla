--------------------------- MODULE ThumbnailStore ---------------------------
(* What DThumbnailProvider keeps on disk: the thumbnail of every file in the  *)
(* directory of its size, or a marker in the fail directory, both stamped     *)
(* with the modification time of the file.  The worker creates them           *)
(* (createThumbnail), other threads look them up (thumbnailFilePath) at the   *)
(* same time, files are modified by anyone, and the program may crash between *)
(* two accesses to the disk.  One size is modelled; a file that lies in a     *)
(* thumbnail directory, which both functions return unchanged, is not.        *)
EXTENDS Integers, Sequences

CONSTANTS
    Files,        \* the files thumbnails are made of
    Clients,      \* the threads that look thumbnails up
    Times,        \* modification times, at the precision of Qt::ISODate
    MaxVersions   \* bound on how often a file is modified

ASSUME StoreAssumption == MaxVersions \in Nat /\ Times # {}

Kinds == {"good", "broken", "unsupported"}
Version == [mtime : Times, kind : Kinds]

(* A QFileInfo, which reads the state of the file once and keeps it, is the   *)
(* number of the version it has read.                                         *)
Absent == [state |-> "absent"]
Partial == [state |-> "partial"]
Complete == [state : {"complete"}, mtime : Times, ver : Nat]
OnDisk == {Absent, Partial} \cup Complete

VARIABLES
    versions,      \* the versions each file has had, the current one last
    thumb,         \* each file's thumbnail on the disk; ver: the version read
    fail,          \* each file's marker in the fail directory
    errorString,   \* is errorString set
    createPC, job, \* the worker: where it is; the file, info and version read
    target,        \* the directory it writes to
    lookupPC, ask  \* each client: where it is; the file and info it asks for

worker == <<errorString, createPC, job, target>>
clients == <<lookupPC, ask>>
storeVars == <<versions, thumb, fail, worker, clients>>

CreateSteps == {"idle", "supported", "marker", "unmark", "probe", "read",
                "save", "saving", "finish"}
Request == [file : Files, info : Nat]

Current(f) == Len(versions[f])
KindOf(f, v) == versions[f][v].kind
MTime(f, v) == versions[f][v].mtime

StoreInit ==
    /\ \E m \in Times, k \in Kinds :
        versions = [f \in Files |-> <<[mtime |-> m, kind |-> k]>>]
    /\ thumb = [f \in Files |-> Absent]
    /\ fail = [f \in Files |-> Absent]
    /\ errorString = FALSE
    /\ createPC = "idle"
    /\ \E f \in Files : job = [file |-> f, info |-> 1, read |-> 1]
    /\ target = "thumb"
    /\ lookupPC = [c \in Clients |-> "idle"]
    /\ \E f \in Files : ask = [c \in Clients |-> [file |-> f, info |-> 1]]

(* The file is changed, or replaced by one with any modification time.        *)
Modify(f, m, k) ==
    /\ Current(f) < MaxVersions
    /\ versions' = [versions EXCEPT ![f] = Append(@, [mtime |-> m, kind |-> k])]
    /\ UNCHANGED <<thumb, fail, worker, clients>>

-----------------------------------------------------------------------------
(* createThumbnail, for an info read now or long ago.                         *)
Step(from, to) == createPC = from /\ createPC' = to

(* Mutant: an error of the last creation is kept.                             *)
CreateBegin_StaleError(f, v) ==
    /\ Step("idle", "supported")
    /\ v \in 1..Current(f)
    /\ job' = [file |-> f, info |-> v, read |-> v]
    /\ UNCHANGED <<versions, thumb, fail, errorString, target, clients>>

CreateBegin(f, v) ==
    /\ Step("idle", "supported")
    /\ v \in 1..Current(f)
    /\ errorString' = FALSE
    /\ job' = [file |-> f, info |-> v, read |-> v]
    /\ UNCHANGED <<versions, thumb, fail, target, clients>>

(* hasThumbnail: size and access rights come from the info, the type from the *)
(* current content.                                                           *)
JobKinds == {KindOf(job.file, job.info), KindOf(job.file, Current(job.file))}

CreateRefuse ==
    /\ Step("supported", "idle")
    /\ "unsupported" \in JobKinds
    /\ errorString' = TRUE
    /\ UNCHANGED <<versions, thumb, fail, job, target, clients>>

CreateAccept ==
    /\ Step("supported", "marker")
    /\ JobKinds # {"unsupported"}
    /\ UNCHANGED <<versions, thumb, fail, errorString, job, target, clients>>

(* Mutant: the time is not compared.                                          *)
Stamped_Ever(file, f, v) == file.state = "complete"

Stamped(file, f, v) == file.state = "complete" /\ file.mtime = MTime(f, v)

(* A marker with the modification time of the info ends the creation ...      *)
Marked == Stamped(fail[job.file], job.file, job.info)

CreateGiveUp ==
    /\ Step("marker", "idle")
    /\ Marked
    /\ UNCHANGED <<versions, thumb, fail, errorString, job, target, clients>>

(* ... and any other is removed.                                              *)
CreateGoOn ==
    /\ Step("marker", "unmark")
    /\ ~Marked
    /\ UNCHANGED <<versions, thumb, fail, errorString, job, target, clients>>

CreateUnmark ==
    /\ Step("unmark", "probe")
    /\ fail' = [fail EXCEPT ![job.file] = Absent]
    /\ UNCHANGED <<versions, thumb, errorString, job, target, clients>>

(* canRead: what it refuses is not good; a broken file may still pass.        *)
CreateProbe ==
    LET kind == KindOf(job.file, Current(job.file)) IN
    /\ Step("probe", "read")
    /\ \/ kind # "good" /\ errorString' = TRUE
       \/ kind # "unsupported" /\ UNCHANGED errorString
    /\ job' = [job EXCEPT !.read = Current(job.file)]
    /\ UNCHANGED <<versions, thumb, fail, target, clients>>

(* The image is read, if there is no error yet; then errorString decides.     *)
CreateRead ==
    LET good == KindOf(job.file, Current(job.file)) = "good" IN
    /\ Step("read", "save")
    /\ errorString' = (errorString \/ ~good)
    /\ job' = IF errorString THEN job ELSE [job EXCEPT !.read = Current(job.file)]
    /\ target' = IF errorString' THEN "fail" ELSE "thumb"
    /\ UNCHANGED <<versions, thumb, fail, clients>>

Write(file) ==
    /\ thumb' = IF target = "thumb" THEN [thumb EXCEPT ![job.file] = file] ELSE thumb
    /\ fail' = IF target = "fail" THEN [fail EXCEPT ![job.file] = file] ELSE fail

(* QImage::save truncates the file or creates it, ...                         *)
SaveBegin ==
    /\ Step("save", "saving")
    /\ Write(Partial)
    /\ UNCHANGED <<versions, errorString, job, target, clients>>

(* ... and writes it, without effect on the directory when another thread has *)
(* removed the file.                                                          *)
Removed == target = "thumb" /\ thumb[job.file] = Absent

(* Mutant: the time is read again when the image is saved.                    *)
SaveEnd_Restamped ==
    /\ Step("saving", "finish")
    /\ IF Removed THEN UNCHANGED <<thumb, fail>>
       ELSE Write([state |-> "complete", ver |-> job.read,
                   mtime |-> MTime(job.file, Current(job.file))])
    /\ UNCHANGED <<versions, errorString, job, target, clients>>

SaveEnd ==
    /\ Step("saving", "finish")
    /\ IF Removed THEN UNCHANGED <<thumb, fail>>
       ELSE Write([state |-> "complete", mtime |-> MTime(job.file, job.info),
                   ver |-> job.read])
    /\ UNCHANGED <<versions, errorString, job, target, clients>>

(* It fails, before or after the file was opened.                             *)
SaveFails ==
    /\ createPC \in {"save", "saving"}
    /\ createPC' = "finish"
    /\ errorString' = TRUE
    /\ UNCHANGED <<versions, thumb, fail, job, target, clients>>

(* createThumbnailFinished and the path, or createThumbnailFailed and none.   *)
CreateFinish ==
    /\ Step("finish", "idle")
    /\ UNCHANGED <<versions, thumb, fail, errorString, job, target, clients>>

-----------------------------------------------------------------------------
(* thumbnailFilePath, for an info read now or long ago.                       *)
LookupStep(c, from, to) ==
    lookupPC[c] = from /\ lookupPC' = [lookupPC EXCEPT ![c] = to]
AskedThumb(c) == thumb[ask[c].file]

(* QFile::exists: nothing, or there is something to load.                     *)
Lookup(c, f, v) ==
    /\ v \in 1..Current(f)
    /\ thumb[f] # Absent
    /\ LookupStep(c, "idle", "load")
    /\ ask' = [ask EXCEPT ![c] = [file |-> f, info |-> v]]
    /\ UNCHANGED <<versions, thumb, fail, worker>>

Fits(c) == Stamped(AskedThumb(c), ask[c].file, ask[c].info)

LookupFound(c) ==
    /\ LookupStep(c, "load", "idle")
    /\ Fits(c)
    /\ UNCHANGED <<versions, thumb, fail, worker, ask>>

LookupMisfit(c) ==
    /\ LookupStep(c, "load", "remove")
    /\ ~Fits(c)
    /\ UNCHANGED <<versions, thumb, fail, worker, ask>>

(* QFile::remove, then thumbnailChanged with no path.                         *)
LookupRemove(c) ==
    /\ LookupStep(c, "remove", "idle")
    /\ thumb' = [thumb EXCEPT ![ask[c].file] = Absent]
    /\ UNCHANGED <<versions, fail, worker, ask>>

(* The program crashes and is started again: only the disk is left.           *)
Crash ==
    /\ createPC' = "idle"
    /\ errorString' = FALSE
    /\ lookupPC' = [c \in Clients |-> "idle"]
    /\ UNCHANGED <<versions, thumb, fail, job, target, ask>>

StoreNext ==
    \/ \E f \in Files, m \in Times, k \in Kinds : Modify(f, m, k)
    \/ \E f \in Files, v \in 1..MaxVersions : CreateBegin(f, v)
    \/ CreateRefuse \/ CreateAccept \/ CreateGiveUp \/ CreateGoOn \/ CreateUnmark
    \/ CreateProbe \/ CreateRead \/ SaveBegin \/ SaveEnd \/ SaveFails \/ CreateFinish
    \/ \E c \in Clients :
        \/ \E f \in Files, v \in 1..MaxVersions : Lookup(c, f, v)
        \/ LookupFound(c) \/ LookupMisfit(c) \/ LookupRemove(c)
    \/ Crash

StoreSpec == StoreInit /\ [][StoreNext]_storeVars

-----------------------------------------------------------------------------
StoreTypeOK ==
    /\ versions \in [Files -> Seq(Version)]
    /\ thumb \in [Files -> OnDisk]
    /\ fail \in [Files -> OnDisk]
    /\ errorString \in BOOLEAN
    /\ createPC \in CreateSteps
    /\ job \in [file : Files, info : Nat, read : Nat]
    /\ target \in {"thumb", "fail"}
    /\ lookupPC \in [Clients -> {"idle", "load", "remove"}]
    /\ ask \in [Clients -> Request]

(* Infos and versions read are versions the file has had.                     *)
InfosOK ==
    /\ 1 <= job.info /\ job.info <= job.read /\ job.read <= Current(job.file)
    /\ \A c \in Clients :
        1 <= ask[c].info /\ ask[c].info <= Current(ask[c].file)

(* What a complete file on the disk says of its file: it is stamped with the  *)
(* time of a version, and made of that version or a later one, good or not.   *)
Made(file, f, good) ==
    file.state = "complete" =>
        /\ file.ver <= Current(f)
        /\ KindOf(f, file.ver) = "good" <=> good
        /\ \E v \in 1..file.ver : file.mtime = MTime(f, v)

ThumbsTrue == \A f \in Files : Made(thumb[f], f, TRUE)
MarkersTrue == \A f \in Files : Made(fail[f], f, FALSE)

(* What the worker is about to write will be true.                            *)
WritesTrue ==
    /\ createPC \in {"supported", "marker", "unmark", "probe"} => ~errorString
    /\ createPC = "read" /\ errorString => KindOf(job.file, job.read) # "good"
    /\ createPC \in {"save", "saving"} =>
        (KindOf(job.file, job.read) = "good" <=> target = "thumb")

(* The type invariant and the invariant that makes the rest inductive: every  *)
(* complete thumbnail and marker on the disk is true of its file.             *)
StoreInv == StoreTypeOK /\ InfosOK /\ WritesTrue /\ ThumbsTrue /\ MarkersTrue

(* The thumbnail a client is given is not older than the info it holds, if    *)
(* the file's versions can be told apart by their times; it is never half     *)
(* written, though the worker writes it in place and may crash.               *)
TimesDiffer(f) ==
    \A v, w \in 1..Current(f) : MTime(f, v) = MTime(f, w) => v = w

ServedFresh ==
    [][\A c \in Clients :
        LookupFound(c) /\ TimesDiffer(ask[c].file) =>
            AskedThumb(c).ver >= ask[c].info]_storeVars

(* The creation is given up because of a marker only when the version the     *)
(* caller knows of, or a later one, could not be read.                        *)
RefusedForCause ==
    [][ CreateGiveUp /\ TimesDiffer(job.file) =>
        \E v \in job.info..Current(job.file) : KindOf(job.file, v) # "good" ]_storeVars

(* createThumbnail "returns the absolute path on success" (its comment): then *)
(* the thumbnail is there.                                                    *)
ReturnedThumbnailExists ==
    [][ CreateFinish /\ ~errorString => thumb[job.file].state = "complete" ]_storeVars
=============================================================================
