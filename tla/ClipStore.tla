----------------------------- MODULE ClipStore -----------------------------
(***************************************************************************)
(* The clip store (replay_store.rs, replay_clip_labels.rs): one directory  *)
(* of recordings with a label registry, a trash ledger, an archive and a   *)
(* thumbnail cache.  Every operation holds the store lock, except while a  *)
(* clip is written to its private temporary file.                          *)
(*                                                                         *)
(* Each file operation is a step of its own, so that the process may die   *)
(* between any two of them.  The file system keeps directory operations in *)
(* order: a crash leaves one of the states since the last directory flush  *)
(* (disk), and forgets the contents of files that were not flushed.        *)
(***************************************************************************)
EXTENDS Integers, FiniteSets, FiniteSetsExt

CONSTANTS Generated,   \* generated clip names; a recording's first one is its identity
          Named,       \* names a user gives
          Recorder,    \* writers of rolling saves, which may evict old clips
          Trimmer,     \* writers of unnamed exports, which may not
          Exporter,    \* writers of named exports, which may not
          Limit,       \* storage_limit_bytes
          MaxClip,     \* maximum_clip_bytes
          MaxInode,    \* bound: inodes
          MaxFaults,   \* bound: crashes and failed file operations
          MaxRequests, \* bound: requests of users and other programs
          MaxWrites,   \* bound: file modification times, two per clip written
          Thumbnails,  \* whether thumbnails are generated
          Reuse        \* "never": an inode number is not used twice; "store": a clip may
                       \* get the number of a deleted file; "any": foreign files may too

ASSUME StoreBounds ==
    /\ {Limit, MaxClip, MaxInode, MaxFaults, MaxRequests, MaxWrites} \subseteq Nat
    /\ 1 <= MaxClip /\ MaxClip <= Limit
    /\ Thumbnails \in BOOLEAN /\ Reuse \in {"never", "store", "any"}

Writer == Recorder \cup Trimmer \cup Exporter
Name == Generated \cup Named
Inode == 1..MaxInode
Foreign == "foreign"          \* the identity of a file somebody else put there
NoClip == "none"
Temp(w, boot) == <<w, boot>>  \* the name holds the process identifier
Entry == Name \cup {Temp(w, b) : w \in Writer, b \in 0..MaxFaults}

NoLabel == [ino |-> 0, original |-> NoClip, favorite |-> FALSE]
NoFile == [clip |-> NoClip, bytes |-> 0, complete |-> FALSE, flushed |-> FALSE, modified |-> 0]
NoOp == [kind |-> "none"]

VARIABLES fs,      \* [dir, archive, labels, bin] as the process sees them
          disk,    \* the states of fs a crash may leave
          file,    \* inode contents
          numbers, \* inode numbers ever used
          op,      \* the operation that holds the store lock, with its next file operation
          writer,  \* "idle" | "writing" | "written"
          boot, faults, requests,
          used,    \* generated names ever used (time and a counter)
          thumbs,  \* cached thumbnails
          late,    \* a thumbnail being decoded, with the metadata it was asked for
          wish,    \* per clip: what the store has promised its callers
          clean    \* no operation was cut short so far

vars == <<fs, disk, file, numbers, op, writer, boot, faults, requests, used, thumbs, late, wish, clean>>

Wish == [kept |-> FALSE, favorite |-> FALSE, trashed |-> FALSE, sure |-> TRUE]

Init ==
    /\ fs = [dir |-> [e \in Entry |-> 0], archive |-> [n \in Name |-> 0],
             labels |-> [n \in Name |-> NoLabel], bin |-> [n \in Name |-> 0]]
    /\ disk = {fs}
    /\ file = [i \in Inode |-> NoFile]
    /\ numbers = {} /\ op = NoOp
    /\ writer = [w \in Writer |-> "idle"]
    /\ boot = 0 /\ faults = 0 /\ requests = 0 /\ used = {} /\ thumbs = {} /\ late = {}
    /\ wish = [g \in Generated |-> Wish] /\ clean = TRUE

-----------------------------------------------------------------------------
(* Ownership: what the scan and owned_metadata accept. *)

Links(f, i) == Cardinality({e \in Entry : f.dir[e] = i}) + Cardinality({n \in Name : f.archive[n] = i})

Matches(f, n, i) == i # 0 /\ f.dir[n] = i /\ Links(f, i) = 1

Owned(f, n) ==
    /\ f.dir[n] # 0 /\ Links(f, f.dir[n]) = 1
    /\ n \in Generated \/ Matches(f, n, f.labels[n].ino)

OwnedNames(f) == {n \in Name : Owned(f, n)}

LabelOf(f, n) ==
    IF Matches(f, n, f.labels[n].ino) THEN f.labels[n]
    ELSE [ino |-> f.dir[n], original |-> n, favorite |-> FALSE]

Trashed(f, n) == Matches(f, n, f.bin[n])
Used(f) == MapThenSumSet(LAMBDA n : file[f.dir[n]].bytes, OwnedNames(f))

Pruned(f) == [n \in Name |-> IF Matches(f, n, f.labels[n].ino) THEN f.labels[n] ELSE NoLabel]
PrunedBin(f) == [n \in Name |-> IF Trashed(f, n) THEN f.bin[n] ELSE 0]

-----------------------------------------------------------------------------
(* File operations. *)

Write(next) == fs' = next /\ disk' = disk \cup {next}
\* The entry of a temporary file, which no reader looks at, counts as durable at once.
WriteTemporary(w, i) ==
    /\ fs' = [fs EXCEPT !.dir[Temp(w, boot)] = i]
    /\ disk' = {[d EXCEPT !.dir[Temp(w, boot)] = i] : d \in disk}
Flushed(next) == fs' = next /\ disk' = {next}
Free == Inode \ ({fs.dir[e] : e \in Entry} \cup {fs.archive[n] : n \in Name}
                 \cup UNION {{d.dir[e] : e \in Entry} : d \in disk})

Available(kind) == IF Reuse = "any" \/ (Reuse = "store" /\ kind = "clip") THEN Free ELSE Free \ numbers
NewInode(kind) == CHOOSE i \in Available(kind) : \A j \in Available(kind) : i <= j
Newest == Max({file[i].modified : i \in Inode})

Faulty == faults < MaxFaults /\ faults' = faults + 1 /\ clean' = FALSE
FailingOp == Faulty /\ UNCHANGED requests
Carefully == UNCHANGED <<faults, clean, requests>>
Asked == requests < MaxRequests /\ requests' = requests + 1

Unpublish(w) == [fs EXCEPT !.dir[Temp(w, boot)] = 0]

-----------------------------------------------------------------------------
(* Saving a clip: save_generated and save_named_export_with_limit. *)

\* The temporary file is created under the lock; a named export also looks for its name.
CreateTemporary(w) ==
    /\ op = NoOp /\ writer[w] = "idle" /\ fs.dir[Temp(w, boot)] = 0
    /\ used # Generated /\ Available("clip") # {} /\ Newest < MaxWrites
    /\ w \in Exporter => \E n \in Named : fs.dir[n] = 0
    /\ WriteTemporary(w, NewInode("clip"))
    /\ file' = [file EXCEPT ![NewInode("clip")] = [NoFile EXCEPT !.modified = Newest + 1]]
    /\ numbers' = numbers \cup {NewInode("clip")}
    /\ writer' = [writer EXCEPT ![w] = "writing"]
    /\ Carefully
    /\ UNCHANGED <<op, boot, used, thumbs, late, wish>>

\* The writer muxes without the lock, within its byte budget.
WriteClip(w, bytes) ==
    /\ writer[w] = "writing"
    /\ file' = [file EXCEPT ![fs.dir[Temp(w, boot)]] =
                  [clip |-> NoClip, bytes |-> bytes, complete |-> TRUE, flushed |-> w \in Exporter,
                   modified |-> Newest + 1]]
    /\ writer' = [writer EXCEPT ![w] = "written"]
    /\ Carefully
    /\ UNCHANGED <<fs, disk, numbers, op, boot, used, thumbs, late, wish>>

WriteFails(w) ==
    /\ writer[w] = "writing" /\ FailingOp
    /\ WriteTemporary(w, 0)
    /\ writer' = [writer EXCEPT ![w] = "idle"]
    /\ UNCHANGED <<file, numbers, op, boot, used, thumbs, late, wish>>

Fits(bytes) == Used(fs) + bytes <= Limit

Refuse(w) ==
    /\ op = NoOp /\ writer[w] = "written"
    /\ \/ w \notin Recorder /\ ~Fits(file[fs.dir[Temp(w, boot)]].bytes)
       \/ w \in Exporter /\ \A n \in Named : fs.dir[n] # 0
    /\ WriteTemporary(w, 0)
    /\ writer' = [writer EXCEPT ![w] = "idle"]
    /\ Carefully
    /\ UNCHANGED <<file, numbers, op, boot, used, thumbs, late, wish>>

\* Variant of Flush: the temporary file is published as it is.
FlushNothing(contents) == contents

Flush(contents) == [contents EXCEPT !.flushed = TRUE]

\* Under the lock: the store is scanned, an export must fit, the file is flushed; an
\* export names its inode in the registry before it is published.
Commit(w) ==
    LET i == fs.dir[Temp(w, boot)]
        g == CHOOSE g \in Generated \ used : TRUE
    IN  /\ op = NoOp /\ writer[w] = "written" /\ used # Generated
        /\ w \in Recorder \/ Fits(file[i].bytes)
        /\ file' = [file EXCEPT ![i] = [Flush(@) EXCEPT !.clip = g]]
        /\ used' = used \cup {g}
        /\ IF w \in Exporter
           THEN \E n \in Named :
                  /\ fs.dir[n] = 0
                  /\ Flushed([fs EXCEPT !.labels = [Pruned(fs) EXCEPT ![n] =
                                  [ino |-> i, original |-> g, favorite |-> FALSE]]])
                  /\ op' = [kind |-> "publish", at |-> "move", who |-> w, clip |-> g, to |-> n]
           ELSE /\ op' = [kind |-> "save", at |-> "link", who |-> w, clip |-> g, to |-> g]
                /\ UNCHANGED <<fs, disk>>
        /\ Carefully
        /\ UNCHANGED <<numbers, writer, boot, thumbs, late, wish>>

Link ==
    /\ op.kind = "save" /\ op.at = "link"
    /\ Write([fs EXCEPT !.dir[op.to] = fs.dir[Temp(op.who, boot)]])
    /\ op' = [op EXCEPT !.at = "unlink"]
    /\ Carefully
    /\ UNCHANGED <<file, numbers, writer, boot, used, thumbs, late, wish>>

Unlink ==
    /\ op.kind = "save" /\ op.at = "unlink"
    /\ Write(Unpublish(op.who))
    /\ op' = [op EXCEPT !.at = "sync"]
    /\ writer' = [writer EXCEPT ![op.who] = "idle"]
    /\ Carefully
    /\ UNCHANGED <<file, numbers, boot, used, thumbs, late, wish>>

\* The link to the temporary name could not be removed; the caller tries once more.
UnlinkFails ==
    /\ op.kind = "save" /\ op.at = "unlink" /\ FailingOp
    /\ \/ Write(Unpublish(op.who)) \/ UNCHANGED <<fs, disk>>
    /\ op' = NoOp
    /\ writer' = [writer EXCEPT ![op.who] = "idle"]
    /\ UNCHANGED <<file, numbers, boot, used, thumbs, late, wish>>

\* An export moves its file to the name, unless the name was taken meanwhile.
Publish ==
    /\ op.kind = "publish" /\ op.at = "move"
    /\ writer' = [writer EXCEPT ![op.who] = "idle"]
    /\ IF fs.dir[op.to] = 0
       THEN /\ Write([Unpublish(op.who) EXCEPT !.dir[op.to] = fs.dir[Temp(op.who, boot)]])
            /\ op' = [op EXCEPT !.at = "sync"]
       ELSE /\ Write(Unpublish(op.who)) /\ op' = NoOp
    /\ Carefully
    /\ UNCHANGED <<file, numbers, boot, used, thumbs, late, wish>>

Keep(g) == wish' = [wish EXCEPT ![g].kept = TRUE]

\* The directory is flushed; the clip counts as saved once the caller is told so.
SyncSaved ==
    /\ op.kind \in {"save", "publish"} /\ op.at = "sync"
    /\ Flushed(fs)
    /\ IF op.who \in Recorder
       THEN op' = [op EXCEPT !.at = "quota"] /\ UNCHANGED wish
       ELSE op' = NoOp /\ Keep(op.clip)
    /\ Carefully
    /\ UNCHANGED <<file, numbers, writer, boot, used, thumbs, late>>

\* enforce_quota: the oldest clip but the one just saved goes first, in the bin or not.
Victims(protected) ==
    LET others == OwnedNames(fs) \ {protected}
    IN  {n \in others : \A m \in others : file[fs.dir[n]].modified <= file[fs.dir[m]].modified}

Evict(protected) ==
    \E n \in Victims(protected) :
        /\ Write([fs EXCEPT !.dir[n] = 0])
        /\ thumbs' = {t \in thumbs : t.ino # fs.dir[n]}
        /\ wish' = [g \in Generated |-> IF file[fs.dir[n]].clip = g /\ g # protected THEN Wish ELSE wish[g]]

EnforceQuota ==
    /\ op.kind = "save" /\ op.at = "quota"
    /\ IF Used(fs) > Limit
       THEN Evict(op.to) /\ UNCHANGED op
       ELSE Flushed(fs) /\ Keep(op.clip) /\ op' = NoOp /\ UNCHANGED thumbs
    /\ Carefully
    /\ UNCHANGED <<file, numbers, writer, boot, used, late>>

-----------------------------------------------------------------------------
(* The user's operations. *)

Live(n) == Owned(fs, n) /\ ~Trashed(fs, n)
Clip(n) == file[fs.dir[n]].clip
Doubt(n) == IF Clip(n) \in Generated THEN [wish EXCEPT ![Clip(n)].sure = FALSE] ELSE wish

Carried(n) == LabelOf(fs, n)

\* The destination is authorised, durably, before the clip is moved.
Rename(n, to) ==
    /\ op = NoOp /\ to \in Named /\ n # to /\ Live(n) /\ fs.dir[to] = 0
    /\ Flushed([fs EXCEPT !.labels = [Pruned(fs) EXCEPT ![to] = Carried(n)]])
    /\ op' = [kind |-> "rename", at |-> "move", from |-> n, to |-> to]
    /\ Asked /\ UNCHANGED <<faults, clean>>
    /\ UNCHANGED <<file, numbers, writer, boot, used, thumbs, late, wish>>

\* Without replacement; a collision that arrived meanwhile ends the operation.
MoveRenamed ==
    /\ op.kind = "rename" /\ op.at = "move"
    /\ IF fs.dir[op.to] = 0
       THEN /\ Write([fs EXCEPT !.dir[op.to] = fs.dir[op.from], !.dir[op.from] = 0])
            /\ op' = [op EXCEPT !.at = "sync"]
       ELSE UNCHANGED <<fs, disk>> /\ op' = NoOp
    /\ Carefully
    /\ UNCHANGED <<file, numbers, writer, boot, used, thumbs, late, wish>>

\* The last step of a rename, a deletion or an archiving: flush the directory.
SyncUser ==
    /\ op.kind \in {"rename", "delete", "archive"} /\ op.at = "sync"
    /\ Flushed(fs) /\ op' = NoOp
    /\ Carefully
    /\ UNCHANGED <<file, numbers, writer, boot, used, thumbs, late, wish>>

\* The registry, or the ledger, is replaced and the directory flushed; if that fails the
\* new contents may be there or not, and the caller is told of the failure.
Replace(n, next, told) ==
    /\ Asked
    /\ \/ Flushed(next) /\ wish' = told /\ UNCHANGED <<faults, clean>>
       \/ (Write(next) \/ UNCHANGED <<fs, disk>>) /\ wish' = Doubt(n) /\ Faulty

SetFavorite(n, favorite) ==
    /\ op = NoOp /\ Live(n)
    /\ Replace(n, [fs EXCEPT !.labels = [Pruned(fs) EXCEPT ![n] = [LabelOf(fs, n) EXCEPT !.favorite = favorite]]],
               IF Clip(n) \in Generated
               THEN [wish EXCEPT ![Clip(n)].favorite = favorite, ![Clip(n)].sure = wish[Clip(n)].sure \/ ~wish[Clip(n)].kept]
               ELSE wish)
    /\ UNCHANGED <<file, numbers, op, writer, boot, used, thumbs, late>>

LedgerWith(n, trashed) == [PrunedBin(fs) EXCEPT ![n] = IF trashed THEN fs.dir[n] ELSE 0]

SetTrashed(n, trashed) ==
    /\ op = NoOp /\ Owned(fs, n) /\ Trashed(fs, n) # trashed
    /\ Replace(n, [fs EXCEPT !.bin = LedgerWith(n, trashed)],
               IF Clip(n) \in Generated THEN [wish EXCEPT ![Clip(n)].trashed = trashed] ELSE wish)
    /\ UNCHANGED <<file, numbers, op, writer, boot, used, thumbs, late>>

Forget(clip) == IF clip \in Generated THEN [wish EXCEPT ![clip] = Wish] ELSE wish

\* Thumbnails first, then the file; the registry and the ledger keep their entries.
Delete(n) ==
    /\ op = NoOp /\ Owned(fs, n)
    /\ thumbs' = {t \in thumbs : t.ino # fs.dir[n]}
    /\ wish' = Forget(Clip(n))
    /\ Write([fs EXCEPT !.dir[n] = 0])
    /\ op' = [kind |-> "delete", at |-> "sync"]
    /\ Asked /\ UNCHANGED <<faults, clean>>
    /\ UNCHANGED <<file, numbers, writer, boot, used, late>>

ArchiveFree(n) == fs.archive[n] = 0

Archive(n) ==
    /\ op = NoOp /\ Owned(fs, n) /\ ArchiveFree(n)
    /\ Write([fs EXCEPT !.dir[n] = 0, !.archive[n] = fs.dir[n]])
    /\ op' = [kind |-> "archive", at |-> "sync"]
    /\ Asked /\ UNCHANGED <<faults, clean>>
    /\ UNCHANGED <<file, numbers, writer, boot, used, thumbs, late, wish>>

\* A file operation of the lock holder fails and ends it.  A named export that failed
\* also removes its temporary file; a failed flush after the commit leaves the clip.
OpFails ==
    /\ op # NoOp /\ op.at \in {"link", "move", "sync", "quota"} /\ FailingOp
    /\ op' = NoOp
    /\ IF op.kind \in {"save", "publish"} /\ op.at \in {"link", "move"}
       THEN Write(Unpublish(op.who)) /\ writer' = [writer EXCEPT ![op.who] = "idle"]
       ELSE UNCHANGED <<fs, disk, writer>>
    /\ UNCHANGED <<file, numbers, boot, used, thumbs, late, wish>>

-----------------------------------------------------------------------------
(* Thumbnails, other programs, and crashes. *)

Key(i) == [ino |-> i, bytes |-> file[i].bytes, modified |-> file[i].modified]

\* A thumbnail is decoded from the file as it is now, and arrives later.
AskThumbnail(n) ==
    /\ Thumbnails /\ late = {} /\ op = NoOp /\ Live(n)
    /\ late' = {[name |-> n, key |-> Key(fs.dir[n]), clip |-> Clip(n)]}
    /\ Asked /\ UNCHANGED <<faults, clean>>
    /\ UNCHANGED <<fs, disk, file, numbers, op, writer, boot, used, thumbs, wish>>

Current(t) == Key(fs.dir[t.name]) = t.key

\* cache_thumbnail: the clip must still be the one the image was decoded from; older
\* images of its inode are dropped.
CacheThumbnail ==
    /\ op = NoOp
    /\ \E t \in late :
         thumbs' = IF Live(t.name) /\ Current(t)
                   THEN {u \in thumbs : u.ino # fs.dir[t.name]}
                          \cup {[ino |-> fs.dir[t.name], key |-> Key(fs.dir[t.name]), clip |-> t.clip]}
                   ELSE thumbs
    /\ late' = {}
    /\ Carefully
    /\ UNCHANGED <<fs, disk, file, numbers, op, writer, boot, used, wish>>

\* Somebody puts a file of their own into the directory, at any time.
ForeignFile(n) ==
    /\ n \in Named /\ fs.dir[n] = 0 /\ Available("foreign") # {}
    /\ \A i \in Inode : file[i].clip # Foreign \/ Links(fs, i) = 0
    /\ Write([fs EXCEPT !.dir[n] = NewInode("foreign")])
    /\ file' = [file EXCEPT ![NewInode("foreign")] =
                  [clip |-> Foreign, bytes |-> 1, complete |-> TRUE, flushed |-> TRUE, modified |-> Newest + 1]]
    /\ numbers' = numbers \cup {NewInode("foreign")}
    /\ Asked /\ UNCHANGED <<faults, clean>>
    /\ UNCHANGED <<op, writer, boot, used, thumbs, late, wish>>

\* Power fails: what was not flushed may be lost.
Crash ==
    /\ FailingOp
    /\ fs' \in disk /\ disk' = {fs'}
    /\ file' = [i \in Inode |-> IF file[i].flushed THEN file[i] ELSE [file[i] EXCEPT !.complete = FALSE]]
    /\ op' = NoOp /\ late' = {}
    /\ writer' = [w \in Writer |-> "idle"]
    /\ boot' = boot + 1
    /\ UNCHANGED <<numbers, used, thumbs, wish>>

SaveStep ==
    \/ \E w \in Writer : \/ CreateTemporary(w) \/ WriteFails(w) \/ Refuse(w) \/ Commit(w)
                         \/ \E b \in 1..MaxClip : WriteClip(w, b)
    \/ Link \/ Unlink \/ UnlinkFails \/ Publish \/ SyncSaved \/ EnforceQuota

UserStep ==
    \/ \E n \in Name : \/ \E to \in Name : Rename(n, to)
                       \/ \E b \in BOOLEAN : SetFavorite(n, b) \/ SetTrashed(n, b)
                       \/ Delete(n) \/ Archive(n) \/ AskThumbnail(n) \/ ForeignFile(n)
    \/ MoveRenamed \/ SyncUser \/ CacheThumbnail

Next == SaveStep \/ UserStep \/ OpFails \/ Crash

Spec == Init /\ [][Next]_vars

-----------------------------------------------------------------------------
(* What the store promises. *)

\* Types, and the lock holder's own state.
TypeOK ==
    /\ fs \in disk
    /\ fs.dir \in [Entry -> 0..MaxInode] /\ fs.archive \in [Name -> 0..MaxInode]
    /\ fs.bin \in [Name -> 0..MaxInode]
    /\ \A n \in Name : fs.labels[n].ino \in 0..MaxInode /\ fs.labels[n].original \in Generated \cup {NoClip}
    /\ writer \in [Writer -> {"idle", "writing", "written"}]
    /\ op.kind \in {"save", "publish"} /\ op.at \in {"link", "move"} => writer[op.who] = "written"
    /\ boot \in 0..MaxFaults /\ faults \in 0..MaxFaults /\ requests \in 0..MaxRequests /\ used \subseteq Generated

\* No partial recording is ever listed: in the running store and in every state a crash
\* may leave, a listed clip has its whole contents on disk or still in the page cache of
\* a machine that did not lose power (commit after sync_all).
ListedAreWhole ==
    \A f \in disk : \A n \in OwnedNames(f) : file[f.dir[n]].complete /\ (f # fs => file[f.dir[n]].flushed)

\* A clip the store has reported as saved is in the inventory or in the archive, whole and
\* under its own identity, whatever was renamed, trashed, archived or evicted for another
\* clip, and after a crash at any file operation (labels are saved before the rename).
SavedSurvives ==
    \A g \in Generated : wish[g].kept =>
        \A f \in disk :
            \/ \E n \in OwnedNames(f) : file[f.dir[n]].clip = g /\ LabelOf(f, n).original = g
            \/ \E n \in Name : f.archive[n] # 0 /\ file[f.archive[n]].clip = g

\* A clip's favourite mark is the one last set, in every state a crash may leave
\* (rename_clip: "preserving its extension, identity, game attribution and favorite").
FavoriteSurvives ==
    \A g \in Generated : wish[g].kept /\ wish[g].sure =>
        \A f \in disk : \A n \in OwnedNames(f) :
            file[f.dir[n]].clip = g => LabelOf(f, n).favorite = wish[g].favorite

\* A recording is in the bin exactly when it was put there.
BinOnlyOnRequest ==
    \A g \in Generated : wish[g].kept /\ wish[g].sure =>
        \A f \in disk : \A n \in OwnedNames(f) :
            file[f.dir[n]].clip = g => Trashed(f, n) = wish[g].trashed

\* A file of somebody else is never listed, hence never renamed, archived or evicted.
ForeignUntouched ==
    \A n \in OwnedNames(fs) : file[fs.dir[n]].clip # Foreign

\* Between operations the listed clips, the bin included, fit the storage limit, unless a
\* save was cut short: evictions and refusals see what was committed while they wrote.
WithinLimit == clean /\ op = NoOp => Used(fs) <= Limit

\* An image is only ever cached for the recording it was decoded from.
ThumbnailOfClip ==
    \A t \in thumbs : \A n \in OwnedNames(fs) : Key(fs.dir[n]) = t.key => file[fs.dir[n]].clip = t.clip
=============================================================================
