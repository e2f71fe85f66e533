----------------------------- MODULE BrandImages -----------------------------
(***************************************************************************)
(* The brand images: rows in brand_images, objects in the bucket,          *)
(* administrators who upload and delete them, and the part of a sync that  *)
(* mirrors the repository's image folder.  (src/api/images.py,             *)
(* utils/sync.py _sync_images, utils/gcs.py)                               *)
(*                                                                         *)
(* A row and its object are written in two steps: the object goes first,   *)
(* both when an image is made and when it is deleted.  Two sync runs can   *)
(* be at work at once (module GitHubSync), so two mirrors can.             *)
(***************************************************************************)
EXTENDS Naturals

CONSTANTS
    Images,      \* images that can be made, with the names of their objects
    Paths,       \* files with the name of an image that the repository can have
    Textual,     \* those whose bytes survive the decoding (see MirrorUploads)
    FileName,    \* the last part of each path
    Admins,      \* administrators' requests that can be in flight at once
    Mirrors,     \* the sync runs, each with its mirror
    NoImage, NoPath

ASSUME ImagesAssumption ==
    /\ NoImage \notin Images /\ NoPath \notin Paths
    /\ Textual \subseteq Paths
    /\ DOMAIN FileName = Paths

VARIABLES
    images,     \* the rows
    objects,    \* the images whose object is in the bucket
    mirror,     \* how far each mirror got
    editing,    \* what each administrator's request is about
    mirrored,   \* history: the files the last successful mirror was to show
    orphaned,   \* history: images whose object may be left without its row
    hollowed,   \* history: images whose row may be left without its object
    mishaps     \* history: what keeps a mirror from being exact

imagehistory == <<mirrored, orphaned, hollowed, mishaps>>
imagevars == <<images, objects, mirror, editing, imagehistory>>

\* `path` is NoPath for source = admin_upload.  The path of a mirrored image
\* is in no column: only its last part is kept, in the object's name.
ImageRow == [state : {"absent", "active", "inactive", "deleted"},
             path : Paths \cup {NoPath}]
NoImageRow == [state |-> "absent", path |-> NoPath]

\* read    the run has the tree, and handles its documents
\* fetch   the file of some path is asked of GitHub
\* insert  its object is uploaded; the row is to be inserted
\* `files` is what the mirror is to show: the tree, without what it skipped.
Mirror == [step : {"new", "read", "fetch", "insert", "over"}, known : SUBSET Images,
           files : SUBSET Paths, todo : SUBSET Paths, path : Paths \cup {NoPath},
           image : Images \cup {NoImage}]
NoMirror(step) == [step |-> step, known |-> {}, files |-> {}, todo |-> {},
                   path |-> NoPath, image |-> NoImage]

Mirroring(m) == mirror[m].step \in {"fetch", "insert"}

NoEdit == [step |-> "idle", image |-> NoImage]
Edit == {NoEdit} \cup [step : {"insert", "remove"}, image : Images]

InEdit == {editing[a].image : a \in Admins}
InMirror == {mirror[m].image : m \in Mirrors}
Unmade == {i \in Images : /\ images[i].state = "absent"
                          /\ i \notin objects \cup InEdit \cup InMirror}
ActiveImages == {i \in Images : images[i].state = "active"}
Mirrored == {i \in ActiveImages : images[i].path # NoPath}

Active(path) == [state |-> "active", path |-> path]

(***************************************************************************)
(* POST and DELETE /images                                                 *)
(***************************************************************************)

\* Mutant: the upload is not awaited.
Uploaded_NotAwaited(i) == objects

\* upload_bytes_to_gcs.
Uploaded(i) == objects \cup {i}

UploadObject(a, i) ==
    /\ editing[a].step = "idle"
    /\ i \in Unmade
    /\ objects' = Uploaded(i)
    /\ editing' = [editing EXCEPT ![a] = [step |-> "insert", image |-> i]]
    /\ UNCHANGED <<images, mirror, imagehistory>>

InsertUploaded(a) ==
    /\ editing[a].step = "insert"
    /\ images' = [images EXCEPT ![editing[a].image] = Active(NoPath)]
    /\ editing' = [editing EXCEPT ![a] = NoEdit]
    /\ UNCHANGED <<objects, mirror, imagehistory>>

\* Any image can be deleted, those of the mirror too.  An error of the
\* object store is swallowed and leaves the object.
DeleteObject(a, i) ==
    /\ editing[a].step = "idle"
    /\ images[i].state \in {"active", "inactive"}
    /\ \/ objects' = objects \ {i} /\ UNCHANGED orphaned
       \/ objects' = objects /\ orphaned' = orphaned \cup {i}
    /\ editing' = [editing EXCEPT ![a] = [step |-> "remove", image |-> i]]
    /\ UNCHANGED <<images, mirror, mirrored, hollowed, mishaps>>

DeleteRow(a) ==
    LET i == editing[a].image
    IN /\ editing[a].step = "remove"
       /\ images' = [images EXCEPT ![i].state = "deleted"]
       /\ mishaps' = mishaps \cup (IF images[i].path # NoPath THEN {"mirror_edited"} ELSE {})
       /\ editing' = [editing EXCEPT ![a] = NoEdit]
       /\ UNCHANGED <<objects, mirror, mirrored, orphaned, hollowed>>

\* The pod terminates or the commit fails, after an upload or after a
\* deletion of the object.
EditDies(a) ==
    LET i == editing[a].image
    IN /\ \/ /\ editing[a].step = "insert"
             /\ orphaned' = orphaned \cup {i} /\ UNCHANGED hollowed
          \/ /\ editing[a].step = "remove"
             /\ hollowed' = hollowed \cup {i} /\ UNCHANGED orphaned
       /\ editing' = [editing EXCEPT ![a] = NoEdit]
       /\ UNCHANGED <<images, objects, mirror, mirrored, mishaps>>

(***************************************************************************)
(* The mirror.  It looks rows up by path in a dictionary whose keys are    *)
(* file names, so it never finds one: every file is inserted anew, and     *)
(* every row the dictionary holds is retired at the end.                   *)
(***************************************************************************)

\* The repository may have anything when a run reads its tree.
MirrorReads(m, files) ==
    /\ mirror[m].step = "new"
    /\ mirror' = [mirror EXCEPT ![m] = [NoMirror("read") EXCEPT !.files = files]]
    /\ UNCHANGED <<images, objects, editing, imagehistory>>

Name(i) == FileName[images[i].path]

\* One row of each file name: the last of an unordered result.
Dictionaries ==
    {K \in SUBSET Mirrored : \A i \in Mirrored :
        \E k \in K : {j \in K : Name(j) = Name(i)} = {k}}

NamesDiffer(files) == \A p, q \in files : FileName[p] = FileName[q] => p = q

MirrorBegins(m) ==
    /\ mirror[m].step = "read"
    /\ \E K \in Dictionaries :
          mirror' = [mirror EXCEPT ![m] = [@ EXCEPT !.step = "fetch", !.known = K,
                                                    !.todo = mirror[m].files]]
    /\ mishaps' = mishaps
                  \cup (IF NamesDiffer(mirror[m].files \cap Textual) THEN {}
                        ELSE {"same_name"})
                  \cup (IF \E n \in Mirrors : Mirroring(n) THEN {"overlapped"} ELSE {})
    /\ UNCHANGED <<images, objects, editing, mirrored, orphaned, hollowed>>

\* The fetch fails, or its bytes are no text.
MirrorSkips(m, p) ==
    /\ mirror[m].step = "fetch" /\ p \in mirror[m].todo
    /\ mirror' = [mirror EXCEPT ![m].todo = @ \ {p}, ![m].files = @ \ {p}]
    /\ UNCHANGED <<images, objects, editing, imagehistory>>

\* The bytes are decoded as UTF-8, those that are not are replaced by U+FFFD,
\* and what comes out is encoded as Latin-1, which has no such letter: only a
\* file without them gets here, which a PNG, JPEG, WEBP or GIF is not.
MirrorUploads(m, p, i) ==
    /\ mirror[m].step = "fetch" /\ p \in mirror[m].todo
    /\ p \in Textual
    /\ i \in Unmade
    /\ objects' = Uploaded(i)
    /\ mirror' = [mirror EXCEPT ![m].step = "insert", ![m].path = p, ![m].image = i]
    /\ UNCHANGED <<images, editing, imagehistory>>

MirrorInserts(m) ==
    /\ mirror[m].step = "insert"
    /\ images' = [images EXCEPT ![mirror[m].image] = Active(mirror[m].path)]
    /\ mirror' = [mirror EXCEPT ![m] =
                    [@ EXCEPT !.step = "fetch", !.todo = mirror[m].todo \ {mirror[m].path},
                              !.path = NoPath, !.image = NoImage]]
    /\ UNCHANGED <<objects, editing, imagehistory>>

\* Mutant: the rows whose file is still in the repository are kept.
Retired_Gone(r) == {i \in r.known : images[i].path \notin r.files}

Retired(r) == r.known

Deactivated(row) == [row EXCEPT !.state = "inactive"]

\* An UPDATE that finds its row deleted raises, and retires nothing.
MirrorRetires(m) ==
    LET r == mirror[m]
        stale == \E i \in Retired(r) : images[i].state = "deleted"
    IN /\ r.step = "fetch" /\ r.todo = {}
       /\ images' = IF stale THEN images
                    ELSE [i \in Images |-> IF i \in Retired(r)
                                           THEN Deactivated(images[i])
                                           ELSE images[i]]
       /\ mirrored' = IF stale THEN mirrored ELSE r.files
       /\ mishaps' = IF stale THEN mishaps \cup {"mirror_failed"} ELSE mishaps
       /\ mirror' = [mirror EXCEPT ![m] = NoMirror("over")]
       /\ UNCHANGED <<objects, editing, orphaned, hollowed>>

\* An upload or a commit fails, or the pod terminates: what is committed
\* stays.
MirrorFails(m) ==
    /\ mirror[m].step \notin {"new", "over"}
    /\ mirror' = [mirror EXCEPT ![m] = NoMirror("over")]
    /\ orphaned' = orphaned \cup ({mirror[m].image} \cap Images)
    /\ mishaps' = mishaps \cup (IF Mirroring(m) THEN {"mirror_failed"} ELSE {})
    /\ UNCHANGED <<images, objects, editing, mirrored, hollowed>>

(***************************************************************************)
(* Specification                                                           *)
(***************************************************************************)
ImagesInit ==
    /\ images = [i \in Images |-> NoImageRow]
    /\ objects = {}
    /\ mirror = [m \in Mirrors |-> NoMirror("new")]
    /\ editing = [a \in Admins |-> NoEdit]
    /\ mirrored = {} /\ orphaned = {} /\ hollowed = {} /\ mishaps = {}

EditStep(a) ==
    \/ \E i \in Images : UploadObject(a, i) \/ DeleteObject(a, i)
    \/ InsertUploaded(a) \/ DeleteRow(a) \/ EditDies(a)

MirrorStep(m) ==
    \/ \E files \in SUBSET Paths : MirrorReads(m, files)
    \/ MirrorBegins(m)
    \/ \E p \in Paths : MirrorSkips(m, p) \/ \E i \in Images : MirrorUploads(m, p, i)
    \/ MirrorInserts(m) \/ MirrorRetires(m) \/ MirrorFails(m)

ImagesNext ==
    \/ \E a \in Admins : EditStep(a)
    \/ \E m \in Mirrors : MirrorStep(m)

ImagesSpec == ImagesInit /\ [][ImagesNext]_imagevars

(***************************************************************************)
(* Properties                                                              *)
(***************************************************************************)

\* Rows and requests keep their shape.
ImagesTypeOK ==
    /\ images \in [Images -> ImageRow]
    /\ objects \subseteq Images
    /\ mirror \in [Mirrors -> Mirror]
    /\ editing \in [Admins -> Edit]
    /\ mirrored \subseteq Paths
    /\ orphaned \subseteq Images /\ hollowed \subseteq Images
    /\ mishaps \subseteq {"mirror_edited", "mirror_failed", "same_name", "overlapped"}

\* However uploads, deletions and mirrors interleave, an image that none of
\* them is at work on has its object if it has a row, unless a deletion of
\* it died half way, and has a row if it has its object, unless an upload of
\* it died half way or the store refused to delete it.
ObjectsMatchRows ==
    \A i \in Images \ (InEdit \cup InMirror) :
       LET row == images[i].state \in {"active", "inactive"}
       IN /\ row /\ i \notin objects => i \in hollowed
          /\ i \in objects /\ ~row => i \in orphaned

Shown == {images[i].path : i \in Mirrored}

\* What the mirror shows.  Only files whose bytes are text.  A run that fails
\* takes none of the images of the last successful one away, unless two runs
\* overlapped or an administrator deleted a mirrored image.  And as long as,
\* besides, no run failed after it had begun and no two files have the same
\* name, each successful run leaves exactly the files of the tree it read
\* that it did not skip, each of them once.
MirrorIsExact ==
    /\ \A i \in Images : images[i].path \in Textual \cup {NoPath}
    /\ mishaps \cap {"overlapped", "mirror_edited"} = {} => mirrored \subseteq Shown
    /\ mishaps = {} /\ (\A m \in Mirrors : ~Mirroring(m)) =>
          /\ Shown = mirrored
          /\ \A i, j \in Mirrored : images[i].path = images[j].path => i = j
=============================================================================
