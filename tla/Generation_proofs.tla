-------------------------- MODULE Generation_proofs --------------------------
(***************************************************************************)
(* Proofs about BrandImages and Generation, for any images, repository     *)
(* files, administrators, runs of the mirror and requests.  The images     *)
(* come first: what generations do leaves them alone, so their theorems    *)
(* and invariants serve the generations too.                               *)
(***************************************************************************)
EXTENDS Generation, TLAPS

(***************************************************************************)
(* Types                                                                   *)
(***************************************************************************)
LEMMA Rows ==
    /\ NoImageRow \in ImageRow /\ NoImageRow.state = "absent" /\ NoImageRow.path = NoPath
    /\ \A step \in {"new", "over"} :
          LET r == NoMirror(step)
          IN /\ r \in Mirror /\ r.step = step /\ r.known = {} /\ r.image = NoImage
             /\ r.todo = {} /\ r.files = {}
    /\ NoEdit \in Edit /\ NoEdit.step = "idle" /\ NoEdit.image = NoImage
BY DEF NoImageRow, ImageRow, NoMirror, Mirror, NoEdit, Edit

LEMMA ActiveRow ==
    \A p \in Paths \cup {NoPath} : /\ Active(p) \in ImageRow
                                   /\ Active(p).state = "active" /\ Active(p).path = p
BY DEF Active, ImageRow

\* What each step of a mirror does to its record.
MirrorChanges(m) ==
    /\ mirror' \in [Mirrors -> Mirror]
    /\ \A n \in Mirrors \ {m} : mirror'[n] = mirror[n]

LEMMA MirrorRead ==
    ASSUME ImagesTypeOK, NEW m \in Mirrors, NEW files \in SUBSET Paths,
           MirrorReads(m, files)
    PROVE  /\ MirrorChanges(m)
           /\ mirror[m].step = "new" /\ mirror'[m].step = "read"
           /\ mirror'[m].known = {} /\ mirror'[m].files = files
           /\ mirror'[m].todo = {} /\ mirror'[m].image = NoImage
<1>1. PICK t : t = [NoMirror("read") EXCEPT !.files = files]
  OBVIOUS
<1>2. /\ t \in Mirror /\ t.step = "read" /\ t.known = {} /\ t.files = files
      /\ t.todo = {} /\ t.image = NoImage
  BY <1>1 DEF NoMirror, Mirror
<1>. QED
  BY <1>1, <1>2 DEF ImagesTypeOK, MirrorReads, MirrorChanges

LEMMA MirrorBegun ==
    ASSUME ImagesTypeOK, NEW m \in Mirrors, MirrorBegins(m)
    PROVE  /\ MirrorChanges(m)
           /\ mirror[m].step = "read" /\ mirror'[m].step = "fetch"
           /\ mirror'[m].known \in Dictionaries /\ mirror'[m].files = mirror[m].files
           /\ mirror'[m].todo = mirror[m].files /\ mirror'[m].image = mirror[m].image
<1>1. PICK K \in Dictionaries :
         mirror' = [mirror EXCEPT ![m] = [@ EXCEPT !.step = "fetch", !.known = K,
                                                  !.todo = mirror[m].files]]
  BY DEF MirrorBegins
<1>2. K \subseteq Images
  BY <1>1 DEF Dictionaries, Mirrored, ActiveImages
<1>3. PICK r \in Mirror : r = mirror[m]
  BY DEF ImagesTypeOK
<1>4. PICK t : t = [r EXCEPT !.step = "fetch", !.known = K, !.todo = r.files]
  OBVIOUS
<1>5. /\ t \in Mirror /\ t.step = "fetch" /\ t.known = K /\ t.files = r.files
      /\ t.todo = r.files /\ t.image = r.image
  BY <1>2, <1>4 DEF Mirror
<1>6. mirror' = [mirror EXCEPT ![m] = t] /\ r.step = "read"
  BY <1>1, <1>3, <1>4 DEF MirrorBegins
<1>. QED
  BY <1>1, <1>3, <1>5, <1>6 DEF ImagesTypeOK, MirrorChanges

LEMMA MirrorSkipped ==
    ASSUME ImagesTypeOK, NEW m \in Mirrors, NEW p \in Paths, MirrorSkips(m, p)
    PROVE  /\ MirrorChanges(m)
           /\ mirror[m].step = "fetch" /\ mirror'[m].step = "fetch"
           /\ mirror'[m].known = mirror[m].known
           /\ mirror'[m].files = mirror[m].files \ {p}
           /\ mirror'[m].todo = mirror[m].todo \ {p} /\ mirror'[m].image = mirror[m].image
BY DEF ImagesTypeOK, MirrorSkips, Mirror, MirrorChanges

LEMMA MirrorUploaded ==
    ASSUME ImagesTypeOK, NEW m \in Mirrors, NEW p \in Paths, NEW i \in Images,
           MirrorUploads(m, p, i)
    PROVE  /\ MirrorChanges(m)
           /\ mirror[m].step = "fetch" /\ mirror'[m].step = "insert"
           /\ mirror'[m].known = mirror[m].known /\ mirror'[m].files = mirror[m].files
           /\ mirror'[m].todo = mirror[m].todo /\ p \in mirror[m].todo
           /\ mirror'[m].path = p /\ mirror'[m].image = i
BY DEF ImagesTypeOK, MirrorUploads, Mirror, MirrorChanges

LEMMA MirrorInserted ==
    ASSUME ImagesTypeOK, NEW m \in Mirrors, MirrorInserts(m)
    PROVE  /\ MirrorChanges(m)
           /\ mirror[m].step = "insert" /\ mirror'[m].step = "fetch"
           /\ mirror'[m].known = mirror[m].known /\ mirror'[m].files = mirror[m].files
           /\ mirror'[m].todo = mirror[m].todo \ {mirror[m].path}
           /\ mirror'[m].image = NoImage
<1>1. PICK r \in Mirror : r = mirror[m]
  BY DEF ImagesTypeOK
<1>2. PICK t : t = [r EXCEPT !.step = "fetch", !.todo = r.todo \ {r.path},
                             !.path = NoPath, !.image = NoImage]
  OBVIOUS
<1>3. /\ t \in Mirror /\ t.step = "fetch" /\ t.known = r.known /\ t.image = NoImage
      /\ t.files = r.files /\ t.todo = r.todo \ {r.path}
  BY <1>2 DEF Mirror
<1>4. mirror' = [mirror EXCEPT ![m] = t] /\ r.step = "insert"
  BY <1>1, <1>2 DEF MirrorInserts
<1>. QED
  BY <1>1, <1>3, <1>4 DEF ImagesTypeOK, MirrorChanges

LEMMA MirrorOver ==
    ASSUME ImagesTypeOK, NEW m \in Mirrors, MirrorRetires(m) \/ MirrorFails(m)
    PROVE  /\ MirrorChanges(m)
           /\ mirror'[m].step = "over" /\ mirror'[m].known = {} /\ mirror'[m].files = {}
           /\ mirror'[m].todo = {} /\ mirror'[m].image = NoImage
<1>1. mirror' = [mirror EXCEPT ![m] = NoMirror("over")]
  BY DEF MirrorRetires, MirrorFails
<1>. QED
  BY <1>1, Rows DEF ImagesTypeOK, MirrorChanges

LEMMA ImagesTypeInit == ImagesInit => ImagesTypeOK
BY Rows, ImagesAssumption DEF ImagesInit, ImagesTypeOK

LEMMA ImagesTypeStep == ImagesTypeOK /\ [ImagesNext]_imagevars => ImagesTypeOK'
<1> SUFFICES ASSUME ImagesTypeOK, [ImagesNext]_imagevars PROVE ImagesTypeOK'
  OBVIOUS
<1>t. /\ images \in [Images -> ImageRow] /\ mirror \in [Mirrors -> Mirror]
      /\ editing \in [Admins -> Edit]
  BY DEF ImagesTypeOK
<1>1. ASSUME NEW a \in Admins, NEW i \in Images, UploadObject(a, i)
      PROVE  ImagesTypeOK'
  BY <1>1 DEF ImagesTypeOK, UploadObject, Uploaded, Unmade, Edit, imagehistory
<1>2. ASSUME NEW a \in Admins, NEW i \in Images, DeleteObject(a, i)
      PROVE  ImagesTypeOK'
  BY <1>2 DEF ImagesTypeOK, DeleteObject, Edit
<1>3. ASSUME NEW a \in Admins, InsertUploaded(a)
      PROVE  ImagesTypeOK'
  BY <1>3, Rows, ActiveRow DEF ImagesTypeOK, InsertUploaded, imagehistory
<1>4. ASSUME NEW a \in Admins, DeleteRow(a)
      PROVE  ImagesTypeOK'
  <2>1. images' \in [Images -> ImageRow]
    BY <1>t, <1>4 DEF DeleteRow, ImageRow
  <2>. QED
    BY <1>4, <2>1, Rows DEF ImagesTypeOK, DeleteRow
<1>5. ASSUME NEW a \in Admins, EditDies(a)
      PROVE  ImagesTypeOK'
  <2>1. editing[a].step # "idle" => editing[a].image \in Images
    BY <1>t DEF Edit, NoEdit
  <2>2. editing' \in [Admins -> Edit]
    BY <1>t, <1>5, Rows DEF EditDies
  <2>. QED
    BY <1>5, <2>1, <2>2 DEF ImagesTypeOK, EditDies
<1>6. ASSUME NEW m \in Mirrors, NEW files \in SUBSET Paths, MirrorReads(m, files)
      PROVE  ImagesTypeOK'
  BY <1>6, MirrorRead DEF ImagesTypeOK, MirrorReads, MirrorChanges, imagehistory
<1>7. ASSUME NEW m \in Mirrors, MirrorBegins(m)
      PROVE  ImagesTypeOK'
  <2>1. mishaps' \subseteq mishaps \cup {"same_name", "overlapped"}
    BY <1>7 DEF MirrorBegins
  <2>. QED
    BY <1>7, <2>1, MirrorBegun DEF ImagesTypeOK, MirrorBegins, MirrorChanges
<1>8. ASSUME NEW m \in Mirrors, NEW p \in Paths, MirrorSkips(m, p)
      PROVE  ImagesTypeOK'
  BY <1>8, MirrorSkipped DEF ImagesTypeOK, MirrorSkips, MirrorChanges, imagehistory
<1>9. ASSUME NEW m \in Mirrors, NEW p \in Paths, NEW i \in Images, MirrorUploads(m, p, i)
      PROVE  ImagesTypeOK'
  BY <1>9, MirrorUploaded
  DEF ImagesTypeOK, MirrorUploads, MirrorChanges, Uploaded, imagehistory
<1>10. ASSUME NEW m \in Mirrors, MirrorInserts(m)
       PROVE  ImagesTypeOK'
  <2>1. mirror[m].path \in Paths \cup {NoPath}
    BY <1>t DEF Mirror
  <2>2. images' \in [Images -> ImageRow]
    BY <1>t, <1>10, <2>1, ActiveRow DEF MirrorInserts
  <2>. QED
    BY <1>10, <2>2, MirrorInserted
    DEF ImagesTypeOK, MirrorInserts, MirrorChanges, imagehistory
<1>11. ASSUME NEW m \in Mirrors, MirrorRetires(m)
       PROVE  ImagesTypeOK'
  <2>1. \A i \in Images : Deactivated(images[i]) \in ImageRow
    BY <1>t DEF Deactivated, ImageRow
  <2>2. images' \in [Images -> ImageRow]
    BY <1>t, <1>11, <2>1 DEF MirrorRetires
  <2>3. mirror[m].files \subseteq Paths
    BY <1>t DEF Mirror
  <2>4. mirrored' \subseteq Paths
    BY <1>11, <2>3 DEF MirrorRetires, ImagesTypeOK
  <2>. QED
    BY <1>11, <2>2, <2>4, MirrorOver DEF ImagesTypeOK, MirrorRetires, MirrorChanges
<1>12. ASSUME NEW m \in Mirrors, MirrorFails(m)
       PROVE  ImagesTypeOK'
  BY <1>12, MirrorOver DEF ImagesTypeOK, MirrorFails, MirrorChanges
<1>13. CASE UNCHANGED imagevars
  BY <1>13 DEF ImagesTypeOK, imagevars, imagehistory
<1>. QED
  BY <1>1, <1>2, <1>3, <1>4, <1>5, <1>6, <1>7, <1>8, <1>9, <1>10, <1>11, <1>12, <1>13
  DEF ImagesNext, EditStep, MirrorStep

\* Rows, objects and requests keep their shape (src/api/images.py,
\* utils/sync.py), whatever fails half way.
THEOREM ImagesTypeCorrect == ImagesSpec => []ImagesTypeOK
<1>. QED
  BY ImagesTypeInit, ImagesTypeStep, PTL DEF ImagesSpec

(***************************************************************************)
(* Rows and objects                                                        *)
(***************************************************************************)

\* An image that is being made is nobody else's; one that is being deleted
\* has a row, and its object is gone unless the store failed.
EditSound(a) ==
    LET i == editing[a].image
    IN /\ editing[a].step = "idle" => i = NoImage
       /\ editing[a].step = "insert" =>
             /\ i \in Images /\ images[i].state = "absent" /\ i \in objects
             /\ i \notin InMirror
             /\ \A b \in Admins : editing[b].image = i => b = a
       /\ editing[a].step = "remove" =>
             /\ i \in Images /\ images[i].state # "absent"
             /\ i \in objects => i \in orphaned

MirrorSound(m) ==
    LET r == mirror[m]
    IN /\ r.step = "insert" =>
             /\ r.image \in Images /\ images[r.image].state = "absent"
             /\ r.image \in objects
             /\ r.path \in r.todo \cap Textual
             /\ \A n \in Mirrors : mirror[n].image = r.image => n = m
       /\ r.step # "insert" => r.image = NoImage
       /\ r.todo \subseteq r.files
       /\ \A i \in r.known : images[i].state # "absent"

\* Only an image that has a row has a path, and that of a text.
PathsAreTextual ==
    \A i \in Images : /\ images[i].path \in Textual \cup {NoPath}
                      /\ images[i].state = "absent" => images[i].path = NoPath

ObjectsInv ==
    /\ ImagesTypeOK
    /\ \A a \in Admins : EditSound(a)
    /\ \A m \in Mirrors : MirrorSound(m)
    /\ ObjectsMatchRows
    /\ PathsAreTextual

LEMMA ObjectsInvInit == ImagesInit => ObjectsInv
<1> SUFFICES ASSUME ImagesInit PROVE ObjectsInv
  OBVIOUS
<1>1. ImagesTypeOK
  BY ImagesTypeInit
<1>2. \A i \in Images : images[i].state = "absent" /\ images[i].path = NoPath
  BY Rows DEF ImagesInit
<1>3. \A a \in Admins : editing[a].step = "idle" /\ editing[a].image = NoImage
  BY Rows DEF ImagesInit
<1>4. /\ \A m \in Mirrors : /\ mirror[m].step = "new" /\ mirror[m].known = {}
                            /\ mirror[m].image = NoImage /\ mirror[m].todo = {}
      /\ objects = {}
  BY Rows DEF ImagesInit
<1>. QED
  BY <1>1, <1>2, <1>3, <1>4
  DEF ObjectsInv, EditSound, MirrorSound, ObjectsMatchRows, PathsAreTextual

\* A step of a mirror that leaves rows and objects alone.
LEMMA MirrorAside ==
    ASSUME ObjectsInv, ImagesTypeOK', NEW m \in Mirrors, MirrorChanges(m),
           UNCHANGED <<images, objects, editing, hollowed>>, orphaned \subseteq orphaned',
           mirror'[m].step # "insert", mirror'[m].image = NoImage,
           mirror[m].image \in Images => mirror[m].image \in orphaned',
           mirror'[m].todo \subseteq mirror'[m].files,
           \A i \in mirror'[m].known : images[i].state # "absent"
    PROVE  ObjectsInv'
<1>1. /\ \A a \in Admins : EditSound(a)
      /\ \A n \in Mirrors : MirrorSound(n)
      /\ ObjectsMatchRows /\ PathsAreTextual /\ NoImage \notin Images
      /\ \A n \in Mirrors \ {m} : mirror'[n] = mirror[n]
  BY ImagesAssumption DEF ObjectsInv, MirrorChanges
<1>2. InMirror' \subseteq InMirror \cup {NoImage} /\ InEdit' = InEdit
  BY <1>1 DEF InMirror, InEdit
<1>3. ASSUME NEW a \in Admins PROVE EditSound(a)'
  BY <1>1, <1>2 DEF EditSound
<1>4. ASSUME NEW n \in Mirrors PROVE MirrorSound(n)'
  BY <1>1 DEF MirrorSound
<1>5. ObjectsMatchRows'
  <2> SUFFICES ASSUME NEW i \in Images, i \notin InEdit', i \notin InMirror'
               PROVE  LET row == images'[i].state \in {"active", "inactive"}
                      IN /\ row /\ i \notin objects' => i \in hollowed'
                         /\ i \in objects' /\ ~row => i \in orphaned'
    BY DEF ObjectsMatchRows
  <2>1. CASE i \in InMirror
    <3>1. i = mirror[m].image
      BY <1>1, <2>1 DEF InMirror
    <3>2. i \in orphaned' /\ mirror[m].step = "insert"
      BY <1>1, <3>1 DEF MirrorSound
    <3>3. images[i].state = "absent"
      BY <1>1, <3>1, <3>2 DEF MirrorSound
    <3>. QED
      BY <3>2, <3>3
  <2>2. CASE i \notin InMirror
    BY <1>1, <1>2, <2>2 DEF ObjectsMatchRows
  <2>. QED
    BY <2>1, <2>2
<1>6. PathsAreTextual'
  BY <1>1 DEF PathsAreTextual
<1>. QED
  BY <1>3, <1>4, <1>5, <1>6 DEF ObjectsInv

LEMMA ObjectsInvStep == ObjectsInv /\ [ImagesNext]_imagevars => ObjectsInv'
<1> SUFFICES ASSUME ObjectsInv, [ImagesNext]_imagevars PROVE ObjectsInv'
  OBVIOUS
<1>0. ImagesTypeOK /\ ImagesTypeOK' /\ NoImage \notin Images
  BY ImagesTypeStep, ImagesAssumption DEF ObjectsInv
<1>t. /\ images \in [Images -> ImageRow] /\ images' \in [Images -> ImageRow]
      /\ editing \in [Admins -> Edit] /\ editing' \in [Admins -> Edit]
      /\ mirror \in [Mirrors -> Mirror] /\ mirror' \in [Mirrors -> Mirror]
      /\ \A m \in Mirrors : mirror[m].known \subseteq Images
  BY <1>0 DEF ImagesTypeOK, Mirror
<1>i. /\ \A a \in Admins : EditSound(a)
      /\ \A m \in Mirrors : MirrorSound(m)
      /\ ObjectsMatchRows /\ PathsAreTextual
  BY DEF ObjectsInv
<1>m. \A m \in Mirrors : mirror[m].image \in Images => mirror[m].step = "insert"
  BY <1>0, <1>i DEF MirrorSound
<1>1. ASSUME NEW a \in Admins, NEW i \in Images, UploadObject(a, i)
      PROVE  ObjectsInv'
  <2>1. /\ images[i].state = "absent" /\ i \notin objects /\ i \notin InEdit
        /\ i \notin InMirror /\ objects' = objects \cup {i}
        /\ editing[a].step = "idle"
        /\ editing'[a].step = "insert" /\ editing'[a].image = i
        /\ \A b \in Admins \ {a} : editing'[b] = editing[b]
        /\ UNCHANGED <<images, mirror, orphaned, hollowed>>
    BY <1>1, <1>t DEF UploadObject, Uploaded, Unmade, imagehistory
  <2>2. \A b \in Admins : EditSound(b)'
    BY <1>0, <1>i, <2>1 DEF EditSound, InEdit, InMirror
  <2>3. \A m \in Mirrors : MirrorSound(m)'
    BY <1>i, <2>1 DEF MirrorSound
  <2>4. ObjectsMatchRows'
    BY <1>0, <1>i, <2>1 DEF ObjectsMatchRows, InEdit, InMirror, EditSound
  <2>5. PathsAreTextual'
    BY <1>i, <2>1 DEF PathsAreTextual
  <2>. QED
    BY <1>0, <2>2, <2>3, <2>4, <2>5 DEF ObjectsInv
<1>2. ASSUME NEW a \in Admins, NEW i \in Images, DeleteObject(a, i)
      PROVE  ObjectsInv'
  <2>1. /\ images[i].state \in {"active", "inactive"}
        /\ \/ objects' = objects \ {i} /\ orphaned' = orphaned
           \/ objects' = objects /\ orphaned' = orphaned \cup {i}
        /\ editing[a].step = "idle"
        /\ editing'[a].step = "remove" /\ editing'[a].image = i
        /\ \A b \in Admins \ {a} : editing'[b] = editing[b]
        /\ UNCHANGED <<images, mirror, hollowed>>
    BY <1>2, <1>t DEF DeleteObject
  <2>2. \A b \in Admins : EditSound(b)'
    BY <1>0, <1>i, <2>1 DEF EditSound, InMirror
  <2>3. \A m \in Mirrors : MirrorSound(m)'
    BY <1>i, <2>1 DEF MirrorSound
  <2>4. ObjectsMatchRows'
    BY <1>0, <1>i, <2>1 DEF ObjectsMatchRows, InEdit, InMirror, EditSound
  <2>5. PathsAreTextual'
    BY <1>i, <2>1 DEF PathsAreTextual
  <2>. QED
    BY <1>0, <2>2, <2>3, <2>4, <2>5 DEF ObjectsInv
<1>3. ASSUME NEW a \in Admins, InsertUploaded(a)
      PROVE  ObjectsInv'
  <2>. DEFINE i == editing[a].image
  <2>1. /\ i \in Images /\ images[i].state = "absent" /\ i \in objects /\ i \notin InMirror
        /\ \A b \in Admins : editing[b].image = i => b = a
    BY <1>3, <1>i DEF InsertUploaded, EditSound
  <2>2. /\ images' = [images EXCEPT ![i] = Active(NoPath)]
        /\ editing'[a].step = "idle" /\ editing'[a].image = NoImage
        /\ \A b \in Admins \ {a} : editing'[b] = editing[b]
        /\ UNCHANGED <<objects, mirror, orphaned, hollowed>>
    BY <1>3, <1>t, Rows DEF InsertUploaded, imagehistory
  <2>3. /\ images'[i].state = "active" /\ images'[i].path = NoPath
        /\ \A j \in Images \ {i} : images'[j] = images[j]
    BY <1>t, <2>1, <2>2, ActiveRow
  <2>. HIDE DEF i
  <2>4. \A b \in Admins : EditSound(b)'
    BY <1>0, <1>i, <2>1, <2>2, <2>3 DEF EditSound, InMirror
  <2>5. \A m \in Mirrors : MirrorSound(m)'
    BY <1>i, <1>t, <2>1, <2>2, <2>3 DEF MirrorSound, InMirror
  <2>6. \A j \in InEdit : j # i => j \in InEdit'
    BY <2>2 DEF InEdit, i
  <2>7. ObjectsMatchRows'
    BY <1>0, <1>i, <2>1, <2>2, <2>3, <2>6 DEF ObjectsMatchRows, InMirror
  <2>8. PathsAreTextual'
    BY <1>i, <2>1, <2>3 DEF PathsAreTextual
  <2>. QED
    BY <1>0, <2>4, <2>5, <2>7, <2>8 DEF ObjectsInv
<1>4. ASSUME NEW a \in Admins, DeleteRow(a)
      PROVE  ObjectsInv'
  <2>. DEFINE i == editing[a].image
  <2>1. /\ i \in Images /\ images[i].state # "absent"
        /\ i \in objects => i \in orphaned
    BY <1>4, <1>i DEF DeleteRow, EditSound
  <2>2. /\ images' = [images EXCEPT ![i].state = "deleted"]
        /\ editing'[a].step = "idle" /\ editing'[a].image = NoImage
        /\ \A b \in Admins \ {a} : editing'[b] = editing[b]
        /\ UNCHANGED <<objects, mirror, orphaned, hollowed>>
    BY <1>4, <1>t, Rows DEF DeleteRow
  <2>3. /\ images'[i].state = "deleted" /\ images'[i].path = images[i].path
        /\ \A j \in Images \ {i} : images'[j] = images[j]
    <3>1. images[i] \in ImageRow
      BY <1>t, <2>1
    <3>. QED
      BY <1>t, <2>1, <2>2, <3>1 DEF ImageRow
  <2>. HIDE DEF i
  <2>4. \A b \in Admins : EditSound(b)'
    BY <1>0, <1>i, <2>1, <2>2, <2>3 DEF EditSound, InMirror
  <2>5. \A m \in Mirrors : MirrorSound(m)'
    BY <1>i, <1>t, <2>1, <2>2, <2>3 DEF MirrorSound
  <2>6. \A j \in InEdit : j # i => j \in InEdit'
    BY <2>2 DEF InEdit, i
  <2>7. ObjectsMatchRows'
    BY <1>0, <1>i, <2>1, <2>2, <2>3, <2>6 DEF ObjectsMatchRows, InMirror
  <2>8. PathsAreTextual'
    BY <1>i, <2>1, <2>3 DEF PathsAreTextual
  <2>. QED
    BY <1>0, <2>4, <2>5, <2>7, <2>8 DEF ObjectsInv
<1>5. ASSUME NEW a \in Admins, EditDies(a)
      PROVE  ObjectsInv'
  <2>. DEFINE i == editing[a].image
  <2>1. /\ editing'[a].step = "idle" /\ editing'[a].image = NoImage
        /\ \A b \in Admins \ {a} : editing'[b] = editing[b]
        /\ UNCHANGED <<images, objects, mirror>>
    BY <1>5, <1>t, Rows DEF EditDies
  <2>2. /\ orphaned \subseteq orphaned' /\ hollowed \subseteq hollowed'
        /\ editing[a].step = "insert" => i \in orphaned'
        /\ editing[a].step = "remove" => i \in hollowed'
        /\ editing[a].step \in {"insert", "remove"}
    BY <1>5 DEF EditDies
  <2>3. \A b \in Admins : EditSound(b)'
    BY <1>0, <1>i, <2>1, <2>2 DEF EditSound, InMirror
  <2>4. \A m \in Mirrors : MirrorSound(m)'
    BY <1>i, <2>1 DEF MirrorSound
  <2>5. /\ editing[a].step = "insert" => images[i].state = "absent"
        /\ editing[a].step = "remove" => (i \in objects => i \in orphaned)
    BY <1>i DEF EditSound
  <2>. HIDE DEF i
  <2>6. \A j \in InEdit : j # i => j \in InEdit'
    BY <2>1 DEF InEdit, i
  <2>7. ObjectsMatchRows'
    BY <1>i, <2>1, <2>2, <2>5, <2>6 DEF ObjectsMatchRows, InMirror
  <2>8. PathsAreTextual'
    BY <1>i, <2>1 DEF PathsAreTextual
  <2>. QED
    BY <1>0, <2>3, <2>4, <2>7, <2>8 DEF ObjectsInv
<1>6. ASSUME NEW m \in Mirrors, NEW files \in SUBSET Paths, MirrorReads(m, files)
      PROVE  ObjectsInv'
  <2>1. /\ MirrorChanges(m) /\ mirror'[m].step = "read"
        /\ mirror'[m].known = {} /\ mirror'[m].files = files
        /\ mirror'[m].todo = {} /\ mirror'[m].image = NoImage
        /\ mirror[m].step = "new"
    BY <1>0, <1>6, MirrorRead
  <2>2. UNCHANGED <<images, objects, editing, hollowed, orphaned>>
    BY <1>6 DEF MirrorReads, imagehistory
  <2>. QED
    BY <1>0, <1>m, <2>1, <2>2, MirrorAside
<1>7. ASSUME NEW m \in Mirrors, MirrorBegins(m)
      PROVE  ObjectsInv'
  <2>1. /\ MirrorChanges(m) /\ mirror[m].step = "read" /\ mirror'[m].step = "fetch"
        /\ mirror'[m].known \in Dictionaries /\ mirror'[m].files = mirror[m].files
        /\ mirror'[m].todo = mirror[m].files /\ mirror'[m].image = mirror[m].image
    BY <1>0, <1>7, MirrorBegun
  <2>2. UNCHANGED <<images, objects, editing, hollowed, orphaned>>
    BY <1>7 DEF MirrorBegins
  <2>3. \A i \in mirror'[m].known : images[i].state # "absent"
    BY <2>1 DEF Dictionaries, Mirrored, ActiveImages
  <2>. QED
    BY <1>0, <1>i, <1>m, <2>1, <2>2, <2>3, MirrorAside DEF MirrorSound
<1>8. ASSUME NEW m \in Mirrors, NEW p \in Paths, MirrorSkips(m, p)
      PROVE  ObjectsInv'
  <2>1. /\ MirrorChanges(m) /\ mirror[m].step = "fetch" /\ mirror'[m].step = "fetch"
        /\ mirror'[m].known = mirror[m].known
        /\ mirror'[m].files = mirror[m].files \ {p}
        /\ mirror'[m].todo = mirror[m].todo \ {p} /\ mirror'[m].image = mirror[m].image
    BY <1>0, <1>8, MirrorSkipped
  <2>2. UNCHANGED <<images, objects, editing, hollowed, orphaned>>
    BY <1>8 DEF MirrorSkips, imagehistory
  <2>. QED
    BY <1>0, <1>i, <1>m, <2>1, <2>2, MirrorAside DEF MirrorSound
<1>9. ASSUME NEW m \in Mirrors, MirrorFails(m)
      PROVE  ObjectsInv'
  <2>1. /\ MirrorChanges(m) /\ mirror'[m].step = "over" /\ mirror'[m].known = {}
        /\ mirror'[m].todo = {} /\ mirror'[m].image = NoImage
    BY <1>0, <1>9, MirrorOver
  <2>2. /\ UNCHANGED <<images, objects, editing, hollowed>> /\ orphaned \subseteq orphaned'
        /\ mirror[m].image \in Images => mirror[m].image \in orphaned'
    BY <1>9 DEF MirrorFails
  <2>. QED
    BY <1>0, <2>1, <2>2, MirrorAside
<1>10. ASSUME NEW m \in Mirrors, NEW p \in Paths, NEW i \in Images, MirrorUploads(m, p, i)
       PROVE  ObjectsInv'
  <2>1. /\ images[i].state = "absent" /\ i \notin objects /\ i \notin InEdit
        /\ i \notin InMirror /\ objects' = objects \cup {i} /\ p \in Textual
        /\ UNCHANGED <<images, editing, orphaned, hollowed>>
    BY <1>10 DEF MirrorUploads, Uploaded, Unmade, imagehistory
  <2>2. /\ \A n \in Mirrors \ {m} : mirror'[n] = mirror[n]
        /\ mirror'[m].step = "insert" /\ mirror'[m].image = i
        /\ mirror'[m].known = mirror[m].known /\ mirror'[m].files = mirror[m].files
        /\ mirror'[m].path = p /\ mirror'[m].todo = mirror[m].todo /\ p \in mirror[m].todo
        /\ mirror[m].step = "fetch"
    BY <1>0, <1>10, MirrorUploaded DEF MirrorChanges
  <2>3. InMirror' \subseteq InMirror \cup {i} /\ i \in InMirror'
        /\ \A j \in InMirror : j # NoImage => j \in InMirror'
    BY <1>i, <2>2 DEF InMirror, MirrorSound
  <2>4. \A b \in Admins : EditSound(b)'
    BY <1>0, <1>i, <2>1, <2>3 DEF EditSound, InEdit
  <2>5. \A n \in Mirrors : MirrorSound(n)'
    BY <1>0, <1>i, <2>1, <2>2 DEF MirrorSound, InMirror
  <2>6. ObjectsMatchRows'
    BY <1>0, <1>i, <2>1, <2>3 DEF ObjectsMatchRows, InEdit
  <2>7. PathsAreTextual'
    BY <1>i, <2>1 DEF PathsAreTextual
  <2>. QED
    BY <1>0, <2>4, <2>5, <2>6, <2>7 DEF ObjectsInv
<1>11. ASSUME NEW m \in Mirrors, MirrorInserts(m)
       PROVE  ObjectsInv'
  <2>. DEFINE i == mirror[m].image
              p == mirror[m].path
  <2>1. /\ i \in Images /\ images[i].state = "absent" /\ i \in objects
        /\ p \in Textual
        /\ \A n \in Mirrors : mirror[n].image = i => n = m
    BY <1>11, <1>i DEF MirrorInserts, MirrorSound
  <2>2. /\ images' = [images EXCEPT ![i] = Active(p)]
        /\ UNCHANGED <<objects, editing, orphaned, hollowed>>
    BY <1>11 DEF MirrorInserts, imagehistory
  <2>3. /\ \A n \in Mirrors \ {m} : mirror'[n] = mirror[n]
        /\ mirror'[m].step = "fetch" /\ mirror'[m].image = NoImage
        /\ mirror'[m].known = mirror[m].known /\ mirror'[m].files = mirror[m].files
        /\ mirror'[m].todo = mirror[m].todo \ {p}
    BY <1>0, <1>11, MirrorInserted DEF MirrorChanges
  <2>4. /\ images'[i].state = "active" /\ images'[i].path = p
        /\ \A j \in Images \ {i} : images'[j] = images[j]
    <3>1. p \in Paths \cup {NoPath}
      BY <2>1, ImagesAssumption
    <3>. QED
      BY <1>t, <2>1, <2>2, <3>1, ActiveRow
  <2>5. i \in InMirror /\ \A a \in Admins : editing[a].step = "insert" => editing[a].image # i
    BY <1>i DEF InMirror, EditSound
  <2>. HIDE DEF i, p
  <2>6. InMirror' \subseteq InMirror \cup {NoImage}
        /\ \A j \in InMirror : j # i => j \in InMirror'
    BY <2>3 DEF InMirror, i
  <2>7. \A b \in Admins : EditSound(b)'
    BY <1>0, <1>i, <2>1, <2>2, <2>4, <2>5, <2>6 DEF EditSound
  <2>8. \A n \in Mirrors : MirrorSound(n)'
    BY <1>0, <1>i, <1>t, <2>1, <2>2, <2>3, <2>4 DEF MirrorSound
  <2>9. ObjectsMatchRows'
    BY <1>0, <1>i, <2>1, <2>2, <2>4, <2>6 DEF ObjectsMatchRows, InEdit
  <2>10. PathsAreTextual'
    BY <1>i, <2>1, <2>4 DEF PathsAreTextual
  <2>. QED
    BY <1>0, <2>7, <2>8, <2>9, <2>10 DEF ObjectsInv
<1>12. ASSUME NEW m \in Mirrors, MirrorRetires(m)
       PROVE  ObjectsInv'
  <2>1. /\ MirrorChanges(m) /\ mirror'[m].step = "over" /\ mirror'[m].known = {}
        /\ mirror'[m].todo = {} /\ mirror'[m].image = NoImage
    BY <1>0, <1>12, MirrorOver
  <2>2. /\ UNCHANGED <<objects, editing, orphaned, hollowed>> /\ mirror[m].step = "fetch"
        /\ mirror[m].image \notin Images
    BY <1>m, <1>12 DEF MirrorRetires
  <2>3. CASE images' = images
    BY <1>0, <2>1, <2>2, <2>3, MirrorAside
  <2>4. CASE images' # images
    <3>1. /\ images' = [i \in Images |-> IF i \in mirror[m].known
                                         THEN Deactivated(images[i]) ELSE images[i]]
          /\ \A i \in mirror[m].known : images[i].state # "deleted"
      BY <1>12, <2>4 DEF MirrorRetires, Retired
    <3>2. \A i \in Images :
             /\ images'[i].path = images[i].path
             /\ IF i \in mirror[m].known
                THEN images[i].state \in {"active", "inactive"} /\ images'[i].state = "inactive"
                ELSE images'[i] = images[i]
      <4>1. \A i \in Images : images[i] \in ImageRow
        BY <1>t
      <4>2. \A i \in Images : /\ Deactivated(images[i]).state = "inactive"
                              /\ Deactivated(images[i]).path = images[i].path
        BY <4>1 DEF Deactivated, ImageRow
      <4>3. \A i \in mirror[m].known : images[i].state \in {"active", "inactive"}
        BY <1>i, <1>t, <3>1, <4>1 DEF MirrorSound, ImageRow
      <4>. QED
        BY <3>1, <4>2, <4>3
    <3>3. /\ \A n \in Mirrors \ {m} : mirror'[n] = mirror[n]
          /\ mirror[m].image = NoImage
      BY <1>i, <2>1, <2>2 DEF MirrorChanges, MirrorSound
    <3>4. InMirror' = InMirror
      BY <2>1, <3>3 DEF InMirror
    <3>5. \A b \in Admins : EditSound(b)'
      BY <1>0, <1>i, <2>2, <3>2, <3>4 DEF EditSound
    <3>6. \A n \in Mirrors : MirrorSound(n)'
      BY <1>0, <1>i, <1>t, <2>1, <2>2, <3>2, <3>3 DEF MirrorSound
    <3>7. ObjectsMatchRows'
      BY <1>i, <2>2, <3>2, <3>4 DEF ObjectsMatchRows, InEdit
    <3>8. PathsAreTextual'
      BY <1>i, <3>2 DEF PathsAreTextual
    <3>. QED
      BY <1>0, <3>5, <3>6, <3>7, <3>8 DEF ObjectsInv
  <2>. QED
    BY <2>3, <2>4
<1>13. CASE UNCHANGED imagevars
  <2>1. UNCHANGED <<images, objects, mirror, editing, orphaned, hollowed>>
    BY <1>13 DEF imagevars, imagehistory
  <2>2. \A b \in Admins : EditSound(b)'
    BY <1>i, <2>1 DEF EditSound, InMirror
  <2>3. (\A m \in Mirrors : MirrorSound(m)') /\ ObjectsMatchRows' /\ PathsAreTextual'
    BY <1>i, <2>1 DEF MirrorSound, ObjectsMatchRows, InMirror, InEdit, PathsAreTextual
  <2>. QED
    BY <1>0, <2>2, <2>3 DEF ObjectsInv
<1>. QED
  BY <1>1, <1>2, <1>3, <1>4, <1>5, <1>6, <1>7, <1>8, <1>9, <1>10, <1>11, <1>12, <1>13
  DEF ImagesNext, EditStep, MirrorStep

\* Whatever fails or overlaps, an image that nobody is at work on has its
\* object if it has a row, and a row if it has its object, except for those
\* a failure between the two steps is to blame for (src/api/images.py,
\* utils/gcs.py, _sync_images).
THEOREM ObjectsFollowRows == ImagesSpec => []ObjectsMatchRows
<1>1. ObjectsInv => ObjectsMatchRows
  BY DEF ObjectsInv
<1>. QED
  BY <1>1, ObjectsInvInit, ObjectsInvStep, PTL DEF ImagesSpec


(***************************************************************************)
(* The mirror                                                              *)
(***************************************************************************)

ShowsAll(is, files) == \A p \in files : \E i \in is : images[i].path = p

Alone == \A m, n \in Mirrors : Mirroring(m) /\ Mirroring(n) => m = n

\* As long as one mirror works at a time, the images of the last successful
\* one stay, next to those that show the files the present one is done with.
KeepInv ==
    mishaps \cap {"overlapped", "mirror_edited"} = {} =>
       /\ Alone
       /\ ShowsAll(Mirrored, mirrored)
       /\ \A m \in Mirrors : Mirroring(m) =>
             ShowsAll(Mirrored \ mirror[m].known, mirror[m].files \ mirror[m].todo)

\* The images show the files, each once.
Shows(is, files) ==
    /\ {images[i].path : i \in is} = files
    /\ \A i, j \in is : images[i].path = images[j].path => i = j

\* As long as nothing goes wrong, the dictionary of the mirror at work holds
\* the images of the last one, and the others show the files that are done.
ExactInv ==
    mishaps = {} =>
       /\ NamesDiffer(mirrored)
       /\ (\A m \in Mirrors : ~Mirroring(m)) => Shows(Mirrored, mirrored)
       /\ \A m \in Mirrors : Mirroring(m) =>
             /\ NamesDiffer(mirror[m].files \cap Textual)
             /\ mirror[m].known \subseteq Mirrored
             /\ Shows(Mirrored \ mirror[m].known, mirror[m].files \ mirror[m].todo)

LEMMA MirrorInvInit == ImagesInit => KeepInv /\ ExactInv
<1> SUFFICES ASSUME ImagesInit PROVE KeepInv /\ ExactInv
  OBVIOUS
<1>1. Mirrored = {} /\ mirrored = {} /\ \A m \in Mirrors : ~Mirroring(m)
  BY Rows DEF ImagesInit, Mirrored, ActiveImages, Mirroring
<1>. QED
  BY <1>1 DEF KeepInv, ExactInv, Alone, ShowsAll, NamesDiffer, Shows

\* When no two files of the last run have one name, the dictionary has an
\* entry for each of its images.
LEMMA DictionaryIsComplete ==
    ASSUME NamesDiffer(mirrored), Shows(Mirrored, mirrored), NEW K \in Dictionaries
    PROVE  K = Mirrored
<1>1. K \subseteq Mirrored
  BY DEF Dictionaries
<1>2. ASSUME NEW i \in Mirrored PROVE i \in K
  <2>1. PICK k \in K : {j \in K : Name(j) = Name(i)} = {k}
    BY <1>2 DEF Dictionaries
  <2>2. Name(k) = Name(i)
    BY <2>1
  <2>3. images[k].path = images[i].path
    BY <1>1, <2>2 DEF Name, NamesDiffer, Shows
  <2>. QED
    BY <1>1, <2>3 DEF Shows
<1>. QED
  BY <1>1, <1>2

\* A step that leaves the mirrored images and the mirrors at work alone.
LEMMA MirrorsAside ==
    ASSUME KeepInv, ExactInv, mirrored' = mirrored, mishaps \subseteq mishaps',
           Mirrored' = Mirrored, \A i \in Mirrored : images'[i].path = images[i].path,
           \A m \in Mirrors : /\ Mirroring(m)' <=> Mirroring(m)
                              /\ Mirroring(m) => /\ mirror'[m].known = mirror[m].known
                                                 /\ mirror'[m].files = mirror[m].files
                                                 /\ mirror'[m].todo = mirror[m].todo
    PROVE  KeepInv' /\ ExactInv'
<1>1. KeepInv'
  BY DEF KeepInv, Alone, ShowsAll
<1>2. ExactInv'
  BY DEF ExactInv, NamesDiffer, Shows
<1>. QED
  BY <1>1, <1>2

LEMMA MirrorInvStep ==
    ObjectsInv /\ KeepInv /\ ExactInv /\ [ImagesNext]_imagevars => KeepInv' /\ ExactInv'
<1> SUFFICES ASSUME ObjectsInv, KeepInv, ExactInv, [ImagesNext]_imagevars
             PROVE  KeepInv' /\ ExactInv'
  OBVIOUS
<1>t. /\ ImagesTypeOK /\ \A m \in Mirrors : MirrorSound(m)
      /\ \A a \in Admins : EditSound(a)
      /\ images \in [Images -> ImageRow] /\ NoPath \notin Paths
      /\ Mirrored \subseteq Images /\ PathsAreTextual /\ Textual \subseteq Paths
  BY ImagesAssumption DEF ObjectsInv, ImagesTypeOK, Mirrored, ActiveImages
<1>a. ASSUME UNCHANGED <<mirrored, mirror>>, mishaps \subseteq mishaps', Mirrored' = Mirrored,
             \A i \in Mirrored : images'[i].path = images[i].path
      PROVE  KeepInv' /\ ExactInv'
  BY <1>a, MirrorsAside DEF Mirroring
<1>1. ASSUME NEW a \in Admins, NEW i \in Images, UploadObject(a, i) \/ DeleteObject(a, i)
      PROVE  KeepInv' /\ ExactInv'
  BY <1>a, <1>1 DEF UploadObject, DeleteObject, Mirrored, ActiveImages, imagehistory
<1>2. ASSUME NEW a \in Admins, InsertUploaded(a)
      PROVE  KeepInv' /\ ExactInv'
  <2>1. PICK i \in Images : i = editing[a].image /\ images[i].state = "absent"
    BY <1>2, <1>t DEF InsertUploaded, EditSound
  <2>2. /\ images'[i].path = NoPath /\ \A j \in Images \ {i} : images'[j] = images[j]
        /\ UNCHANGED <<mirrored, mirror, mishaps>>
    BY <1>2, <1>t, <2>1, ActiveRow DEF InsertUploaded, imagehistory
  <2>3. Mirrored' = Mirrored
    BY <2>1, <2>2 DEF Mirrored, ActiveImages
  <2>4. \A j \in Mirrored : images'[j].path = images[j].path
    BY <1>t, <2>1, <2>2 DEF Mirrored, ActiveImages
  <2>. QED
    BY <1>a, <2>2, <2>3, <2>4
<1>3. ASSUME NEW a \in Admins, DeleteRow(a)
      PROVE  KeepInv' /\ ExactInv'
  <2>1. PICK i \in Images : i = editing[a].image
    BY <1>3, <1>t DEF DeleteRow, EditSound
  <2>2. /\ images'[i].state = "deleted" /\ \A j \in Images \ {i} : images'[j] = images[j]
        /\ UNCHANGED <<mirrored, mirror>> /\ mishaps \subseteq mishaps'
        /\ images[i].path # NoPath => "mirror_edited" \in mishaps'
    <3>1. images[i] \in ImageRow
      BY <1>t
    <3>. QED
      BY <1>3, <1>t, <2>1, <3>1 DEF DeleteRow, ImageRow
  <2>3. CASE images[i].path # NoPath
    BY <2>2, <2>3 DEF KeepInv, ExactInv
  <2>4. CASE images[i].path = NoPath
    <3>1. Mirrored' = Mirrored /\ i \notin Mirrored
      <4>1. images'[i].path = images[i].path
        BY <1>3, <1>t, <2>1 DEF DeleteRow, ImageRow
      <4>. QED
        BY <2>2, <2>4, <4>1 DEF Mirrored, ActiveImages
    <3>2. \A j \in Mirrored : images'[j].path = images[j].path
      BY <1>t, <2>2, <3>1
    <3>. QED
      BY <1>a, <2>2, <3>1, <3>2
  <2>. QED
    BY <2>3, <2>4
<1>4. ASSUME NEW a \in Admins, EditDies(a)
      PROVE  KeepInv' /\ ExactInv'
  BY <1>a, <1>4 DEF EditDies, Mirrored, ActiveImages
<1>5. ASSUME NEW m \in Mirrors, NEW files \in SUBSET Paths, MirrorReads(m, files)
      PROVE  KeepInv' /\ ExactInv'
  <2>1. /\ ~Mirroring(m) /\ ~Mirroring(m)'
        /\ \A n \in Mirrors \ {m} : mirror'[n] = mirror[n]
    BY <1>5, <1>t, MirrorRead DEF Mirroring, MirrorChanges
  <2>2. UNCHANGED <<images, mirrored, mishaps>>
    BY <1>5 DEF MirrorReads, imagehistory
  <2>. QED
    BY <2>1, <2>2, MirrorsAside DEF Mirroring, Mirrored, ActiveImages
<1>6. ASSUME NEW m \in Mirrors, MirrorBegins(m)
      PROVE  KeepInv' /\ ExactInv'
  <2>1. /\ mirror'[m].step = "fetch" /\ mirror[m].step = "read"
        /\ mirror'[m].known \in Dictionaries /\ mirror'[m].files = mirror[m].files
        /\ mirror'[m].todo = mirror[m].files
        /\ \A n \in Mirrors \ {m} : mirror'[n] = mirror[n]
    BY <1>6, <1>t, MirrorBegun DEF MirrorChanges
  <2>2. /\ UNCHANGED <<images, mirrored>> /\ mishaps \subseteq mishaps'
        /\ "same_name" \notin mishaps' => NamesDiffer(mirror[m].files \cap Textual)
        /\ "overlapped" \notin mishaps' => \A n \in Mirrors : ~Mirroring(n)
    BY <1>6 DEF MirrorBegins
  <2>3. Mirrored' = Mirrored /\ Dictionaries \subseteq SUBSET Mirrored
    BY <2>2 DEF Mirrored, ActiveImages, Dictionaries
  <2>4. ASSUME "overlapped" \notin mishaps'
        PROVE  \A n \in Mirrors : Mirroring(n)' <=> n = m
    BY <2>1, <2>2, <2>4 DEF Mirroring
  <2>5. (mirror[m].files \ mirror[m].todo)' = {}
    BY <2>1
  <2>6. KeepInv'
    <3> SUFFICES ASSUME mishaps' \cap {"overlapped", "mirror_edited"} = {}
                 PROVE  /\ Alone'
                        /\ ShowsAll(Mirrored, mirrored)'
                        /\ \A n \in Mirrors : Mirroring(n)' =>
                              ShowsAll(Mirrored \ mirror[n].known,
                                       mirror[n].files \ mirror[n].todo)'
      BY DEF KeepInv
    <3>1. ShowsAll(Mirrored, mirrored)
      BY <2>2 DEF KeepInv
    <3>2. \A n \in Mirrors : Mirroring(n)' <=> n = m
      BY <2>4
    <3>. QED
      BY <2>2, <2>3, <2>5, <3>1, <3>2 DEF Alone, ShowsAll
  <2>7. ExactInv'
    <3> SUFFICES ASSUME mishaps' = {}
                 PROVE  /\ NamesDiffer(mirrored)'
                        /\ ~Mirroring(m)' => Shows(Mirrored, mirrored)'
                        /\ NamesDiffer(mirror[m].files \cap Textual)'
                        /\ (mirror[m].known \subseteq Mirrored)'
                        /\ Shows(Mirrored \ mirror[m].known,
                                 mirror[m].files \ mirror[m].todo)'
      BY <2>4 DEF ExactInv
    <3>1. NamesDiffer(mirrored) /\ Shows(Mirrored, mirrored)
      BY <2>2 DEF ExactInv
    <3>2. mirror'[m].known = Mirrored
      BY <2>1, <3>1, DictionaryIsComplete
    <3>3. Mirrored' \ mirror'[m].known = {}
      BY <2>3, <3>2
    <3>4. Shows(Mirrored \ mirror[m].known, mirror[m].files \ mirror[m].todo)'
      BY <2>5, <3>3 DEF Shows
    <3>. QED
      BY <2>1, <2>2, <2>3, <2>4, <3>1, <3>2, <3>4 DEF NamesDiffer
  <2>. QED
    BY <2>6, <2>7
<1>7. ASSUME NEW m \in Mirrors, NEW p \in Paths, MirrorSkips(m, p)
      PROVE  KeepInv' /\ ExactInv'
  <2>1. /\ mirror[m].step = "fetch" /\ mirror'[m].step = "fetch"
        /\ mirror'[m].known = mirror[m].known
        /\ mirror'[m].files = mirror[m].files \ {p}
        /\ mirror'[m].todo = mirror[m].todo \ {p}
        /\ \A n \in Mirrors \ {m} : mirror'[n] = mirror[n]
        /\ UNCHANGED <<images, mirrored, mishaps>>
    BY <1>7, <1>t, MirrorSkipped DEF MirrorChanges, MirrorSkips, imagehistory
  <2>2. /\ Mirrored' = Mirrored /\ \A n \in Mirrors : Mirroring(n)' <=> Mirroring(n)
        /\ mirror[m].files \ mirror[m].todo = (mirror[m].files \ mirror[m].todo)'
           \/ p \in mirror[m].files \ mirror[m].todo
        /\ p \in mirror[m].todo
    BY <1>7, <2>1 DEF Mirrored, ActiveImages, Mirroring, MirrorSkips
  <2>3. (mirror[m].files \ mirror[m].todo)' = mirror[m].files \ mirror[m].todo
    BY <2>1, <2>2
  <2>4. (mirror[m].files \cap Textual)' \subseteq mirror[m].files \cap Textual
    BY <2>1
  <2>5. KeepInv'
    BY <2>1, <2>2, <2>3 DEF KeepInv, Alone, ShowsAll
  <2>6. ExactInv'
    BY <2>1, <2>2, <2>3, <2>4 DEF ExactInv, NamesDiffer, Shows
  <2>. QED
    BY <2>5, <2>6
<1>8. ASSUME NEW m \in Mirrors, NEW p \in Paths, NEW i \in Images, MirrorUploads(m, p, i)
      PROVE  KeepInv' /\ ExactInv'
  <2>1. /\ mirror[m].step = "fetch" /\ mirror'[m].step = "insert"
        /\ mirror'[m].known = mirror[m].known /\ mirror'[m].files = mirror[m].files
        /\ mirror'[m].todo = mirror[m].todo
        /\ \A n \in Mirrors \ {m} : mirror'[n] = mirror[n]
        /\ UNCHANGED <<images, mirrored, mishaps>>
    BY <1>8, <1>t, MirrorUploaded DEF MirrorChanges, MirrorUploads, imagehistory
  <2>. QED
    BY <2>1, MirrorsAside DEF Mirroring, Mirrored, ActiveImages
<1>9. ASSUME NEW m \in Mirrors, MirrorInserts(m)
      PROVE  KeepInv' /\ ExactInv'
  <2>1. PICK i \in Images, p \in mirror[m].todo :
           /\ i = mirror[m].image /\ p = mirror[m].path
           /\ images[i].state = "absent" /\ p \in Textual
    BY <1>9, <1>t DEF MirrorInserts, MirrorSound
  <2>2. p \in Paths /\ p # NoPath /\ p \in mirror[m].files
    BY <1>t, <2>1 DEF MirrorSound
  <2>3. /\ images'[i].state = "active" /\ images'[i].path = p
        /\ \A j \in Images \ {i} : images'[j] = images[j]
        /\ UNCHANGED <<mirrored, mishaps>>
    BY <1>9, <1>t, <2>1, <2>2, ActiveRow DEF MirrorInserts, imagehistory
  <2>4. /\ mirror'[m].step = "fetch" /\ mirror[m].step = "insert"
        /\ mirror'[m].known = mirror[m].known /\ mirror'[m].files = mirror[m].files
        /\ mirror'[m].todo = mirror[m].todo \ {p}
        /\ \A n \in Mirrors \ {m} : mirror'[n] = mirror[n]
    BY <1>9, <1>t, <2>1, MirrorInserted DEF MirrorChanges
  <2>5. /\ Mirrored' = Mirrored \cup {i} /\ i \notin Mirrored
        /\ \A n \in Mirrors : i \notin mirror[n].known /\ (Mirroring(n)' <=> Mirroring(n))
    BY <1>t, <2>1, <2>2, <2>3, <2>4 DEF Mirrored, ActiveImages, MirrorSound, Mirroring
  <2>6. \A j \in Mirrored : images'[j].path = images[j].path
    BY <1>t, <2>3, <2>5
  <2>7. /\ (Mirrored \ mirror[m].known)' = (Mirrored \ mirror[m].known) \cup {i}
        /\ (mirror[m].files \ mirror[m].todo)' = (mirror[m].files \ mirror[m].todo) \cup {p}
        /\ p \notin mirror[m].files \ mirror[m].todo
        /\ Mirroring(m)
    BY <2>1, <2>2, <2>4, <2>5 DEF Mirroring
  <2>8. KeepInv'
    <3> SUFFICES ASSUME mishaps' \cap {"overlapped", "mirror_edited"} = {}
                 PROVE  /\ Alone'
                        /\ ShowsAll(Mirrored, mirrored)'
                        /\ \A n \in Mirrors : Mirroring(n)' =>
                              ShowsAll(Mirrored \ mirror[n].known,
                                       mirror[n].files \ mirror[n].todo)'
      BY DEF KeepInv
    <3>1. /\ Alone /\ ShowsAll(Mirrored, mirrored)
          /\ ShowsAll(Mirrored \ mirror[m].known, mirror[m].files \ mirror[m].todo)
      BY <2>3, <2>7 DEF KeepInv
    <3>2. Alone' /\ \A n \in Mirrors : Mirroring(n)' => n = m
      BY <2>5, <2>7, <3>1 DEF Alone
    <3>3. ShowsAll(Mirrored, mirrored)'
      BY <2>3, <2>5, <2>6, <3>1 DEF ShowsAll
    <3>4. ShowsAll(Mirrored \ mirror[m].known, mirror[m].files \ mirror[m].todo)'
      BY <2>3, <2>6, <2>7, <3>1 DEF ShowsAll
    <3>. QED
      BY <3>2, <3>3, <3>4
  <2>9. ExactInv'
    <3> SUFFICES ASSUME mishaps' = {} PROVE ExactInv'
      BY DEF ExactInv
    <3>1. /\ NamesDiffer(mirrored) /\ NamesDiffer(mirror[m].files \cap Textual)
          /\ mirror[m].known \subseteq Mirrored
          /\ Shows(Mirrored \ mirror[m].known, mirror[m].files \ mirror[m].todo)
          /\ mishaps \cap {"overlapped", "mirror_edited"} = {}
      BY <2>3, <2>7 DEF ExactInv
    <3>2. \A n \in Mirrors : Mirroring(n)' => n = m
      BY <2>5, <2>7, <3>1 DEF KeepInv, Alone
    <3>3. Mirroring(m)'
      BY <2>5, <2>7
    <3>4. Shows(Mirrored \ mirror[m].known, mirror[m].files \ mirror[m].todo)'
      <4>1. \A j \in Mirrored \ mirror[m].known :
               images'[j].path = images[j].path
               /\ images[j].path \in mirror[m].files \ mirror[m].todo
        BY <2>6, <3>1 DEF Shows
      <4>2. {images'[j].path : j \in (Mirrored \ mirror[m].known) \cup {i}}
               = (mirror[m].files \ mirror[m].todo) \cup {p}
        BY <2>3, <3>1, <4>1 DEF Shows
      <4>3. \A j, k \in (Mirrored \ mirror[m].known) \cup {i} :
               images'[j].path = images'[k].path => j = k
        BY <2>3, <2>7, <3>1, <4>1 DEF Shows
      <4>. QED
        BY <2>7, <4>2, <4>3 DEF Shows
    <3>5. NamesDiffer(mirrored)' /\ NamesDiffer(mirror[m].files \cap Textual)'
      BY <2>3, <2>4, <3>1 DEF NamesDiffer
    <3>6. (mirror[m].known \subseteq Mirrored)'
      BY <2>4, <2>5, <3>1
    <3>. QED
      BY <3>2, <3>3, <3>4, <3>5, <3>6 DEF ExactInv
  <2>. QED
    BY <2>8, <2>9
<1>10. ASSUME NEW m \in Mirrors, MirrorRetires(m)
       PROVE  KeepInv' /\ ExactInv'
  <2>1. /\ mirror[m].step = "fetch" /\ mirror[m].todo = {} /\ mirror'[m].step = "over"
        /\ \A n \in Mirrors \ {m} : mirror'[n] = mirror[n]
        /\ Mirroring(m) /\ ~Mirroring(m)'
        /\ \A n \in Mirrors \ {m} : Mirroring(n)' <=> Mirroring(n)
    BY <1>10, <1>t, MirrorOver DEF MirrorRetires, MirrorChanges, Mirroring
  <2>2. CASE \E i \in mirror[m].known : images[i].state = "deleted"
    <3>1. /\ UNCHANGED <<images, mirrored>> /\ "mirror_failed" \in mishaps'
          /\ mishaps \subseteq mishaps'
      BY <1>10, <2>2 DEF MirrorRetires, Retired
    <3>2. Mirrored' = Mirrored
      BY <3>1 DEF Mirrored, ActiveImages
    <3>3. KeepInv'
      BY <2>1, <3>1, <3>2 DEF KeepInv, Alone, ShowsAll
    <3>. QED
      BY <3>1, <3>3 DEF ExactInv
  <2>3. CASE ~\E i \in mirror[m].known : images[i].state = "deleted"
    <3>1. /\ mishaps' = mishaps /\ mirrored' = mirror[m].files
          /\ images' = [i \in Images |-> IF i \in mirror[m].known
                                         THEN Deactivated(images[i]) ELSE images[i]]
      BY <1>10, <2>3 DEF MirrorRetires, Retired
    <3>2. /\ \A i \in Images \ mirror[m].known : images'[i] = images[i]
          /\ \A i \in mirror[m].known : images'[i].state = "inactive"
      <4>1. \A i \in Images : images[i] \in ImageRow
        BY <1>t
      <4>2. mirror[m].known \subseteq Images
        BY <1>t DEF ImagesTypeOK, Mirror
      <4>. QED
        BY <3>1, <4>1, <4>2 DEF Deactivated, ImageRow
    <3>3. Mirrored' = Mirrored \ mirror[m].known
      BY <3>2 DEF Mirrored, ActiveImages
    <3>4. KeepInv'
      <4> SUFFICES ASSUME mishaps \cap {"overlapped", "mirror_edited"} = {} PROVE KeepInv'
        BY <3>1 DEF KeepInv
      <4>1. /\ Alone /\ ShowsAll(Mirrored \ mirror[m].known, mirror[m].files)
        BY <2>1 DEF KeepInv
      <4>2. \A n \in Mirrors : ~Mirroring(n)'
        BY <2>1, <4>1 DEF Alone
      <4>3. ShowsAll(Mirrored, mirrored)'
        BY <1>t, <3>1, <3>2, <3>3, <4>1 DEF ShowsAll
      <4>. QED
        BY <4>2, <4>3 DEF KeepInv, Alone
    <3>5. ExactInv'
      <4> SUFFICES ASSUME mishaps = {} PROVE ExactInv'
        BY <3>1 DEF ExactInv
      <4>1. /\ Alone /\ NamesDiffer(mirror[m].files \cap Textual)
            /\ Shows(Mirrored \ mirror[m].known, mirror[m].files)
        BY <2>1 DEF KeepInv, ExactInv
      <4>2. \A n \in Mirrors : ~Mirroring(n)'
        BY <2>1, <4>1 DEF Alone
      <4>3. Shows(Mirrored, mirrored)'
        BY <1>t, <3>1, <3>2, <3>3, <4>1 DEF Shows
      <4>4. mirror[m].files \subseteq Textual
        BY <1>t, <4>1 DEF Shows, PathsAreTextual, Mirrored
      <4>5. NamesDiffer(mirrored)'
        BY <3>1, <4>1, <4>4 DEF NamesDiffer
      <4>. QED
        BY <4>2, <4>3, <4>5 DEF ExactInv
    <3>. QED
      BY <3>4, <3>5
  <2>. QED
    BY <2>2, <2>3
<1>11. ASSUME NEW m \in Mirrors, MirrorFails(m)
       PROVE  KeepInv' /\ ExactInv'
  <2>1. /\ ~Mirroring(m)' /\ \A n \in Mirrors \ {m} : mirror'[n] = mirror[n]
        /\ \A n \in Mirrors \ {m} : Mirroring(n)' <=> Mirroring(n)
    BY <1>11, <1>t, MirrorOver DEF MirrorChanges, Mirroring
  <2>2. /\ UNCHANGED <<images, mirrored>> /\ mishaps \subseteq mishaps'
        /\ Mirroring(m) => "mirror_failed" \in mishaps'
    BY <1>11 DEF MirrorFails
  <2>3. Mirrored' = Mirrored
    BY <2>2 DEF Mirrored, ActiveImages
  <2>4. CASE Mirroring(m)
    <3>1. KeepInv'
      BY <2>1, <2>2, <2>3 DEF KeepInv, Alone, ShowsAll
    <3>. QED
      BY <2>2, <2>4, <3>1 DEF ExactInv
  <2>5. CASE ~Mirroring(m)
    BY <2>1, <2>2, <2>3, <2>5, MirrorsAside
  <2>. QED
    BY <2>4, <2>5
<1>12. CASE UNCHANGED imagevars
  BY <1>a, <1>12 DEF imagevars, imagehistory, Mirrored, ActiveImages
<1>. QED
  BY <1>1, <1>2, <1>3, <1>4, <1>5, <1>6, <1>7, <1>8, <1>9, <1>10, <1>11, <1>12
  DEF ImagesNext, EditStep, MirrorStep

\* A mirror shows only files that are text; a run that fails takes nothing
\* away; and each run that goes well leaves the files it read and could
\* store, each once, although it never recognises one (_sync_images).
THEOREM MirrorShowsTree == ImagesSpec => []MirrorIsExact
<1>1. ObjectsInv /\ KeepInv /\ ExactInv => MirrorIsExact
  <2> SUFFICES ASSUME ObjectsInv, KeepInv, ExactInv PROVE MirrorIsExact
    OBVIOUS
  <2>1. \A i \in Images : images[i].path \in Textual \cup {NoPath}
    BY DEF ObjectsInv, PathsAreTextual
  <2>2. ASSUME mishaps \cap {"overlapped", "mirror_edited"} = {}
        PROVE  mirrored \subseteq Shown
    BY <2>2 DEF KeepInv, ShowsAll, Shown
  <2>3. ASSUME mishaps = {}, \A m \in Mirrors : ~Mirroring(m)
        PROVE  /\ Shown = mirrored
               /\ \A i, j \in Mirrored : images[i].path = images[j].path => i = j
    BY <2>3 DEF ExactInv, Shows, Shown
  <2>. QED
    BY <2>1, <2>2, <2>3 DEF MirrorIsExact
<1>. QED
  BY <1>1, ObjectsInvInit, ObjectsInvStep, MirrorInvInit, MirrorInvStep, PTL DEF ImagesSpec

(***************************************************************************)
(* The brand images meanwhile                                              *)
(***************************************************************************)

\* What the generations do leaves the images alone.
LEMMA MediaKeepsImages == [MediaNext]_mediavars => [ImagesNext]_imagevars
<1> SUFFICES ASSUME [MediaNext]_mediavars PROVE [ImagesNext]_imagevars
  OBVIOUS
<1>1. ASSUME NEW g \in Generations, NEW pdf \in BOOLEAN, NEW selected \in SUBSET Images,
             NEW last \in Images \cup {NoImage}, CreateGeneration(g, pdf, selected, last)
      PROVE  UNCHANGED imagevars
  BY <1>1 DEF CreateGeneration
<1>2. ASSUME NEW g \in Generations, GenerationStep(g)
      PROVE  UNCHANGED imagevars
  BY <1>2 DEF GenerationStep, ModelAnswers, RenderPdf, GenerationFails, UploadPdf,
              UploadUnanswered, FinishGeneration, Advance
<1>3. ASSUME NEW g \in Generations,
             \/ GenerationDies(g) \/ DeletePdf(g) \/ PdfNotDeleted(g)
             \/ DeleteGeneration(g) \/ DeleteDies(g)
      PROVE  UNCHANGED imagevars
  BY <1>3 DEF GenerationDies, DeletePdf, PdfNotDeleted, DeleteGeneration, DeleteDies
<1>. QED
  BY <1>1, <1>2, <1>3 DEF MediaNext, mediavars

LEMMA MediaObjects == ObjectsInv /\ [MediaNext]_mediavars => ObjectsInv'
BY MediaKeepsImages, ObjectsInvStep

LEMMA MediaInitObjects == MediaInit => ObjectsInv
BY ObjectsInvInit DEF MediaInit

(***************************************************************************)
(* Types                                                                   *)
(***************************************************************************)
LEMMA GenRows ==
    /\ NoGen \in GenRow /\ NoGen.status = "absent" /\ NoGen.selected = {} /\ ~NoGen.named
    /\ NoWork \in Work /\ NoWork.step = "idle"
BY DEF NoGen, GenRow, NoWork, Work

LEMMA GenerationTypeInit == MediaInit => GenerationTypeOK
BY GenRows DEF MediaInit, GenerationTypeOK

\* What a new request is.
LEMMA NewGeneration ==
    ASSUME GenerationTypeOK, NEW g \in Generations, NEW pdf \in BOOLEAN,
           NEW selected \in SUBSET Images, NEW last \in Images \cup {NoImage},
           CreateGeneration(g, pdf, selected, last)
    PROVE  /\ gens'[g] \in GenRow /\ gens'[g].status = "pending" /\ gens'[g].pdf = pdf
           /\ gens'[g].selected = selected /\ ~gens'[g].named
           /\ work'[g] \in Work /\ work'[g].step = "model"
           /\ gens' = [gens EXCEPT ![g] = gens'[g]] /\ work' = [work EXCEPT ![g] = work'[g]]
<1>1. PICK row : row = [NoGen EXCEPT !.status = "pending", !.pdf = pdf,
                                     !.selected = selected]
  OBVIOUS
<1>2. PICK w : w = [NoWork EXCEPT !.step = "model", !.last = last]
  OBVIOUS
<1>3. /\ row \in GenRow /\ row.status = "pending" /\ row.pdf = pdf
      /\ row.selected = selected /\ ~row.named
  BY <1>1 DEF NoGen, GenRow
<1>4. w \in Work /\ w.step = "model"
  BY <1>2 DEF NoWork, Work
<1>5. gens' = [gens EXCEPT ![g] = row] /\ work' = [work EXCEPT ![g] = w]
  BY <1>1, <1>2 DEF CreateGeneration
<1>. QED
  BY <1>3, <1>4, <1>5 DEF GenerationTypeOK

LEMMA GenerationTypeStep ==
    GenerationTypeOK /\ [MediaNext]_mediavars => GenerationTypeOK'
<1> SUFFICES ASSUME GenerationTypeOK, [MediaNext]_mediavars PROVE GenerationTypeOK'
  OBVIOUS
<1> USE DEF GenerationTypeOK
<1>m. ASSUME NEW g \in Generations,
             NEW what \in {"died", "deleted_while_working", "delete_died", "pdf_kept"},
             Mishap(g, what)
      PROVE  gmishaps' \in [Generations -> SUBSET {"died", "deleted_while_working",
                                                   "delete_died", "pdf_kept"}]
  BY <1>m DEF Mishap
<1>1. ASSUME NEW g \in Generations, NEW pdf \in BOOLEAN, NEW selected \in SUBSET Images,
             NEW last \in Images \cup {NoImage}, CreateGeneration(g, pdf, selected, last)
      PROVE  GenerationTypeOK'
  BY <1>1, NewGeneration DEF CreateGeneration
<1>2. ASSUME NEW g \in Generations, NEW w \in Work, Advance(g, w)
      PROVE  GenerationTypeOK'
  BY <1>2 DEF Advance
<1>3. ASSUME NEW g \in Generations, ModelAnswers(g)
      PROVE  GenerationTypeOK'
  <2>1. work[g] \in Work /\ StillActive(g) \subseteq Images
    BY DEF StillActive, GenRow
  <2>2. /\ [work[g] EXCEPT !.step = "render", !.use = StillActive(g)] \in Work
        /\ [work[g] EXCEPT !.step = "finish"] \in Work
    BY <2>1 DEF Work
  <2>. QED
    BY <1>2, <1>3, <2>2 DEF ModelAnswers
<1>4. ASSUME NEW g \in Generations, NEW lost \in SUBSET Images, RenderPdf(g, lost)
      PROVE  GenerationTypeOK'
  <2>1. [work[g] EXCEPT !.step = "upload", !.lost = lost,
                        !.shown = (work[g].use \cap objects) \ lost] \in Work
    BY DEF Work
  <2>. QED
    BY <1>2, <1>4, <2>1 DEF RenderPdf
<1>5. ASSUME NEW g \in Generations, GenerationFails(g)
      PROVE  GenerationTypeOK'
  <2>1. [work[g] EXCEPT !.step = "fail"] \in Work
    BY DEF Work
  <2>. QED
    BY <1>2, <1>5, <2>1 DEF GenerationFails
<1>6. ASSUME NEW g \in Generations, UploadPdf(g)
      PROVE  GenerationTypeOK'
  BY <1>6 DEF UploadPdf, Work
<1>7. ASSUME NEW g \in Generations, UploadUnanswered(g)
      PROVE  GenerationTypeOK'
  BY <1>7 DEF UploadUnanswered, Mishap, Work
<1>8. ASSUME NEW g \in Generations, FinishGeneration(g)
      PROVE  GenerationTypeOK'
  <2>1. gens[g] \in GenRow /\ work[g] \in Work
    OBVIOUS
  <2>2. Completed(gens[g], work[g]) \in GenRow
    BY <2>1 DEF Completed, GenRow, Work
  <2>3. Failed(gens[g]) \in GenRow
    BY <2>1 DEF Failed, GenRow
  <2>. QED
    BY <1>8, <2>2, <2>3, GenRows DEF FinishGeneration
<1>9. ASSUME NEW g \in Generations, GenerationDies(g)
      PROVE  GenerationTypeOK'
  BY <1>9, GenRows DEF GenerationDies, Mishap
<1>10. ASSUME NEW g \in Generations, DeletePdf(g)
       PROVE  GenerationTypeOK'
  <2>1. gmishaps' = gmishaps \/ Mishap(g, "deleted_while_working")
    BY <1>10 DEF DeletePdf
  <2>. QED
    BY <1>10, <1>m, <2>1 DEF DeletePdf
<1>11. ASSUME NEW g \in Generations, PdfNotDeleted(g) \/ DeleteDies(g)
       PROVE  GenerationTypeOK'
  <2>1. Mishap(g, "pdf_kept") \/ Mishap(g, "delete_died")
    BY <1>11 DEF PdfNotDeleted, DeleteDies
  <2>2. gmishaps' \in [Generations -> SUBSET {"died", "deleted_while_working",
                                             "delete_died", "pdf_kept"}]
    BY <1>m, <2>1
  <2>3. discard' \in [Generations -> BOOLEAN] /\ UNCHANGED <<gens, pdfs, work>>
    BY <1>11 DEF PdfNotDeleted, DeleteDies
  <2>. QED
    BY <2>2, <2>3
<1>12. ASSUME NEW g \in Generations, DeleteGeneration(g)
       PROVE  GenerationTypeOK'
  <2>1. gens[g] \in GenRow
    OBVIOUS
  <2>2. [gens[g] EXCEPT !.status = "deleted"] \in GenRow
    BY <2>1 DEF GenRow
  <2>. QED
    BY <1>12, <2>2 DEF DeleteGeneration
<1>13. CASE UNCHANGED genvars
  BY <1>13 DEF genvars
<1>. QED
  BY <1>1, <1>3, <1>4, <1>5, <1>6, <1>7, <1>8, <1>9, <1>10, <1>11, <1>12, <1>13
  DEF MediaNext, mediavars, GenerationStep

\* Requests, handlers and PDFs keep their shape (src/api/generate.py),
\* whatever dies or is deleted meanwhile.
THEOREM GenerationTypeCorrect == MediaSpec => []GenerationTypeOK
<1>. QED
  BY GenerationTypeInit, GenerationTypeStep, PTL DEF MediaSpec

(***************************************************************************)
(* Requests and their PDFs                                                 *)
(***************************************************************************)
PdfLeft(g) == gmishaps[g] \cap {"died", "deleted_while_working", "pdf_kept"} # {}

Wanted(g) == gens[g].status = "completed" /\ gens[g].pdf

\* Where the row, the handler that makes the PDF, the one that deletes it
\* and the bucket stand to each other.
PdfSound(g) ==
    /\ Working(g) => gens[g].status \in {"pending", "deleted"}
    /\ gens[g].status = "deleted" \/ discard[g]
          => (Working(g) => "deleted_while_working" \in gmishaps[g])
    /\ gens[g].status = "pending" => Working(g) \/ "died" \in gmishaps[g]
    /\ discard[g] => gens[g].status # "absent"
    /\ gens[g].status \in {"absent", "pending", "failed"} => ~gens[g].named
    /\ gens[g].status = "completed" => gens[g].named = gens[g].pdf
    /\ work[g].step \in {"render", "upload"} => gens[g].pdf
    /\ work[g].step = "finish" /\ gens[g].pdf => g \in pdfs
    /\ Wanted(g) /\ g \notin pdfs => discard[g] \/ "delete_died" \in gmishaps[g]
    /\ Wanted(g) /\ g \in pdfs /\ discard[g] => PdfLeft(g)
    /\ g \in pdfs /\ ~Wanted(g) => (work[g].step = "finish" /\ gens[g].pdf) \/ PdfLeft(g)

PdfInv == \A g \in Generations : PdfSound(g)

LEMMA PdfInvInit == MediaInit => PdfInv
<1> SUFFICES ASSUME MediaInit PROVE PdfInv
  OBVIOUS
<1>1. ASSUME NEW g \in Generations
      PROVE  /\ gens[g].status = "absent" /\ work[g].step = "idle" /\ ~discard[g]
             /\ pdfs = {} /\ ~gens[g].named
  BY GenRows DEF MediaInit
<1>. QED
  BY <1>1 DEF PdfInv, PdfSound, Working, Wanted

\* A step about one request leaves the others as they are.
LEMMA PdfOthers ==
    ASSUME PdfInv, NEW g \in Generations,
           \A h \in Generations \ {g} :
              /\ gens'[h] = gens[h] /\ work'[h] = work[h] /\ discard'[h] = discard[h]
              /\ gmishaps'[h] = gmishaps[h] /\ (h \in pdfs' <=> h \in pdfs),
           PdfSound(g)'
    PROVE  PdfInv'
BY DEF PdfInv, PdfSound, Working, Wanted, PdfLeft

LEMMA PdfInvStep ==
    GenerationTypeOK /\ PdfInv /\ [MediaNext]_mediavars => PdfInv'
<1> SUFFICES ASSUME GenerationTypeOK, PdfInv, [MediaNext]_mediavars PROVE PdfInv'
  OBVIOUS
<1>t. /\ gens \in [Generations -> GenRow] /\ work \in [Generations -> Work]
      /\ discard \in [Generations -> BOOLEAN] /\ pdfs \subseteq Generations
      /\ DOMAIN gmishaps = Generations
      /\ \A g \in Generations : PdfSound(g)
  BY DEF GenerationTypeOK, PdfInv
<1>s. \A g \in Generations :
         gens[g].status \in {"absent", "pending", "completed", "failed", "deleted"}
  BY <1>t DEF GenRow
<1>1. ASSUME NEW g \in Generations, NEW pdf \in BOOLEAN, NEW selected \in SUBSET Images,
             NEW last \in Images \cup {NoImage}, CreateGeneration(g, pdf, selected, last)
      PROVE  PdfInv'
  <2>1. /\ gens'[g].status = "pending" /\ work'[g].step = "model" /\ ~gens'[g].named
        /\ UNCHANGED <<pdfs, discard, gmishaps>> /\ gens[g].status = "absent"
        /\ \A h \in Generations \ {g} : gens'[h] = gens[h] /\ work'[h] = work[h]
    <3>1. /\ gens'[g].status = "pending" /\ work'[g].step = "model" /\ ~gens'[g].named
          /\ \A h \in Generations \ {g} : gens'[h] = gens[h] /\ work'[h] = work[h]
      BY <1>1, <1>t, NewGeneration
    <3>. QED
      BY <1>1, <3>1 DEF CreateGeneration
  <2>2. PdfSound(g)'
    BY <1>t, <2>1 DEF PdfSound, Working, Wanted, PdfLeft
  <2>. QED
    BY <2>1, <2>2, PdfOthers
<1>2. ASSUME NEW g \in Generations, ModelAnswers(g)
      PROVE  PdfInv'
  <2>1. /\ IF gens[g].pdf THEN work'[g].step = "render" ELSE work'[g].step = "finish"
        /\ \A h \in Generations \ {g} : work'[h] = work[h]
        /\ UNCHANGED <<gens, pdfs, discard, gmishaps>> /\ work[g].step = "model"
    BY <1>2, <1>t DEF ModelAnswers, Advance, Work
  <2>2. PdfSound(g)'
    BY <1>t, <2>1 DEF PdfSound, Working, Wanted, PdfLeft
  <2>. QED
    BY <2>1, <2>2, PdfOthers
<1>3. ASSUME NEW g \in Generations, NEW lost \in SUBSET Images, RenderPdf(g, lost)
      PROVE  PdfInv'
  <2>1. /\ work'[g].step = "upload" /\ work[g].step = "render"
        /\ \A h \in Generations \ {g} : work'[h] = work[h]
        /\ UNCHANGED <<gens, pdfs, discard, gmishaps>>
    BY <1>3, <1>t DEF RenderPdf, Advance, Work
  <2>2. PdfSound(g)'
    BY <1>t, <2>1 DEF PdfSound, Working, Wanted, PdfLeft
  <2>. QED
    BY <2>1, <2>2, PdfOthers
<1>4. ASSUME NEW g \in Generations, GenerationFails(g)
      PROVE  PdfInv'
  <2>1. /\ work'[g].step = "fail" /\ work[g].step \in {"model", "render", "upload"}
        /\ \A h \in Generations \ {g} : work'[h] = work[h]
        /\ UNCHANGED <<gens, pdfs, discard, gmishaps>>
    BY <1>4, <1>t DEF GenerationFails, Advance, Work
  <2>2. PdfSound(g)'
    BY <1>t, <2>1 DEF PdfSound, Working, Wanted, PdfLeft
  <2>. QED
    BY <2>1, <2>2, PdfOthers
<1>5. ASSUME NEW g \in Generations, UploadPdf(g)
      PROVE  PdfInv'
  <2>1. /\ work'[g].step = "finish" /\ work[g].step = "upload"
        /\ \A h \in Generations \ {g} : work'[h] = work[h]
        /\ UNCHANGED <<gens, discard, gmishaps>> /\ pdfs' = pdfs \cup {g}
    BY <1>5, <1>t DEF UploadPdf, Work
  <2>2. PdfSound(g)'
    BY <1>t, <2>1 DEF PdfSound, Working, Wanted, PdfLeft
  <2>. QED
    BY <2>1, <2>2, PdfOthers
<1>6. ASSUME NEW g \in Generations, UploadUnanswered(g)
      PROVE  PdfInv'
  <2>1. /\ work'[g].step = "fail" /\ work[g].step = "upload"
        /\ \A h \in Generations \ {g} : work'[h] = work[h] /\ gmishaps'[h] = gmishaps[h]
        /\ gmishaps'[g] = gmishaps[g] \cup {"pdf_kept"}
        /\ UNCHANGED <<gens, discard>> /\ pdfs' = pdfs \cup {g}
    BY <1>6, <1>t DEF UploadUnanswered, Mishap, Work
  <2>2. PdfSound(g)'
    BY <1>t, <2>1 DEF PdfSound, Working, Wanted, PdfLeft
  <2>. QED
    BY <2>1, <2>2, PdfOthers
<1>7. ASSUME NEW g \in Generations, FinishGeneration(g)
      PROVE  PdfInv'
  <2>1. /\ work'[g].step = "idle" /\ work[g].step \in {"finish", "fail"}
        /\ \A h \in Generations \ {g} : work'[h] = work[h] /\ gens'[h] = gens[h]
        /\ UNCHANGED <<pdfs, discard, gmishaps>>
    BY <1>7, <1>t, GenRows DEF FinishGeneration
  <2>2. gens[g].status \in {"pending", "deleted"}
    BY <1>t, <2>1 DEF PdfSound, Working
  <2>3. CASE gens[g].status = "deleted"
    <3>1. gens' = gens
      BY <1>7, <2>3 DEF FinishGeneration, Exists
    <3>2. PdfSound(g)'
      BY <1>t, <2>1, <2>3, <3>1 DEF PdfSound, Working, Wanted, PdfLeft
    <3>. QED
      BY <2>1, <3>2, PdfOthers
  <2>4. CASE gens[g].status = "pending" /\ work[g].step = "finish"
    <3>1. gens'[g] = Completed(gens[g], work[g])
      BY <1>7, <1>t, <2>4 DEF FinishGeneration, Exists
    <3>2. /\ gens'[g].status = "completed" /\ gens'[g].pdf = gens[g].pdf
          /\ gens'[g].named = gens[g].pdf
      BY <1>t, <3>1 DEF Completed, GenRow
    <3>3. PdfSound(g)'
      BY <1>t, <2>1, <2>4, <3>2 DEF PdfSound, Working, Wanted, PdfLeft
    <3>. QED
      BY <2>1, <3>3, PdfOthers
  <2>5. CASE gens[g].status = "pending" /\ work[g].step = "fail"
    <3>1. gens'[g] = Failed(gens[g])
      BY <1>7, <1>t, <2>5 DEF FinishGeneration, Exists
    <3>2. gens'[g].status = "failed" /\ gens'[g].named = gens[g].named
      BY <1>t, <3>1 DEF Failed, GenRow
    <3>3. PdfSound(g)'
      BY <1>t, <2>1, <2>5, <3>2 DEF PdfSound, Working, Wanted, PdfLeft
    <3>. QED
      BY <2>1, <3>3, PdfOthers
  <2>. QED
    BY <2>1, <2>2, <2>3, <2>4, <2>5
<1>8. ASSUME NEW g \in Generations, GenerationDies(g)
      PROVE  PdfInv'
  <2>1. /\ work'[g].step = "idle" /\ gmishaps'[g] = gmishaps[g] \cup {"died"}
        /\ \A h \in Generations \ {g} : work'[h] = work[h] /\ gmishaps'[h] = gmishaps[h]
        /\ UNCHANGED <<gens, pdfs, discard>>
    BY <1>8, <1>t, GenRows DEF GenerationDies, Mishap
  <2>2. PdfSound(g)'
    BY <1>t, <2>1 DEF PdfSound, Working, Wanted, PdfLeft
  <2>. QED
    BY <2>1, <2>2, PdfOthers
<1>9. ASSUME NEW g \in Generations, DeletePdf(g)
      PROVE  PdfInv'
  <2>1. /\ Exists(g) /\ ~discard[g]
        /\ pdfs' = IF gens[g].named THEN pdfs \ {g} ELSE pdfs
        /\ discard'[g] /\ \A h \in Generations \ {g} : discard'[h] = discard[h]
        /\ UNCHANGED <<gens, work>>
    BY <1>9, <1>t DEF DeletePdf
  <2>2. /\ gmishaps[g] \subseteq gmishaps'[g]
        /\ Working(g) => "deleted_while_working" \in gmishaps'[g]
        /\ \A h \in Generations \ {g} : gmishaps'[h] = gmishaps[h]
    BY <1>9, <1>t DEF DeletePdf, Mishap
  <2>3. PdfSound(g)'
    BY <1>t, <2>1, <2>2 DEF PdfSound, Working, Wanted, PdfLeft, Exists
  <2>. QED
    BY <2>1, <2>2, <2>3, PdfOthers
<1>10. ASSUME NEW g \in Generations, PdfNotDeleted(g)
       PROVE  PdfInv'
  <2>1. /\ Exists(g) /\ gens[g].named
        /\ gmishaps'[g] = gmishaps[g] \cup {"pdf_kept"}
        /\ discard'[g] /\ \A h \in Generations \ {g} : /\ discard'[h] = discard[h]
                                                       /\ gmishaps'[h] = gmishaps[h]
        /\ UNCHANGED <<gens, work, pdfs>>
    BY <1>10, <1>t DEF PdfNotDeleted, Mishap
  <2>2. PdfSound(g)'
    BY <1>t, <2>1 DEF PdfSound, Working, Wanted, PdfLeft, Exists
  <2>. QED
    BY <2>1, <2>2, PdfOthers
<1>11. ASSUME NEW g \in Generations, DeleteGeneration(g)
       PROVE  PdfInv'
  <2>1. /\ discard[g] /\ ~discard'[g] /\ UNCHANGED <<pdfs, work, gmishaps>>
        /\ \A h \in Generations \ {g} : discard'[h] = discard[h] /\ gens'[h] = gens[h]
    BY <1>11, <1>t DEF DeleteGeneration
  <2>2. gens'[g].status = "deleted" /\ gens'[g].pdf = gens[g].pdf
    BY <1>11, <1>t DEF DeleteGeneration, GenRow
  <2>3. PdfSound(g)'
    BY <1>t, <2>1, <2>2 DEF PdfSound, Working, Wanted, PdfLeft
  <2>. QED
    BY <2>1, <2>3, PdfOthers
<1>12. ASSUME NEW g \in Generations, DeleteDies(g)
       PROVE  PdfInv'
  <2>1. /\ discard[g] /\ ~discard'[g] /\ gmishaps'[g] = gmishaps[g] \cup {"delete_died"}
        /\ \A h \in Generations \ {g} : /\ discard'[h] = discard[h]
                                        /\ gmishaps'[h] = gmishaps[h]
        /\ UNCHANGED <<gens, work, pdfs>>
    BY <1>12, <1>t DEF DeleteDies, Mishap
  <2>2. PdfSound(g)'
    BY <1>t, <2>1 DEF PdfSound, Working, Wanted, PdfLeft
  <2>. QED
    BY <2>1, <2>2, PdfOthers
<1>13. CASE UNCHANGED genvars
  BY <1>13 DEF genvars, PdfInv, PdfSound, Working, Wanted, PdfLeft
<1>. QED
  BY <1>1, <1>2, <1>3, <1>4, <1>5, <1>6, <1>7, <1>8, <1>9, <1>10, <1>11, <1>12, <1>13
  DEF MediaNext, mediavars, GenerationStep

LEMMA PdfInvHolds == MediaSpec => []PdfInv
BY GenerationTypeInit, GenerationTypeStep, PdfInvInit, PdfInvStep, PTL DEF MediaSpec

\* There is a PDF for each completed PDF request, and none for any other, save
\* those that a handler that died, a deletion that overtook it or the object
\* store is to blame for (src/api/generate.py, utils/gcs.py).
THEOREM PdfFollowsRow == MediaSpec => []PdfMatchesRow
<1>1. PdfInv => PdfMatchesRow
  BY DEF PdfInv, PdfSound, PdfMatchesRow, Wanted, PdfLeft, Working
<1>. QED
  BY <1>1, PdfInvHolds, PTL

\* A request stays pending only while its handler works, unless that died
\* (src/api/generate.py).
THEOREM PendingHasHandler == MediaSpec => []PendingIsWorkedOn
<1>1. PdfInv => PendingIsWorkedOn
  BY DEF PdfInv, PdfSound, PendingIsWorkedOn
<1>. QED
  BY <1>1, PdfInvHolds, PTL

(***************************************************************************)
(* What a PDF shows                                                        *)
(***************************************************************************)

\* An image that may have lost its object.
Doubtful(i) == i \in InEdit \cup hollowed

\* An image that is active was so before, and one that may have lost its
\* object stays in doubt as long as it is active.
LEMMA ActiveWasActive ==
    ASSUME ObjectsInv, [ImagesNext]_imagevars, NEW i \in Images,
           images[i].state # "absent"
    PROVE  /\ images'[i].state # "absent"
           /\ i \in ActiveImages' => i \in ActiveImages /\ (Doubtful(i) => Doubtful(i)')
<1>t. /\ images \in [Images -> ImageRow] /\ editing \in [Admins -> Edit]
      /\ images[i] \in ImageRow /\ ImagesTypeOK
      /\ \A a \in Admins : EditSound(a)
      /\ \A m \in Mirrors : MirrorSound(m)
  BY DEF ObjectsInv, ImagesTypeOK
<1>1. ASSUME images'[i] = images[i], hollowed \subseteq hollowed',
             \A b \in Admins : editing[b].image = i => editing'[b].image = i
                                                       \/ i \in hollowed'
      PROVE  /\ images'[i].state # "absent"
             /\ i \in ActiveImages' => i \in ActiveImages /\ (Doubtful(i) => Doubtful(i)')
  BY <1>1 DEF ActiveImages, InEdit, Doubtful
<1>2. ASSUME NEW a \in Admins, NEW j \in Images, UploadObject(a, j) \/ DeleteObject(a, j)
      PROVE  /\ images' = images /\ hollowed' = hollowed
             /\ \A b \in Admins : editing[b].image = i => editing'[b].image = i
  <2>1. editing[a].step = "idle" /\ images' = images /\ hollowed' = hollowed
    BY <1>2 DEF UploadObject, DeleteObject, imagehistory
  <2>2. \A b \in Admins \ {a} : editing'[b] = editing[b]
    BY <1>2, <1>t DEF UploadObject, DeleteObject
  <2>3. editing[a].image # i
    BY <1>t, <2>1, ImagesAssumption DEF EditSound
  <2>. QED
    BY <2>1, <2>2, <2>3
<1>3. ASSUME NEW a \in Admins, InsertUploaded(a)
      PROVE  /\ images'[i] = images[i] /\ hollowed' = hollowed
             /\ \A b \in Admins : editing[b].image = i => editing'[b].image = i
  <2>1. editing[a].image # i
    BY <1>3, <1>t DEF InsertUploaded, EditSound
  <2>. QED
    BY <1>3, <1>t, <2>1 DEF InsertUploaded, imagehistory
<1>4. ASSUME NEW a \in Admins, DeleteRow(a)
      PROVE  /\ images'[i].state # "absent"
             /\ i \in ActiveImages' => i \in ActiveImages /\ (Doubtful(i) => Doubtful(i)')
  <2>1. /\ hollowed' = hollowed /\ \A b \in Admins \ {a} : editing'[b] = editing[b]
        /\ IF editing[a].image = i THEN images'[i].state = "deleted"
           ELSE images'[i] = images[i]
    BY <1>4, <1>t DEF DeleteRow, ImageRow
  <2>2. CASE editing[a].image = i
    BY <2>1, <2>2 DEF ActiveImages
  <2>3. CASE editing[a].image # i
    BY <1>1, <2>1, <2>3
  <2>. QED
    BY <2>2, <2>3
<1>5. ASSUME NEW a \in Admins, EditDies(a)
      PROVE  /\ images' = images /\ hollowed \subseteq hollowed'
             /\ \A b \in Admins : editing[b].image = i => editing'[b].image = i
                                                          \/ i \in hollowed'
  <2>1. /\ images' = images /\ hollowed \subseteq hollowed'
        /\ \A b \in Admins \ {a} : editing'[b] = editing[b]
        /\ editing[a].step = "insert" \/ editing[a].image \in hollowed'
    BY <1>5, <1>t DEF EditDies
  <2>2. editing[a].image = i => i \in hollowed'
    BY <1>t, <2>1 DEF EditSound
  <2>. QED
    BY <2>1, <2>2
<1>6. ASSUME NEW m \in Mirrors, MirrorInserts(m)
      PROVE  images'[i] = images[i] /\ hollowed' = hollowed /\ editing' = editing
  <2>1. mirror[m].image # i
    BY <1>6, <1>t DEF MirrorInserts, MirrorSound
  <2>. QED
    BY <1>6, <1>t, <2>1 DEF MirrorInserts, imagehistory
<1>7. ASSUME NEW m \in Mirrors, MirrorRetires(m)
      PROVE  /\ images'[i].state # "absent"
             /\ i \in ActiveImages' => i \in ActiveImages /\ (Doubtful(i) => Doubtful(i)')
  <2>1. images'[i] = images[i] \/ images'[i].state = "inactive"
    BY <1>7, <1>t DEF MirrorRetires, Retired, Deactivated, ImageRow
  <2>2. editing' = editing /\ hollowed' = hollowed
    BY <1>7 DEF MirrorRetires
  <2>. QED
    BY <2>1, <2>2 DEF ActiveImages, InEdit, Doubtful
<1>8. ASSUME NEW m \in Mirrors,
             \/ \E files \in SUBSET Paths : MirrorReads(m, files)
             \/ MirrorBegins(m) \/ MirrorFails(m)
             \/ \E p \in Paths : MirrorSkips(m, p) \/ \E j \in Images : MirrorUploads(m, p, j)
      PROVE  images' = images /\ editing' = editing /\ hollowed' = hollowed
  BY <1>8 DEF MirrorReads, MirrorBegins, MirrorFails, MirrorSkips, MirrorUploads,
              imagehistory
<1>9. CASE UNCHANGED imagevars
  BY <1>1, <1>9 DEF imagevars, imagehistory
<1>10. CASE \E a \in Admins : EditStep(a)
  BY <1>1, <1>2, <1>3, <1>4, <1>5, <1>10 DEF EditStep
<1>11. CASE \E m \in Mirrors : MirrorStep(m)
  BY <1>1, <1>6, <1>7, <1>8, <1>11 DEF MirrorStep
<1>. QED
  BY <1>9, <1>10, <1>11 DEF ImagesNext

\* The images that are wanted: those that are still active and have their
\* object.  From the lookup on, the handler has them; from the rendering on,
\* so does what it renders.
ShowsActive(g, shown, lost) ==
    \A i \in gens[g].selected :
       i \in ActiveImages => Doubtful(i) \/ i \in shown \cup lost

ShownSound(g) ==
    /\ \A i \in gens[g].selected : images[i].state # "absent"
    /\ gens[g].pdf \/ gens[g].selected = {}
    /\ work[g].step = "model" => work[g].shown = {}
    /\ work[g].step = "render" =>
          /\ gens[g].selected \cap ActiveImages \subseteq work[g].use
          /\ work[g].use \subseteq gens[g].selected
    /\ work[g].step \in {"upload", "finish"} =>
          /\ ShowsActive(g, work[g].shown, work[g].lost)
          /\ work[g].shown \subseteq gens[g].selected
    /\ gens[g].status = "completed" =>
          /\ ShowsActive(g, gens[g].shown, gens[g].lost)
          /\ gens[g].shown \subseteq gens[g].selected

ShownInv == \A g \in Generations : ShownSound(g)

LEMMA ShownInvInit == MediaInit => ShownInv
<1> SUFFICES ASSUME MediaInit PROVE ShownInv
  OBVIOUS
<1>1. ASSUME NEW g \in Generations
      PROVE  /\ gens[g].status = "absent" /\ gens[g].selected = {}
             /\ work[g].step = "idle"
  BY GenRows DEF MediaInit
<1>. QED
  BY <1>1 DEF ShownInv, ShownSound

\* A step about one request leaves the others as they are.
LEMMA ShownOthers ==
    ASSUME ShownInv, UNCHANGED imagevars, NEW g \in Generations,
           \A h \in Generations \ {g} : gens'[h] = gens[h] /\ work'[h] = work[h],
           ShownSound(g)'
    PROVE  ShownInv'
<1>1. ActiveImages' = ActiveImages /\ InEdit' = InEdit /\ hollowed' = hollowed
      /\ images' = images
  BY DEF imagevars, imagehistory, ActiveImages, InEdit
<1>. QED
  BY <1>1 DEF ShownInv, ShownSound, ShowsActive, Doubtful

LEMMA ShownInvStep ==
    GenerationTypeOK /\ ObjectsInv /\ ShownInv /\ [MediaNext]_mediavars => ShownInv'
<1> SUFFICES ASSUME GenerationTypeOK, ObjectsInv, ShownInv, [MediaNext]_mediavars
             PROVE  ShownInv'
  OBVIOUS
<1>t. /\ gens \in [Generations -> GenRow] /\ work \in [Generations -> Work]
      /\ \A g \in Generations : gens[g].selected \subseteq Images /\ ShownSound(g)
  BY DEF GenerationTypeOK, GenRow, ShownInv
<1>u. ASSUME UNCHANGED imagevars
      PROVE  /\ ActiveImages' = ActiveImages /\ InEdit' = InEdit /\ hollowed' = hollowed
             /\ images' = images
  BY <1>u DEF imagevars, imagehistory, ActiveImages, InEdit
<1>1. ASSUME NEW g \in Generations, NEW pdf \in BOOLEAN, NEW selected \in SUBSET Images,
             NEW last \in Images \cup {NoImage}, CreateGeneration(g, pdf, selected, last)
      PROVE  ShownInv'
  <2>1. /\ gens'[g].status = "pending" /\ work'[g].step = "model" /\ work'[g].shown = {}
        /\ gens'[g].selected = selected /\ gens'[g].pdf = pdf
        /\ selected \subseteq ActiveImages /\ (pdf \/ selected = {})
        /\ \A h \in Generations \ {g} : gens'[h] = gens[h] /\ work'[h] = work[h]
        /\ UNCHANGED imagevars
    <3>1. /\ gens'[g].status = "pending" /\ work'[g].step = "model"
          /\ gens'[g].selected = selected /\ gens'[g].pdf = pdf
          /\ \A h \in Generations \ {g} : gens'[h] = gens[h] /\ work'[h] = work[h]
      BY <1>1, <1>t, NewGeneration
    <3>2. work'[g].shown = {}
      BY <1>1, <1>t DEF CreateGeneration, NoWork, Work
    <3>. QED
      BY <1>1, <3>1, <3>2 DEF CreateGeneration
  <2>2. ShownSound(g)'
    BY <1>u, <2>1 DEF ShownSound, ActiveImages
  <2>. QED
    BY <2>1, <2>2, ShownOthers
<1>2. ASSUME NEW g \in Generations, ModelAnswers(g)
      PROVE  ShownInv'
  <2>1. /\ \A h \in Generations \ {g} : work'[h] = work[h]
        /\ gens' = gens /\ UNCHANGED imagevars /\ work[g].step = "model"
        /\ IF gens[g].pdf THEN work'[g].step = "render" /\ work'[g].use = StillActive(g)
           ELSE work'[g].step = "finish" /\ work'[g].shown = work[g].shown
    BY <1>2, <1>t DEF ModelAnswers, Advance, Work
  <2>2. ShownSound(g)'
    <3>1. CASE gens[g].pdf
      BY <1>t, <1>u, <2>1, <3>1 DEF ShownSound, ShowsActive, StillActive, Doubtful
    <3>2. CASE ~gens[g].pdf
      <4>1. gens[g].selected = {} /\ work'[g].shown = {} /\ work'[g].step = "finish"
        BY <1>t, <2>1, <3>2 DEF ShownSound
      <4>. QED
        BY <1>t, <1>u, <2>1, <4>1 DEF ShownSound, ShowsActive, Doubtful
    <3>. QED
      BY <3>1, <3>2
  <2>. QED
    BY <2>1, <2>2, ShownOthers
<1>3. ASSUME NEW g \in Generations, NEW lost \in SUBSET Images, RenderPdf(g, lost)
      PROVE  ShownInv'
  <2>1. /\ \A h \in Generations \ {g} : work'[h] = work[h]
        /\ gens' = gens /\ UNCHANGED imagevars /\ work[g].step = "render"
        /\ work'[g].step = "upload" /\ work'[g].lost = lost
        /\ work'[g].shown = (work[g].use \cap objects) \ lost
    BY <1>3, <1>t DEF RenderPdf, Advance, Work
  <2>2. \A i \in ActiveImages : ~Doubtful(i) => i \in objects
    <3>1. ASSUME NEW i \in ActiveImages, ~Doubtful(i) PROVE i \in objects
      <4>1. CASE i \in InMirror
        <5>1. PICK m \in Mirrors : mirror[m].image = i
          BY <4>1 DEF InMirror
        <5>. QED
          BY <5>1, ImagesAssumption DEF ObjectsInv, MirrorSound, ActiveImages
      <4>2. CASE i \notin InMirror
        BY <3>1, <4>2 DEF ObjectsInv, ObjectsMatchRows, ActiveImages, Doubtful
      <4>. QED
        BY <4>1, <4>2
    <3>. QED
      BY <3>1
  <2>3. ShowsActive(g, work'[g].shown, lost)
    BY <1>t, <2>1, <2>2 DEF ShownSound, ShowsActive
  <2>4. ShownSound(g)'
    BY <1>t, <1>u, <2>1, <2>3 DEF ShownSound, ShowsActive, Doubtful
  <2>. QED
    BY <2>1, <2>4, ShownOthers
<1>4. ASSUME NEW g \in Generations, GenerationFails(g) \/ UploadUnanswered(g)
      PROVE  ShownInv'
  <2>1. /\ \A h \in Generations \ {g} : work'[h] = work[h]
        /\ gens' = gens /\ UNCHANGED imagevars /\ work'[g].step = "fail"
    BY <1>4, <1>t DEF GenerationFails, UploadUnanswered, Advance, Work
  <2>2. ShownSound(g)'
    BY <1>t, <1>u, <2>1 DEF ShownSound, ShowsActive, Doubtful
  <2>. QED
    BY <2>1, <2>2, ShownOthers
<1>5. ASSUME NEW g \in Generations, UploadPdf(g)
      PROVE  ShownInv'
  <2>1. /\ \A h \in Generations \ {g} : work'[h] = work[h]
        /\ gens' = gens /\ UNCHANGED imagevars /\ work[g].step = "upload"
        /\ work'[g].step = "finish" /\ work'[g].shown = work[g].shown
        /\ work'[g].lost = work[g].lost
    BY <1>5, <1>t DEF UploadPdf, Work
  <2>2. ShownSound(g)'
    BY <1>t, <1>u, <2>1 DEF ShownSound, ShowsActive, Doubtful
  <2>. QED
    BY <2>1, <2>2, ShownOthers
<1>6. ASSUME NEW g \in Generations, FinishGeneration(g)
      PROVE  ShownInv'
  <2>1. /\ \A h \in Generations \ {g} : work'[h] = work[h] /\ gens'[h] = gens[h]
        /\ UNCHANGED imagevars /\ work[g].step \in {"finish", "fail"}
        /\ work'[g].step = "idle"
        /\ \/ gens'[g] = gens[g]
           \/ work[g].step = "finish" /\ gens'[g] = Completed(gens[g], work[g])
           \/ gens'[g] = Failed(gens[g])
    BY <1>6, <1>t, GenRows DEF FinishGeneration
  <2>2. /\ Completed(gens[g], work[g]).selected = gens[g].selected
        /\ Completed(gens[g], work[g]).pdf = gens[g].pdf
        /\ Completed(gens[g], work[g]).shown = work[g].shown
        /\ Completed(gens[g], work[g]).lost = work[g].lost
        /\ Failed(gens[g]).selected = gens[g].selected
        /\ Failed(gens[g]).pdf = gens[g].pdf
        /\ Failed(gens[g]).status = "failed"
    BY <1>t DEF Completed, Failed, GenRow
  <2>3. ShownSound(g)'
    <3>1. CASE gens'[g] = gens[g]
      BY <1>t, <1>u, <2>1, <3>1 DEF ShownSound, ShowsActive, Doubtful
    <3>2. CASE work[g].step = "finish" /\ gens'[g] = Completed(gens[g], work[g])
      BY <1>t, <1>u, <2>1, <2>2, <3>2 DEF ShownSound, ShowsActive, Doubtful
    <3>3. CASE gens'[g] = Failed(gens[g])
      BY <1>t, <1>u, <2>1, <2>2, <3>3 DEF ShownSound, ShowsActive, Doubtful
    <3>. QED
      BY <2>1, <3>1, <3>2, <3>3
  <2>. QED
    BY <2>1, <2>3, ShownOthers
<1>7. ASSUME NEW g \in Generations, GenerationDies(g)
      PROVE  ShownInv'
  <2>1. /\ \A h \in Generations \ {g} : work'[h] = work[h]
        /\ gens' = gens /\ UNCHANGED imagevars /\ work'[g].step = "idle"
    BY <1>7, <1>t, GenRows DEF GenerationDies
  <2>2. ShownSound(g)'
    BY <1>t, <1>u, <2>1 DEF ShownSound, ShowsActive, Doubtful
  <2>. QED
    BY <2>1, <2>2, ShownOthers
<1>8. ASSUME NEW g \in Generations, DeleteGeneration(g)
      PROVE  ShownInv'
  <2>1. /\ \A h \in Generations \ {g} : gens'[h] = gens[h]
        /\ work' = work /\ UNCHANGED imagevars
        /\ gens'[g].status = "deleted" /\ gens'[g].selected = gens[g].selected
        /\ gens'[g].pdf = gens[g].pdf
    BY <1>8, <1>t DEF DeleteGeneration, GenRow
  <2>2. ShownSound(g)'
    BY <1>t, <1>u, <2>1 DEF ShownSound, ShowsActive, Doubtful
  <2>. QED
    BY <2>1, <2>2, ShownOthers
<1>9. CASE /\ UNCHANGED <<gens, work>>
           /\ [ImagesNext]_imagevars
  <2> SUFFICES ASSUME NEW g \in Generations PROVE ShownSound(g)'
    BY DEF ShownInv
  <2>1. ShownSound(g)
    BY <1>t
  <2>2. \A i \in gens[g].selected :
           /\ images'[i].state # "absent"
           /\ i \in ActiveImages' => i \in ActiveImages /\ (Doubtful(i) => Doubtful(i)')
    BY <1>9, <1>t, <2>1, ActiveWasActive DEF ShownSound
  <2>. QED
    BY <1>9, <2>1, <2>2 DEF ShownSound, ShowsActive
<1>10. ASSUME NEW g \in Generations, DeletePdf(g) \/ PdfNotDeleted(g) \/ DeleteDies(g)
       PROVE  ShownInv'
  BY <1>9, <1>10 DEF DeletePdf, PdfNotDeleted, DeleteDies
<1>. QED
  BY <1>1, <1>2, <1>3, <1>4, <1>5, <1>6, <1>7, <1>8, <1>9, <1>10
  DEF MediaNext, mediavars, GenerationStep, genvars

\* A finished PDF shows every selected image that is still active, whatever
\* administrators and the mirror did while it was made, unless its download
\* failed or a deletion of it died half way (src/api/generate.py, images.py).
THEOREM PdfHasItsImages == MediaSpec => []PdfShowsSelection
<1>1. ShownInv => PdfShowsSelection
  BY DEF ShownInv, ShownSound, ShowsActive, Doubtful, PdfShowsSelection
<1>. QED
  BY <1>1, MediaInitObjects, MediaObjects, GenerationTypeInit, GenerationTypeStep,
     ShownInvInit, ShownInvStep, PTL
  DEF MediaSpec
=============================================================================
