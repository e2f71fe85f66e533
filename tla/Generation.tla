----------------------------- MODULE Generation -----------------------------
(***************************************************************************)
(* Generated content: a request is stored as pending before the language   *)
(* model is asked, and completed or failed when the result is there.  A    *)
(* PDF shows brand images (module BrandImages, whose actions go on         *)
(* meanwhile) and is uploaded to their bucket.  (src/api/generate.py,      *)
(* utils/generator.py, utils/pdf_renderer.py)                              *)
(***************************************************************************)
EXTENDS BrandImages

CONSTANTS
    Generations   \* generation requests that can be made

VARIABLES
    gens,       \* generation_requests
    pdfs,       \* the generations whose PDF is in the bucket
    work,       \* how far the handler that made each one got
    discard,    \* ... and the one that deletes it
    gmishaps    \* history: what died, failed or collided about each request

genvars == <<gens, pdfs, work, discard, gmishaps>>
mediavars == <<imagevars, genvars>>

\* `named` is result_pdf_gcs_name IS NOT NULL; `shown` is what the PDF shows,
\* and `lost` is history: the images whose download failed.
GenRow == [status : {"absent", "pending", "completed", "failed", "deleted"},
           pdf : BOOLEAN, named : BOOLEAN, selected : SUBSET Images,
           shown : SUBSET Images, lost : SUBSET Images]
NoGen == [status |-> "absent", pdf |-> FALSE, named |-> FALSE, selected |-> {},
          shown |-> {}, lost |-> {}]

\* model   the knowledge base and the language model are asked
\* render  the images are known; their objects are fetched
\* upload  the PDF is rendered
\* finish  what remains is the commit as completed
\* fail    what remains is the commit as failed
Work == [step : {"idle", "model", "render", "upload", "finish", "fail"},
         last : Images \cup {NoImage},   \* the image selected last
         use : SUBSET Images,            \* the images to show
         shown : SUBSET Images,          \* ... those that were downloaded
         lost : SUBSET Images]           \* ... and those that failed to be
NoWork == [step |-> "idle", last |-> NoImage, use |-> {}, shown |-> {}, lost |-> {}]

Mishap(g, what) == gmishaps' = [gmishaps EXCEPT ![g] = @ \cup {what}]

Working(g) == work[g].step # "idle"
Exists(g) == gens[g].status \in {"pending", "completed", "failed"}

(***************************************************************************)
(* POST /generate                                                          *)
(***************************************************************************)
CreateGeneration(g, pdf, selected, last) ==
    /\ gens[g].status = "absent"
    /\ selected \subseteq ActiveImages
    /\ pdf \/ selected = {}
    /\ last \in IF selected = {} THEN {NoImage} ELSE selected
    /\ gens' = [gens EXCEPT ![g] = [NoGen EXCEPT !.status = "pending", !.pdf = pdf,
                                                 !.selected = selected]]
    /\ work' = [work EXCEPT ![g] = [NoWork EXCEPT !.step = "model", !.last = last]]
    /\ UNCHANGED <<pdfs, discard, gmishaps, imagevars>>

Advance(g, fields) ==
    /\ work' = [work EXCEPT ![g] = fields]
    /\ UNCHANGED <<gens, pdfs, discard, gmishaps, imagevars>>

\* The images are looked up again.  The one looked up last by the first
\* check is still held by the handler, so the session returns that object
\* and does not ask the database.
StillActive(g) == {i \in gens[g].selected : i = work[g].last \/ i \in ActiveImages}

ModelAnswers(g) ==
    /\ work[g].step = "model"
    /\ Advance(g, IF gens[g].pdf
                  THEN [work[g] EXCEPT !.step = "render", !.use = StillActive(g)]
                  ELSE [work[g] EXCEPT !.step = "finish"])

\* An image that cannot be downloaded, because its object is gone or because
\* the store fails, is left out.
RenderPdf(g, lost) ==
    /\ work[g].step = "render" /\ lost \subseteq work[g].use \cap objects
    /\ Advance(g, [work[g] EXCEPT !.step = "upload", !.lost = lost,
                                  !.shown = (work[g].use \cap objects) \ lost])

\* No relevant content in the knowledge base, or an error.
GenerationFails(g) ==
    /\ work[g].step \in {"model", "render", "upload"}
    /\ Advance(g, [work[g] EXCEPT !.step = "fail"])

\* The answer of the store is lost: the PDF is there, and the request fails.
UploadUnanswered(g) ==
    /\ work[g].step = "upload"
    /\ pdfs' = pdfs \cup {g}
    /\ work' = [work EXCEPT ![g].step = "fail"]
    /\ Mishap(g, "pdf_kept")
    /\ UNCHANGED <<gens, discard, imagevars>>

UploadPdf(g) ==
    /\ work[g].step = "upload"
    /\ pdfs' = pdfs \cup {g}
    /\ work' = [work EXCEPT ![g].step = "finish"]
    /\ UNCHANGED <<gens, discard, gmishaps, imagevars>>

\* Mutant: the name of the PDF is not stored.
Completed_Unnamed(row, w) == [row EXCEPT !.status = "completed", !.shown = w.shown,
                                         !.lost = w.lost]

Completed(row, w) == [row EXCEPT !.status = "completed", !.named = row.pdf,
                                 !.shown = w.shown, !.lost = w.lost]

\* Mutant: the request whose generation failed stays pending.
Failed_Pending(row) == row

Failed(row) == [row EXCEPT !.status = "failed"]

\* The UPDATE of a row that was deleted raises; so does the one that was to
\* record the failure.
FinishGeneration(g) ==
    LET w == work[g]
    IN /\ w.step \in {"finish", "fail"}
       /\ gens' = IF ~Exists(g) THEN gens
                  ELSE [gens EXCEPT ![g] = IF w.step = "finish" THEN Completed(@, w)
                                           ELSE Failed(@)]
       /\ work' = [work EXCEPT ![g] = NoWork]
       /\ UNCHANGED <<pdfs, discard, gmishaps, imagevars>>

\* The pod terminates while the request is pending, or the database fails,
\* which fails the commit of the failure too; nothing looks for it.
GenerationDies(g) ==
    /\ Working(g)
    /\ work' = [work EXCEPT ![g] = NoWork]
    /\ Mishap(g, "died")
    /\ UNCHANGED <<gens, pdfs, discard, imagevars>>

(***************************************************************************)
(* DELETE /generate/{id}                                                   *)
(***************************************************************************)

\* The PDF goes first, if the row that was read names one.
DeletePdf(g) ==
    /\ Exists(g) /\ ~discard[g]
    /\ pdfs' = IF gens[g].named THEN pdfs \ {g} ELSE pdfs
    /\ discard' = [discard EXCEPT ![g] = TRUE]
    /\ IF Working(g) THEN Mishap(g, "deleted_while_working") ELSE UNCHANGED gmishaps
    /\ UNCHANGED <<gens, work, imagevars>>

\* An error of the store is swallowed, and the row goes all the same.
PdfNotDeleted(g) ==
    /\ Exists(g) /\ ~discard[g] /\ gens[g].named
    /\ discard' = [discard EXCEPT ![g] = TRUE]
    /\ Mishap(g, "pdf_kept")
    /\ UNCHANGED <<gens, pdfs, work, imagevars>>

DeleteGeneration(g) ==
    /\ discard[g]
    /\ gens' = [gens EXCEPT ![g].status = "deleted"]
    /\ discard' = [discard EXCEPT ![g] = FALSE]
    /\ UNCHANGED <<pdfs, work, gmishaps, imagevars>>

DeleteDies(g) ==
    /\ discard[g]
    /\ discard' = [discard EXCEPT ![g] = FALSE]
    /\ Mishap(g, "delete_died")
    /\ UNCHANGED <<gens, pdfs, work, imagevars>>

(***************************************************************************)
(* Specification                                                           *)
(***************************************************************************)
MediaInit ==
    /\ ImagesInit
    /\ gens = [g \in Generations |-> NoGen]
    /\ pdfs = {}
    /\ work = [g \in Generations |-> NoWork]
    /\ discard = [g \in Generations |-> FALSE]
    /\ gmishaps = [g \in Generations |-> {}]

GenerationStep(g) ==
    \/ ModelAnswers(g) \/ \E lost \in SUBSET Images : RenderPdf(g, lost)
    \/ GenerationFails(g) \/ UploadPdf(g) \/ UploadUnanswered(g)
    \/ FinishGeneration(g)

MediaNext ==
    \/ ImagesNext /\ UNCHANGED genvars
    \/ \E g \in Generations :
          \/ \E pdf \in BOOLEAN, selected \in SUBSET Images, last \in Images \cup {NoImage} :
                CreateGeneration(g, pdf, selected, last)
          \/ GenerationStep(g) \/ GenerationDies(g)
          \/ DeletePdf(g) \/ PdfNotDeleted(g) \/ DeleteGeneration(g) \/ DeleteDies(g)

MediaSpec == MediaInit /\ [][MediaNext]_mediavars

(***************************************************************************)
(* Properties                                                              *)
(***************************************************************************)

\* Rows and handlers keep their shape.
GenerationTypeOK ==
    /\ gens \in [Generations -> GenRow]
    /\ pdfs \subseteq Generations
    /\ work \in [Generations -> Work]
    /\ discard \in [Generations -> BOOLEAN]
    /\ gmishaps \in [Generations -> SUBSET {"died", "deleted_while_working", "delete_died",
                                            "pdf_kept"}]

\* A completed PDF request has its PDF, whatever failed or died while it was
\* made, unless its deletion began; and a PDF that nobody is at work on is that
\* of a completed request, unless a handler died or was overtaken by the
\* deletion, or the object store failed.
PdfMatchesRow ==
    \A g \in Generations :
       ~discard[g] =>
          LET wanted == gens[g].status = "completed" /\ gens[g].pdf
          IN /\ wanted /\ g \notin pdfs => "delete_died" \in gmishaps[g]
             /\ g \in pdfs /\ ~wanted /\ ~Working(g) =>
                   gmishaps[g] \cap {"died", "deleted_while_working", "pdf_kept"} # {}

\* A finished PDF shows every image that was selected and is still active,
\* whatever was uploaded, deleted or mirrored while it was made, except
\* those whose download failed and those left without their object.
PdfShowsSelection ==
    \A g \in Generations :
       gens[g].status = "completed" =>
          /\ gens[g].selected \cap ActiveImages
                \subseteq gens[g].shown \cup gens[g].lost \cup InEdit \cup hollowed
          /\ gens[g].shown \subseteq gens[g].selected

\* A request that is stored as pending has a handler at work on it, unless the
\* handler died or the database failed: then it stays pending for ever.
PendingIsWorkedOn ==
    \A g \in Generations :
       gens[g].status = "pending" => Working(g) \/ "died" \in gmishaps[g]
=============================================================================
