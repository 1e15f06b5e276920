------------------------------ MODULE Previews ------------------------------
(***************************************************************************)
(* The preview of the file that is open in the editor: slides, which are   *)
(* read step by step, and documents, which are shown through an object     *)
(* URL; the full screen, and the button that shows the code instead.       *)
(*   frontend components/editor/file-preview/FilePreview.tsx,              *)
(*   PowerPointPreview.tsx, PDFPreview.tsx, PreviewHeader.tsx;             *)
(*   components/editor/editor-view/View.tsx, Header.tsx                    *)
(*                                                                         *)
(* A content is the number of its slides or pages.  The other previews are *)
(* functions of the content.                                               *)
(***************************************************************************)
EXTENDS Integers, FiniteSets

CONSTANTS
  Slides,      \* paths of presentations
  Pdfs,        \* paths of documents
  Others,      \* paths of files that are opened as code
  MaxContent,  \* bound: contents are 1 .. MaxContent
  MaxChanges   \* bound: times the preview is given another content

VARIABLES
  file,        \* the path and its content as the preview is given it
  showPreview, isFullscreen,
  slides,      \* PowerPointPreview: isLoading, whose slidesData, currentSlide
  loads,       \* loadSlides under way: its content, and isMounted
  pdf,         \* PDFPreview: blobUrl, pdfUrl and error
  urls,        \* object URLs that were made and not revoked
  changes      \* number of contents given

vars == <<file, showPreview, isFullscreen, slides, loads, pdf, urls, changes>>

Closed == "no file"
Blank == 0     \* nothing is loaded yet
Bad == -1      \* not what such a file holds
NoUrl == 0

\* previewRenderers.find
Component(path) == IF path \in Slides THEN "slides" ELSE IF path \in Pdfs THEN "pdf" ELSE "none"

\* The preview there is: it is made anew by another component, and by the
\* portal of the full screen.
Shown == IF showPreview THEN <<Component(file.path), isFullscreen>> ELSE <<"none", FALSE>>

NoSlides == [loading |-> FALSE, of |-> Blank, at |-> 0]
NoPdf == [blobUrl |-> NoUrl, pdfUrl |-> NoUrl, error |-> FALSE]

Init ==
  /\ file = [path |-> Closed, content |-> Blank]
  /\ showPreview = FALSE /\ isFullscreen = FALSE
  /\ slides = NoSlides /\ loads = {} /\ pdf = NoPdf
  /\ urls = {} /\ changes = 0

\* Mutant: the cleanup of the effect is forgotten.
Unmounted_Not(ls) == ls

\* isMounted = false
Unmounted(ls) == {[l EXCEPT !.isMounted = FALSE] : l \in ls}

\* The effect of PowerPointPreview, after its cleanup
SlidesEffect(content) ==
  IF content > 0
  THEN /\ slides' = [NoSlides EXCEPT !.loading = TRUE]
       /\ loads' = Unmounted(loads) \cup {[content |-> content, isMounted |-> TRUE]}
  ELSE slides' = NoSlides /\ loads' = Unmounted(loads)

\* Mutant: the error of the new content is not set.
PdfOf_NoError(old, url) ==
  [blobUrl |-> url, pdfUrl |-> IF url # NoUrl THEN url ELSE old.pdfUrl, error |-> FALSE]

\* The effect of PDFPreview: the URL of a content that has none stays in pdfUrl.
PdfOf(old, url) ==
  [blobUrl |-> url, pdfUrl |-> IF url # NoUrl THEN url ELSE old.pdfUrl,
   error |-> url = NoUrl]

\* The cleanup revokes the URL of before.
PdfEffect(content, old) ==
  LET url == IF content > 0 THEN changes' ELSE NoUrl
  IN /\ pdf' = PdfOf(old, url)
     /\ urls' = (urls \ {pdf.blobUrl}) \cup ({url} \ {NoUrl})

\* A render with new props: what is unmounted is cleaned up, the effects run in
\* a preview that is new or has got another content.
Rendered ==
  LET new == Shown' # Shown
      runs == new \/ file'.content # file.content
  IN /\ changes' = IF runs THEN changes + 1 ELSE changes
     /\ IF ~runs THEN UNCHANGED <<slides, loads, pdf, urls>>
        ELSE /\ IF Shown'[1] = "slides" THEN SlidesEffect(file'.content)
                ELSE slides' = NoSlides /\ loads' = Unmounted(loads)
             /\ IF Shown'[1] = "pdf" THEN PdfEffect(file'.content, IF new THEN NoPdf ELSE pdf)
                ELSE pdf' = NoPdf /\ urls' = urls \ {pdf.blobUrl}

\* Another file is opened, loaded or not: a preview shows, not in full screen.
Open(path, content) ==
  /\ changes < MaxChanges /\ path # file.path
  /\ file' = [path |-> path, content |-> content]
  /\ showPreview' = (Component(path) # "none")
  /\ isFullscreen' = FALSE
  /\ Rendered

\* The query of the file answers, after a fetch or because the agent wrote it.
Content(content) ==
  /\ changes < MaxChanges /\ file.path # Closed /\ content # file.content
  /\ file' = [file EXCEPT !.content = content]
  /\ UNCHANGED <<showPreview, isFullscreen>>
  /\ Rendered

\* The button of Header.tsx: a hidden preview is unmounted with its full screen.
handlePreviewToggle ==
  /\ changes < MaxChanges /\ Component(file.path) # "none"
  /\ showPreview' = ~showPreview
  /\ isFullscreen' = FALSE
  /\ UNCHANGED file
  /\ Rendered

\* The button of PreviewHeader.tsx; Escape only leaves the full screen.
handleToggleFullscreen ==
  /\ changes < MaxChanges /\ Shown[1] # "none"
  /\ isFullscreen' = ~isFullscreen
  /\ UNCHANGED <<file, showPreview>>
  /\ Rendered

\* Mutant: the end of any load is taken.
Taken_Always(load) == TRUE

Taken(load) == load.isMounted

\* loadSlides ends with the slides of its content, or fails.
SlidesLoaded(load) ==
  /\ loads' = loads \ {load}
  /\ slides' = IF Taken(load) THEN [loading |-> FALSE, of |-> load.content, at |-> 0] ELSE slides
  /\ UNCHANGED <<file, showPreview, isFullscreen, pdf, urls, changes>>

SlidesFail(load) ==
  /\ loads' = loads \ {load}
  /\ slides' = IF Taken(load) THEN [slides EXCEPT !.loading = FALSE, !.of = Blank] ELSE slides
  /\ UNCHANGED <<file, showPreview, isFullscreen, pdf, urls, changes>>

\* handlePreviousSlide, handleNextSlide and the dots, between the slides there are
GoTo(at) ==
  /\ Shown[1] = "slides" /\ ~slides.loading /\ at \in 0 .. slides.of - 1 /\ at # slides.at
  /\ slides' = [slides EXCEPT !.at = at]
  /\ UNCHANGED <<file, showPreview, isFullscreen, loads, pdf, urls, changes>>

Contents == Bad .. MaxContent

Next ==
  \/ \E path \in Slides \cup Pdfs \cup Others, content \in Contents : Open(path, content)
  \/ \E content \in Contents : Content(content)
  \/ handlePreviewToggle \/ handleToggleFullscreen
  \/ \E load \in loads : SlidesLoaded(load) \/ SlidesFail(load)
  \/ \E at \in 0 .. MaxContent - 1 : GoTo(at)

Spec == Init /\ [][Next]_vars

-----------------------------------------------------------------------------
(* Properties *)

TypeOK ==
  /\ file.path \in Slides \cup Pdfs \cup Others \cup {Closed} /\ file.content \in Contents
  /\ showPreview \in BOOLEAN /\ isFullscreen \in BOOLEAN
  /\ slides \in [loading : BOOLEAN, of : 0 .. MaxContent, at : 0 .. MaxContent - 1]
  /\ loads \subseteq [content : 1 .. MaxContent, isMounted : BOOLEAN]
  /\ changes \in 0 .. MaxChanges /\ urls \subseteq 1 .. MaxChanges

\* Slides that are shown are those of the file that is open and one of them is
\* current, though reading another file's may end later; and while the preview
\* says that it is loading, something is that will end it.
SlidesAreOfFile ==
  Shown[1] = "slides" =>
    /\ slides.loading => [content |-> file.content, isMounted |-> TRUE] \in loads
    /\ ~slides.loading /\ slides.of # Blank =>
         slides.of = file.content /\ slides.at \in 0 .. slides.of - 1

\* The URL a document is shown through can be loaded and is of its content; no
\* other URL is kept.
DocumentIsAlive ==
  /\ Shown[1] = "pdf" /\ ~pdf.error => pdf.pdfUrl \in urls /\ file.content > 0
  /\ urls \subseteq {pdf.blobUrl}
=============================================================================
