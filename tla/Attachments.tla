---------------------------- MODULE Attachments ----------------------------
(***************************************************************************)
(* The files attached to the message box: the upload dialog, dropped       *)
(* files, the editor of an image and the previews of all of them; the      *)
(* images of a message; and drawing on an image.                           *)
(*   frontend hooks/useFileHandling.ts, useInputFileOperations.ts,         *)
(*   useDragAndDrop.ts; components/ui/FileUploadDialog.tsx,                *)
(*   FilePreviewList.tsx, DrawingModal.tsx, AttachmentViewer.tsx;          *)
(*   message-input/Input.tsx                                               *)
(*                                                                         *)
(* A change of the files and the effects it has (the previews are made     *)
(* anew, the old ones revoked) are one step: the browser runs them before  *)
(* the next event of the user.                                             *)
(***************************************************************************)
EXTENDS Naturals, Sequences, FiniteSets, SequencesExt

CONSTANTS
  MaxFiles,    \* bound: files chosen, dropped or drawn
  MaxChanges   \* bound: changes of a list of files

VARIABLES
  attached,    \* attachedFiles of the box: sequence of [id, kind]
  urls,        \* previewUrls of the box; NoUrl where the file is no image
  dialog,      \* the upload dialog: [open, files, urls]
  drawing,     \* editingImageIndex and showDrawingModal: [index, file], index 0 if closed
  saves,       \* drawings being converted: set of [files, index]
  drag,        \* the pointer with files, the events not yet handled, counter and isDragging
  alive,       \* object URLs created and not revoked
  made,        \* number of files and of changes there were
  cleared,     \* (history) files that were sent or dropped with the message
  swept        \* (history) the box was cleared with the editor open or a drawing converted

vars == <<attached, urls, dialog, drawing, saves, drag, alive, made, cleared, swept>>

NoUrl == 0
Kinds == {"image", "pdf", "other"}
isSupportedUploadedFile(f) == f.kind # "other"
NotDrawing == [index |-> 0, file |-> 0]
NotDragging == [at |-> "outside", events |-> <<>>, counter |-> 0, isDragging |-> FALSE]

Init ==
  /\ attached = <<>> /\ urls = <<>>
  /\ dialog = [open |-> FALSE, files |-> <<>>, urls |-> <<>>]
  /\ drawing = NotDrawing /\ saves = {} /\ drag = NotDragging
  /\ alive = {} /\ made = [files |-> 0, changes |-> 0]
  /\ cleared = {} /\ swept = FALSE

\* The URLs of the n-th list there was
previewUrls(files, n) ==
  [i \in DOMAIN files |-> IF files[i].kind = "image" THEN n * (MaxFiles + 1) + i ELSE NoUrl]

Urls(us) == Range(us) \ {NoUrl}

\* Mutant: the previews of the list before are not revoked.
Revoke_Nothing(us) == alive

\* The cleanup of the effect of previewUrls
Revoke(us) == alive \ Urls(us)

\* A new list of files: the previews are all made anew, the old ones revoked.
SetAttached(files) ==
  LET n == made.changes + 1
  IN
  /\ n <= MaxChanges
  /\ made' = [made EXCEPT !.changes = n]
  /\ attached' = files
  /\ urls' = previewUrls(files, n)
  /\ alive' = Revoke(urls) \cup Urls(urls')

SetDialogFiles(files, open) ==
  LET n == made.changes + 1
      us == previewUrls(files, n)
  IN
  /\ n <= MaxChanges
  /\ dialog' = [open |-> open, files |-> files, urls |-> us]
  /\ alive' = Revoke(dialog.urls) \cup Urls(us)

New(kind) == [id |-> made.files + 1, kind |-> kind]

\* The image editor is on the screen.
DrawingShown ==
  /\ drawing.index \in 1 .. Len(urls)
  /\ urls[drawing.index] # NoUrl

\* Nothing lies over the box.
Reachable == ~dialog.open /\ ~DrawingShown

-----------------------------------------------------------------------------
(* The upload dialog keeps its files when it is cancelled. *)

OpenDialog ==
  /\ Reachable
  /\ dialog' = [dialog EXCEPT !.open = TRUE]
  /\ drag' = [drag EXCEPT !.counter = 0, !.isDragging = FALSE]   \* resetDragState
  /\ drag.at = "outside" /\ drag.events = <<>>
  /\ UNCHANGED <<attached, urls, drawing, saves, alive, made, cleared, swept>>

CloseDialog ==
  /\ dialog.open
  /\ dialog' = [dialog EXCEPT !.open = FALSE]
  /\ UNCHANGED <<attached, urls, drawing, saves, drag, alive, made, cleared, swept>>

\* addFiles
DialogAdd(kind) ==
  /\ dialog.open /\ made.files < MaxFiles
  /\ IF isSupportedUploadedFile(New(kind))
     THEN /\ SetDialogFiles(Append(dialog.files, New(kind)), TRUE)
          /\ made' = [files |-> made.files + 1, changes |-> made.changes + 1]
     ELSE made' = [made EXCEPT !.files = @ + 1] /\ UNCHANGED <<dialog, alive>>
  /\ UNCHANGED <<attached, urls, drawing, saves, drag, cleared, swept>>

DialogRemove(i) ==
  /\ dialog.open
  /\ SetDialogFiles(RemoveAt(dialog.files, i), TRUE)
  /\ made' = [made EXCEPT !.changes = @ + 1]
  /\ UNCHANGED <<attached, urls, drawing, saves, drag, cleared, swept>>

\* Mutant: the dialog still holds the files when it is opened again.
Upload_KeepsFiles ==
  LET n == made.changes + 1
  IN
  /\ dialog.open /\ dialog.files # <<>> /\ n <= MaxChanges
  /\ made' = [made EXCEPT !.changes = n]
  /\ attached' = dialog.files
  /\ urls' = previewUrls(dialog.files, n)
  /\ dialog' = [dialog EXCEPT !.open = FALSE]
  /\ alive' = (alive \ Urls(urls)) \cup Urls(urls')
  /\ UNCHANGED <<drawing, saves, drag, cleared, swept>>

\* handleUpload and handleFileSelect: what is chosen replaces what was attached.
Upload ==
  LET n == made.changes + 1
  IN
  /\ dialog.open /\ dialog.files # <<>> /\ n <= MaxChanges
  /\ made' = [made EXCEPT !.changes = n]
  /\ attached' = dialog.files
  /\ urls' = previewUrls(dialog.files, n)
  /\ dialog' = [open |-> FALSE, files |-> <<>>, urls |-> <<>>]
  /\ alive' = (Revoke(dialog.urls) \ Urls(urls)) \cup Urls(urls')
  /\ UNCHANGED <<drawing, saves, drag, cleared, swept>>

-----------------------------------------------------------------------------
(* The files of the box *)

RemoveFile(i) ==
  /\ Reachable
  /\ SetAttached(RemoveAt(attached, i))
  /\ UNCHANGED <<dialog, drawing, saves, drag, cleared, swept>>

\* The message was sent, stopped, or another chat opened (module Composer).
Clear ==
  /\ attached # <<>>
  /\ SetAttached(<<>>)
  /\ cleared' = cleared \cup {f.id : f \in Range(attached)}
  /\ swept' = (swept \/ drawing # NotDrawing \/ saves # {})
  /\ UNCHANGED <<dialog, drawing, saves, drag>>

\* handleDrawClick; only an image has the button.
DrawClick(i) ==
  /\ Reachable /\ attached[i].kind = "image"
  /\ drawing' = [index |-> i, file |-> attached[i].id]
  /\ UNCHANGED <<attached, urls, dialog, saves, drag, alive, made, cleared, swept>>

CloseDrawing ==
  /\ DrawingShown
  /\ drawing' = NotDrawing
  /\ UNCHANGED <<attached, urls, dialog, saves, drag, alive, made, cleared, swept>>

\* handleDrawingSave up to its await; it keeps the files it saw.
SaveDrawing ==
  /\ DrawingShown
  /\ saves' = saves \cup {[files |-> attached, index |-> drawing.index]}
  /\ UNCHANGED <<attached, urls, dialog, drawing, drag, alive, made, cleared, swept>>

\* Mutant: the editor stays open when the drawing is saved.
SaveReturns_StaysOpen(s) ==
  /\ made.files < MaxFiles /\ made.changes < MaxChanges
  /\ saves' = saves \ {s}
  /\ attached' = [s.files EXCEPT ![s.index] = New("image")]
  /\ urls' = previewUrls(attached', made.changes + 1)
  /\ alive' = Revoke(urls) \cup Urls(urls')
  /\ made' = [files |-> made.files + 1, changes |-> made.changes + 1]
  /\ UNCHANGED <<dialog, drawing, drag, cleared, swept>>

\* The drawing takes the place of the file that was edited.
SaveReturns(s) ==
  /\ made.files < MaxFiles /\ made.changes < MaxChanges
  /\ saves' = saves \ {s}
  /\ attached' = [s.files EXCEPT ![s.index] = New("image")]
  /\ urls' = previewUrls(attached', made.changes + 1)
  /\ alive' = Revoke(urls) \cup Urls(urls')
  /\ made' = [files |-> made.files + 1, changes |-> made.changes + 1]
  /\ drawing' = NotDrawing
  /\ UNCHANGED <<dialog, drag, cleared, swept>>

SaveFails(s) ==
  /\ saves' = saves \ {s}
  /\ drawing' = NotDrawing
  /\ UNCHANGED <<attached, urls, dialog, drag, alive, made, cleared, swept>>

-----------------------------------------------------------------------------
(* Dragging.  The pointer enters an element before it leaves the one it was
   over, and every event bubbles to the box. *)

Moves == [outside |-> {"box", "child"}, box |-> {"outside", "child"}, child |-> {"box", "outside"}]

\* The events of a move (external: the browser)
Events(from, to) ==
  (IF to = "outside" THEN <<>> ELSE <<"enter">>) \o (IF from = "outside" THEN <<>> ELSE <<"leave">>)

MovePointer(to) ==
  /\ Reachable /\ drag.events = <<>> /\ to \in Moves[drag.at]
  /\ drag' = [drag EXCEPT !.at = to, !.events = Events(drag.at, to)]
  /\ UNCHANGED <<attached, urls, dialog, drawing, saves, alive, made, cleared, swept>>

\* Mutant: leaving a part of the box is leaving the box.
HandleDrag_NoCounter ==
  /\ drag.events # <<>>
  /\ drag' = [drag EXCEPT !.events = Tail(@), !.isDragging = Head(drag.events) = "enter"]
  /\ UNCHANGED <<attached, urls, dialog, drawing, saves, alive, made, cleared, swept>>

\* handleDragIn, handleDragOut
HandleDrag ==
  LET in == Head(drag.events) = "enter"
      n == IF in THEN drag.counter + 1 ELSE drag.counter - 1
  IN
  /\ drag.events # <<>>
  /\ drag' = [drag EXCEPT !.events = Tail(@), !.counter = n,
                !.isDragging = IF in THEN TRUE ELSE IF n = 0 THEN FALSE ELSE @]
  /\ UNCHANGED <<attached, urls, dialog, drawing, saves, alive, made, cleared, swept>>

\* handleDrop, handleDroppedFiles; a drop is not followed by a leave.
Drop(kind) ==
  /\ drag.at # "outside" /\ drag.events = <<>> /\ made.files < MaxFiles
  /\ drag' = NotDragging
  /\ IF isSupportedUploadedFile(New(kind))
     THEN /\ made.changes < MaxChanges
          /\ attached' = Append(attached, New(kind))
          /\ urls' = previewUrls(attached', made.changes + 1)
          /\ alive' = Revoke(urls) \cup Urls(urls')
          /\ made' = [files |-> made.files + 1, changes |-> made.changes + 1]
     ELSE made' = [made EXCEPT !.files = @ + 1] /\ UNCHANGED <<attached, urls, alive>>
  /\ UNCHANGED <<dialog, drawing, saves, cleared, swept>>

\* The dialog of an upload: files are added to it and removed, and taken over
FileUploadDialog ==
  \/ CloseDialog \/ Upload
  \/ \E kind \in Kinds : DialogAdd(kind)
  \/ \E i \in DOMAIN dialog.files : DialogRemove(i)

Next ==
  \/ OpenDialog \/ FileUploadDialog \/ Clear
  \/ CloseDrawing \/ SaveDrawing \/ HandleDrag
  \/ \E kind \in Kinds : Drop(kind)
  \/ \E i \in DOMAIN attached : RemoveFile(i) \/ DrawClick(i)
  \/ \E s \in saves : SaveReturns(s) \/ SaveFails(s)
  \/ \E to \in {"outside", "box", "child"} : MovePointer(to)

Spec == Init /\ [][Next]_vars

-----------------------------------------------------------------------------
(* Properties *)

TypeOK ==
  /\ \A f \in Range(attached) : f.id \in 1 .. made.files /\ isSupportedUploadedFile(f)
  /\ Len(urls) = Len(attached) /\ Len(dialog.urls) = Len(dialog.files)
  /\ drawing.index \in 0 .. MaxFiles /\ drag.counter \in 0 .. 2
  /\ cleared \subseteq 1 .. made.files

\* Every preview on the screen can still be loaded, and no other object URL is
\* kept: each list that is replaced gives its URLs back.
PreviewsAlive == alive = Urls(urls) \cup Urls(dialog.urls)

\* The image editor shows the file whose button was pressed.  The exception is
\* a box that was cleared with the editor open: the editor opens by itself on
\* whatever is attached next.
EditsWhatWasOpened ==
  (DrawingShown /\ ~swept) => attached[drawing.index].id = drawing.file

\* Files that went with a message do not come back to the box, unless a drawing
\* was being converted: it puts back the files it had seen.
ClearedStaysGone ==
  swept \/ \A f \in Range(attached) : f.id \notin cleared

\* The box looks ready for a drop exactly while files are over it.
DragSettles ==
  drag.events = <<>> => drag.isDragging = (drag.at # "outside")

-----------------------------------------------------------------------------
(* The images of a message: fetched one after the other with the token,    *)
(* and shown from object URLs.  The effect runs again whenever the message *)
(* gets a new array of attachments, which every answer of the server       *)
(* brings, so two loops may be under way, and the second takes on what the *)
(* first has not started.                                                  *)

CONSTANTS
  Images,      \* attachments of the message that are images
  MaxRenders,  \* bound: renders with a new array
  MaxErrors    \* bound: fetches that fail

VARIABLES
  attachments, \* sequence of images of the message
  mounted,
  loadedIds,   \* loadedIdsRef
  states,      \* imageStates: image -> [isLoading, error, src]; src 0 is no URL
  loops,       \* calls of loadImages under way: set of [id, todo, busy]
  counts,      \* numbers of renders, errors and URLs there were
  imageUrls,   \* object URLs created and not revoked
  stray        \* (history) URLs a second fetch replaced, or that came after the unmount

imageVars == <<attachments, mounted, loadedIds, states, loops, counts, imageUrls, stray>>

Unknown == [isLoading |-> TRUE, error |-> FALSE, src |-> NoUrl]
Failed == [isLoading |-> FALSE, error |-> TRUE, src |-> NoUrl]
Shown(url) == [isLoading |-> FALSE, error |-> FALSE, src |-> url]

ImagesInit ==
  /\ attachments = <<>> /\ mounted = TRUE
  /\ loadedIds = {} /\ states = [i \in Images |-> Unknown]
  /\ loops = {} /\ counts = [renders |-> 0, errors |-> 0, urls |-> 0]
  /\ imageUrls = {} /\ stray = {}

newAttachments(images) == SelectSeq(images, LAMBDA i : i \notin loadedIds)

\* The effect of [attachments]
Render(images) ==
  /\ mounted /\ counts.renders < MaxRenders
  /\ counts' = [counts EXCEPT !.renders = @ + 1]
  /\ attachments' = images
  /\ loops' = IF newAttachments(images) = <<>> THEN loops
              ELSE loops \cup {[id |-> counts.renders, todo |-> newAttachments(images),
                               busy |-> FALSE]}
  /\ UNCHANGED <<mounted, loadedIds, states, imageUrls, stray>>

\* The head of the loop: the request goes out.
StartFetch(l) ==
  LET i == Head(l.todo)
  IN
  /\ ~l.busy
  /\ loops' = (loops \ {l}) \cup {[l EXCEPT !.busy = TRUE]}
  /\ loadedIds' = loadedIds \cup {i}
  /\ states' = [states EXCEPT ![i] = IF mounted THEN Unknown ELSE @]
  /\ stray' = stray \cup ({states[i].src} \ {NoUrl})
  /\ UNCHANGED <<attachments, mounted, counts, imageUrls>>

\* The loop goes on with the next image.
Rest(l) == IF Len(l.todo) = 1 THEN {} ELSE {[l EXCEPT !.busy = FALSE, !.todo = Tail(@)]}

FetchReturns(l) ==
  LET i == Head(l.todo)
      url == counts.urls + 1
  IN
  /\ l.busy
  /\ loops' = (loops \ {l}) \cup Rest(l)
  /\ counts' = [counts EXCEPT !.urls = url]
  /\ imageUrls' = imageUrls \cup {url}
  /\ states' = [states EXCEPT ![i] = IF mounted THEN Shown(url) ELSE @]
  /\ stray' = stray \cup (IF mounted THEN {states[i].src} \ {NoUrl} ELSE {url})
  /\ UNCHANGED <<attachments, mounted, loadedIds>>

\* Mutant: a failed image ends the loop.
FetchFails_Stops(l) ==
  LET i == Head(l.todo)
  IN
  /\ l.busy /\ counts.errors < MaxErrors
  /\ loops' = loops \ {l}
  /\ counts' = [counts EXCEPT !.errors = @ + 1]
  /\ loadedIds' = loadedIds \ {i}
  /\ states' = [states EXCEPT ![i] = IF mounted THEN Failed ELSE @]
  /\ stray' = stray \cup ({states[i].src} \ {NoUrl})
  /\ UNCHANGED <<attachments, mounted, imageUrls>>

\* The catch: the next array tries the image again.
FetchFails(l) ==
  LET i == Head(l.todo)
  IN
  /\ l.busy /\ counts.errors < MaxErrors
  /\ loops' = (loops \ {l}) \cup Rest(l)
  /\ counts' = [counts EXCEPT !.errors = @ + 1]
  /\ loadedIds' = loadedIds \ {i}
  /\ states' = [states EXCEPT ![i] = IF mounted THEN Failed ELSE @]
  /\ stray' = stray \cup ({states[i].src} \ {NoUrl})
  /\ UNCHANGED <<attachments, mounted, imageUrls>>

\* Mutant: the URLs are kept when the message goes.
Unmount_Keeps ==
  /\ mounted
  /\ mounted' = FALSE
  /\ states' = [i \in Images |-> Unknown]
  /\ loadedIds' = {}
  /\ UNCHANGED <<attachments, loops, counts, imageUrls, stray>>

\* The cleanup revokes the URLs that are shown; the loops go on.
Unmount ==
  /\ mounted
  /\ mounted' = FALSE
  /\ imageUrls' = imageUrls \ {states[i].src : i \in Images}
  /\ states' = [i \in Images |-> Unknown]
  /\ loadedIds' = {}
  /\ UNCHANGED <<attachments, loops, counts, stray>>

Arrays == UNION {{SetToSeq(S)} : S \in SUBSET Images}

ImagesNext ==
  \/ \E images \in Arrays : Render(images)
  \/ \E l \in loops : StartFetch(l) \/ FetchReturns(l) \/ FetchFails(l)
  \/ Unmount


InHand(i) == \E l \in loops : i \in Range(l.todo)

ImagesTypeOK ==
  /\ attachments \in Arrays /\ loadedIds \subseteq Images /\ stray \subseteq 1 .. counts.urls
  /\ \A i \in Images : states[i].src \in 0 .. counts.urls
  /\ \A l \in loops : l.todo # <<>> /\ Range(l.todo) \subseteq Images
  /\ \A l, k \in loops : l.id = k.id => l = k

\* No image is left with the pulse of a loading one: an image of the message
\* that is loading is in the hands of a loop.
NoEndlessPulse ==
  mounted => \A i \in Range(attachments) : states[i].isLoading => InHand(i)

\* Every image on the screen can be loaded, and the URLs of those that are not
\* are revoked, also when the message goes; the exceptions are an image that a
\* second loop fetches again, and what arrives after the message is gone.
NoUrlLost == imageUrls = ({states[i].src : i \in Images} \ {NoUrl}) \cup stray

-----------------------------------------------------------------------------
(* Drawing on an attached image, a state machine of its own: the image     *)
(* loads while its dialog is open, the pointer leaves and comes back, pens *)
(* change between strokes.  A point is a number; a line goes from one to   *)
(* another with a pen, which stands for colour and brush size.             *)

CONSTANTS
  Points, Pens,
  Outside,     \* the pointer is not over the canvas
  MaxUrls,     \* bound: urls of the image
  MaxLines,    \* bound: lines on the canvas
  MaxTouches   \* bound: choices of a pen, resets and cancelled touches

VARIABLES
  imageUrl,    \* number of the url
  pictures,      \* urls whose image is being loaded
  emptied,     \* urls whose image lost its source and has yet to report it
  imageRef,    \* the image to go back to, or 0
  canvas,      \* the image below, 0 if none, and the lines on it
  canvasReady,
  pen, isDrawing, lastPos,
  pointer,     \* where it is, and whether it was put down on the canvas since it came
  meant,       \* the lines drawn since the image was loaded or put back (history)
  saved,       \* what was given to onSave, with what was meant, once it was
  odd,         \* the url changed, or a touch was cancelled (history)
  changes

image == <<imageUrl, pictures, emptied, imageRef>>

drawingVars == <<image, canvas, canvasReady, pen, isDrawing, lastPos, pointer, meant, saved, odd,
          changes>>

Canvas(u) == [image |-> u, lines |-> <<>>]
Unsaved == [image |-> 0, lines |-> <<>>, meant |-> <<>>, url |-> 0]
ModalOpen == saved = Unsaved

DrawingInit ==
  /\ imageUrl = 1 /\ pictures = {1} /\ emptied = {} /\ imageRef = 0
  /\ canvas = Canvas(0) /\ canvasReady = FALSE
  /\ pen \in Pens /\ isDrawing = FALSE /\ lastPos = Outside
  /\ pointer = [at |-> Outside, down |-> FALSE]
  /\ meant = <<>> /\ saved = Unsaved /\ odd = FALSE /\ changes = 0

(* The image *)

onload(u) ==
  /\ ModalOpen /\ u \in pictures
  /\ pictures' = pictures \ {u}
  /\ canvas' = Canvas(u) /\ imageRef' = u /\ canvasReady' = TRUE
  /\ meant' = <<>>
  /\ UNCHANGED <<imageUrl, emptied, pen, isDrawing, lastPos, pointer, saved, odd,
                 changes>>

onerror(u) ==
  /\ ModalOpen /\ u \in pictures \cup emptied
  /\ pictures' = pictures \ {u} /\ emptied' = emptied \ {u}
  /\ canvasReady' = FALSE
  /\ UNCHANGED <<imageUrl, imageRef, canvas, pen, isDrawing, lastPos, pointer, meant,
                 saved, odd, changes>>

\* The files change below the dialog, and with them the previews.  The image held is
\* emptied, which its onerror hears; one that is still being loaded goes on.
NewUrl ==
  /\ ModalOpen /\ imageUrl < MaxUrls
  /\ imageUrl' = imageUrl + 1
  /\ pictures' = pictures \cup {imageUrl'}
  /\ emptied' = emptied \cup ({imageRef} \ {0})
  /\ imageRef' = 0 /\ odd' = TRUE
  /\ UNCHANGED <<canvas, canvasReady, pen, isDrawing, lastPos, pointer, meant, saved,
                 changes>>

(* The pointer; until the image is there `Loading image...' lies over the canvas. *)

startDrawing(p) ==
  /\ ModalOpen /\ canvasReady /\ pointer.at = p
  /\ isDrawing' = TRUE /\ lastPos' = p
  /\ pointer' = [pointer EXCEPT !.down = TRUE]
  /\ UNCHANGED <<image, canvas, canvasReady, pen, meant, saved, odd, changes>>

\* Mutant: a line always begins where the first one did.
LineTo_FromStart(p) ==
  IF isDrawing
  THEN /\ canvas' = [canvas EXCEPT !.lines = Append(@, <<lastPos, p, pen>>)]
       /\ UNCHANGED lastPos
  ELSE UNCHANGED <<canvas, lastPos>>

LineTo(p) ==
  IF isDrawing
  THEN /\ canvas' = [canvas EXCEPT !.lines = Append(@, <<lastPos, p, pen>>)]
       /\ lastPos' = p
  ELSE UNCHANGED <<canvas, lastPos>>

draw(p) ==
  /\ ModalOpen /\ canvasReady /\ p # pointer.at
  /\ Len(canvas.lines) < MaxLines
  /\ LineTo(p)
  /\ meant' = IF pointer.down THEN Append(meant, <<pointer.at, p, pen>>) ELSE meant
  /\ pointer' = [pointer EXCEPT !.at = p]
  /\ UNCHANGED <<image, canvasReady, pen, isDrawing, saved, odd, changes>>

\* Mutant: only the button that goes up ends the drawing.
LeaveStops_Not == UNCHANGED isDrawing

\* onMouseLeave
LeaveStops == isDrawing' = FALSE

LeaveCanvas ==
  /\ ModalOpen /\ pointer.at # Outside
  /\ pointer' = [at |-> Outside, down |-> FALSE]
  /\ LeaveStops
  /\ UNCHANGED <<image, canvas, canvasReady, pen, lastPos, meant, saved, odd, changes>>

stopDrawing ==
  /\ ModalOpen /\ pointer.at # Outside
  /\ isDrawing' = FALSE
  /\ pointer' = [pointer EXCEPT !.down = FALSE]
  /\ UNCHANGED <<image, canvas, canvasReady, pen, lastPos, meant, saved, odd, changes>>

\* The browser takes a touch for a gesture of its own; nothing listens for that.
TouchCancelled ==
  /\ ModalOpen /\ pointer.down /\ changes < MaxTouches
  /\ changes' = changes + 1
  /\ pointer' = [pointer EXCEPT !.down = FALSE]
  /\ odd' = TRUE
  /\ UNCHANGED <<image, canvas, canvasReady, pen, isDrawing, lastPos, meant, saved>>

(* The buttons *)

Choose(p) ==
  /\ ModalOpen /\ pointer.at = Outside /\ p # pen /\ changes < MaxTouches
  /\ changes' = changes + 1
  /\ pen' = p
  /\ UNCHANGED <<image, canvas, canvasReady, isDrawing, lastPos, pointer, meant, saved,
                 odd>>

\* Mutant: the canvas is cleared after the image was drawn.
PutBack_Swapped == Canvas(0)

PutBack == Canvas(imageRef)

handleReset ==
  /\ ModalOpen /\ pointer.at = Outside /\ imageRef # 0 /\ changes < MaxTouches
  /\ changes' = changes + 1
  /\ canvas' = PutBack
  /\ meant' = <<>>
  /\ UNCHANGED <<image, canvasReady, pen, isDrawing, lastPos, pointer, saved, odd>>

\* Mutant: the button is there before the image.
MaySave_Always == TRUE

\* The button is disabled until the image is there.
MaySave == canvasReady

handleSave ==
  /\ ModalOpen /\ pointer.at = Outside /\ MaySave
  /\ saved' = [image |-> canvas.image, lines |-> canvas.lines, meant |-> meant,
               url |-> imageUrl]
  /\ UNCHANGED <<image, canvas, canvasReady, pen, isDrawing, lastPos, pointer, meant, odd,
                 changes>>

\* What the open dialog offers: the canvas, the pens and the buttons
DrawingModal ==
  \/ LeaveCanvas \/ stopDrawing \/ handleReset \/ handleSave
  \/ \E p \in Points : startDrawing(p) \/ draw(p)
  \/ \E p \in Pens : Choose(p)

DrawingNext ==
  \/ \E u \in pictures \cup emptied : onload(u) \/ onerror(u)
  \/ NewUrl \/ TouchCancelled \/ DrawingModal


DrawingTypeOK ==
  /\ imageUrl \in 1 .. MaxUrls /\ imageRef \in 0 .. imageUrl
  /\ pictures \cup emptied \subseteq 1 .. imageUrl
  /\ canvas.image \in 0 .. imageUrl /\ Len(canvas.lines) <= MaxLines
  /\ pen \in Pens /\ lastPos \in Points \cup {Outside}
  /\ pointer \in [at : Points \cup {Outside}, down : BOOLEAN]
  /\ {canvasReady, isDrawing, odd} \subseteq BOOLEAN /\ changes \in 0 .. MaxTouches

\* What is saved is the image with the lines that were drawn on it, each from where the
\* pointer was put down or came along, in the pen of its time, and none else; unless the
\* url changed below the dialog or a touch was cancelled.
SavedIsDrawn ==
  ~ModalOpen /\ ~odd => saved.image = saved.url /\ saved.lines = saved.meant

\* A drawing that can be saved has an image below, also after a reset and after other
\* urls: a canvas is never saved bare.
NeverBare == canvasReady => canvas.image # 0
=============================================================================
