------------------------------- MODULE Views -------------------------------
(***************************************************************************)
(* The content browser and the viewers (app/content_browser.rs,            *)
(* app/viewers.rs, and their handlers in main.rs).                         *)
(*                                                                         *)
(* Every query and every fetch runs on a thread of its own, and posts its  *)
(* answer to the UI thread in whatever order they end.  A click posts an   *)
(* action too: what it means is decided when the action is handled.        *)
(*                                                                         *)
(* A file is its handle; the server gives it a category.  A search is the  *)
(* set of the files whose titles it matches.  Sizes and captions are left  *)
(* out.  MaxQueries bounds the queries, MaxFetches the fetches of a        *)
(* document, MaxChanges the changes of the server's files.                 *)
(***************************************************************************)
EXTENDS Naturals, Sequences, FiniteSets, SequencesExt, Retained

CONSTANTS Order,       \* the files, as their titles sort
          CategoryOf,  \* the server's category of a file
          NotesByName, \* the files whose title ends in .md
          Searches,    \* what can be searched for: sets of files
          NoFile, MaxQueries, MaxFetches, MaxChanges

Handles == ToSet(Order)

\* collect_rows sorts what it finds: a sequence.
ASSUME OrderAssumption == Order \in Seq(Handles)

VARIABLES
    hosted,    \* the files of the server
    files,     \* AppState.files: those the app knows
    filter, search, contentError,   \* CONTENT_STATE
    queries,   \* the queries under way, and how many there were
    rows,      \* the rows on the screen
    toOpen,    \* the handle of a posted ContentAction::Open
    viewer,    \* VIEWER_STATE.open
    documents, \* markdown_cache: handle -> the document its body is of
    viewError, \* last_error: the document it is about
    fetches,   \* handle -> the fetches of it under way
    budget     \* what is left of the bounds

browser == <<files, filter, search, contentError, queries, rows>>
overlay == <<viewer, documents, viewError, fetches>>
viewVars == <<hosted, browser, toOpen, overlay, budget>>

Filters == {"All", "Image", "Audio", "Video", "Markdown", "Pdf", "Other"}

\* FileKind::from_mime, of a file whose type is not told.
FromMime(f) == IF f \in NotesByName THEN "Markdown" ELSE "Other"
\* project_row: the category decides.
KindOf(f) ==
    CASE CategoryOf[f] = "image" -> "Image" [] CategoryOf[f] = "audio" -> "Audio"
      [] CategoryOf[f] = "video" -> "Video" [] CategoryOf[f] = "report" -> "Markdown"
      [] CategoryOf[f] = "other" -> "Other"
      [] OTHER -> FromMime(f)

\* ContentFilter::server_kind, and allows.
ServerKind(flt) ==
    CASE flt = "Image" -> {"image"} [] flt = "Audio" -> {"audio"} [] flt = "Video" -> {"video"}
      [] flt = "Markdown" -> {"report"}
      [] flt \in {"Pdf", "Other"} -> {"other"} [] OTHER -> {CategoryOf[f] : f \in Handles}
Allows(flt, f) == flt = "All" \/ KindOf(f) = flt

\* collect_rows, drawn or clicked.
CollectRows == Retain(Order, {f \in files : Allows(filter, f) /\ f \in search})

Closed == [pane |-> "Closed", handles |-> <<>>, active |-> 0]
ViewsInit ==
    /\ hosted = Handles /\ files = {} /\ filter = "All" /\ search = Handles /\ contentError = FALSE
    /\ queries = {} /\ rows = <<>> /\ toOpen = NoFile
    /\ viewer = Closed /\ documents = <<>> /\ viewError = NoFile
    /\ fetches = [f \in Handles |-> 0]
    /\ budget = [queries |-> MaxQueries, fetches |-> MaxFetches, changes |-> MaxChanges]

-----------------------------------------------------------------------------
(* The browser.                                                            *)

\* fire_content_hydrate: with the filter and the search of now.
FireHydrate ==
    /\ budget.queries > 0
    /\ queries' = queries \cup {[n |-> budget.queries, kinds |-> ServerKind(filter'), match |-> search']}
    /\ budget' = [budget EXCEPT !.queries = @ - 1]

\* navigate_to_content, or the refresh button.
RefreshContent ==
    /\ UNCHANGED <<hosted, files, filter, search, contentError, rows, toOpen, overlay>> /\ FireHydrate

SetFilter(flt) ==
    /\ filter' = flt /\ UNCHANGED search /\ FireHydrate
    /\ UNCHANGED <<hosted, files, contentError, rows, toOpen, overlay>>

\* A search narrows the rows and asks the server nothing.
SetSearch(s) ==
    /\ search' = s
    /\ UNCHANGED <<hosted, files, filter, contentError, queries, rows, toOpen, overlay, budget>>

\* ContentAction::Hydrated, fold_hydrated: the reply replaces the files,
\* whatever was asked since.
HydrateContent(q) ==
    /\ q \in queries /\ queries' = queries \ {q}
    /\ files' = {f \in hosted : CategoryOf[f] \in q.kinds /\ f \in q.match}
    /\ contentError' = FALSE
    /\ UNCHANGED <<hosted, filter, search, rows, toOpen, overlay, budget>>

\* ContentAction::Failed: the rows stay, and the error is only seen without any.
HydrateFails(q) ==
    /\ q \in queries /\ queries' = queries \ {q} /\ contentError' = TRUE
    /\ UNCHANGED <<hosted, files, filter, search, rows, toOpen, overlay, budget>>

DrawContent ==
    /\ rows' = CollectRows /\ rows' # rows
    /\ UNCHANGED <<hosted, files, filter, search, contentError, queries, toOpen, overlay, budget>>

\* handle_event: the click has a row's number, and the rows are collected anew.
ClickFile(i) ==
    /\ viewer = Closed /\ toOpen = NoFile
    /\ i \in DOMAIN rows /\ i \in DOMAIN CollectRows
    /\ toOpen' = CollectRows[i]
    /\ UNCHANGED <<hosted, browser, overlay, budget>>

ServerFiles ==
    /\ budget.changes > 0 /\ budget' = [budget EXCEPT !.changes = @ - 1]
    /\ \E f \in Handles : hosted' = IF f \in hosted THEN hosted \ {f} ELSE hosted \cup {f}
    /\ UNCHANGED <<browser, toOpen, overlay>>

-----------------------------------------------------------------------------
(* The viewers.                                                            *)

\* display_kind: a file the app no longer knows is Other.
DisplayKind(h) == IF h \in files THEN KindOf(h) ELSE "Other"

\* collect_image_handles: in the order of the handles, not of the titles.
Images == SetToSeq({f \in files : KindOf(f) = "Image"})

\* viewer_for
ViewerFor(h) ==
    IF DisplayKind(h) = "Image"
    THEN [pane |-> "ImageAlbum", handles |-> Images,
          active |-> CHOOSE i \in DOMAIN Images : Images[i] = h]
    ELSE [pane |-> IF DisplayKind(h) = "Other" THEN "Generic" ELSE DisplayKind(h),
          handles |-> <<h>>, active |-> 1]
FocusHandle(v) == v.handles[v.active]

\* open_viewer_for: a document that is not in the cache is fetched, again
\* while a fetch of it is under way.
OpenViewerFor ==
    /\ toOpen # NoFile
    /\ toOpen' = NoFile
    /\ viewer' = ViewerFor(toOpen)
    /\ viewError' = NoFile
    /\ IF viewer'.pane = "Markdown" /\ toOpen \notin DOMAIN documents
       THEN /\ budget.fetches > 0 /\ budget' = [budget EXCEPT !.fetches = @ - 1]
            /\ fetches' = [fetches EXCEPT ![toOpen] = @ + 1]
       ELSE UNCHANGED <<fetches, budget>>
    /\ UNCHANGED <<hosted, browser, documents>>

CloseViewer ==
    /\ viewer # Closed /\ viewer' = Closed
    /\ UNCHANGED <<hosted, browser, toOpen, documents, viewError, fetches, budget>>

\* album_step: the place is clamped.
Stepped(active, delta, len) ==
    IF delta = 1 THEN (IF active = len THEN len ELSE active + 1)
    ELSE IF active = 1 THEN 1 ELSE active - 1
AlbumStep(delta) ==
    /\ viewer.pane = "ImageAlbum" /\ viewer.handles # <<>>
    /\ viewer' = [viewer EXCEPT !.active = Stepped(@, delta, Len(viewer.handles))]
    /\ UNCHANGED <<hosted, browser, toOpen, documents, viewError, fetches, budget>>

Put(f, h, v) == [x \in DOMAIN f \cup {h} |-> IF x = h THEN v ELSE f[x]]

\* Mutant: the body goes to the document that is open.
CachedHere(h) == Put(documents, IF viewer = Closed THEN h ELSE FocusHandle(viewer), h)

\* The body goes to the document it was fetched for.
CachedFor(h) == Put(documents, h, h)

\* ViewerAction::MarkdownLoaded
MarkdownLoaded(h) ==
    /\ fetches[h] > 0 /\ fetches' = [fetches EXCEPT ![h] = @ - 1]
    /\ documents' = CachedFor(h)
    /\ viewError' = NoFile
    /\ UNCHANGED <<hosted, browser, toOpen, viewer, budget>>

\* ViewerAction::MarkdownFailed: the error has no document.
MarkdownFailed(h) ==
    /\ fetches[h] > 0 /\ fetches' = [fetches EXCEPT ![h] = @ - 1]
    /\ viewError' = h
    /\ UNCHANGED <<hosted, browser, toOpen, viewer, documents, budget>>

\* What the markdown pane draws (snapshot_overlay, draw_walk).
Body(h) == IF h \in DOMAIN documents THEN [text |-> "body", of |-> documents[h]]
           ELSE IF viewError # NoFile THEN [text |-> "error", of |-> viewError]
           ELSE [text |-> "loading", of |-> h]

ViewsNext ==
    \/ RefreshContent \/ DrawContent \/ ServerFiles
    \/ \E flt \in Filters : SetFilter(flt)
    \/ \E s \in Searches : SetSearch(s)
    \/ \E q \in queries : HydrateContent(q) \/ HydrateFails(q)
    \/ \E i \in DOMAIN rows : ClickFile(i)
    \/ OpenViewerFor \/ CloseViewer
    \/ \E delta \in {1, 2} : AlbumStep(delta)
    \/ \E h \in Handles : MarkdownLoaded(h) \/ MarkdownFailed(h)

-----------------------------------------------------------------------------

\* The document pane never shows the text of another document, whatever order
\* the fetches end in and whichever document is open by then (fetch_markdown,
\* snapshot_overlay).
BodyIsOwn ==
    viewer.pane = "Markdown" =>
      LET b == Body(FocusHandle(viewer)) IN b.text = "body" => b.of = FocusHandle(viewer)

\* The place in an album is one of its pictures, though the files of the app
\* change while it is open (album_step).
AlbumInRange == viewer # Closed => viewer.active \in DOMAIN viewer.handles

\* What an open viewer shows is the file it was opened on.
ViewerIsSound == BodyIsOwn /\ AlbumInRange
=============================================================================
