------------------------------ MODULE BuildPanel ------------------------------
(***************************************************************************)
(* The build panel, mount-bp.ts: Hson typed into an editor is shown as a   *)
(* live tree and as HTML, with a status.  A text is known by its kind; how *)
(* far the library gets with one that is not valid is the library's.       *)
(***************************************************************************)
EXTENDS Integers

CONSTANTS Valid,       \* texts that are rendered
          Unparsed,    \* texts that fail in fromHson or toHtml
          Ungrown      \* texts whose tree fails to be appended

VARIABLE build

Empty == "empty"

ASSUME BuildAssumption == Empty \notin Valid
Texts == Valid \union Unparsed \union Ungrown \union {Empty}

setStatus(k, status) == [k EXCEPT !.status = status]

\* The try block: the preview is emptied only for a tree that could be made,
\* and the HTML is written only after that tree was appended.
try(k, raw) ==
  IF raw \in Valid THEN setStatus([k EXCEPT !.preview = raw, !.htmlBox = raw], "valid")
  ELSE IF raw \in Ungrown THEN setStatus([k EXCEPT !.preview = Empty], "invalid")
  ELSE setStatus(k, "invalid")

render_build(k) ==
  LET told == setStatus(k, IF ~k.touched THEN "idle" ELSE IF k.src = Empty THEN "invalid" ELSE "typing")
  IN IF k.src = Empty THEN told ELSE try(told, k.src)

onBuildInput(text) == build' = render_build([build EXCEPT !.src = text, !.touched = TRUE])

clear ==
  build' = setStatus([build EXCEPT !.touched = FALSE, !.src = Empty, !.preview = Empty,
                                   !.htmlBox = Empty], "idle")

toggleTab ==
  build' = [build EXCEPT !.activeTab = IF @ = "render" THEN "html" ELSE "render"]

\* What is shown goes to the clipboard: the HTML, or the source.
copy == build' = [build EXCEPT !.clipboard = IF build.activeTab = "html" THEN build.htmlBox ELSE build.src]

BuildInit ==
  \E seed \in Texts :
    build = render_build([src |-> seed, touched |-> FALSE, activeTab |-> "render", status |-> "idle",
                          preview |-> Empty, htmlBox |-> Empty, clipboard |-> Empty])

BuildNext == clear \/ toggleTab \/ copy \/ \E text \in Texts : onBuildInput(text)

-----------------------------------------------------------------------------
(* The status tells what the output is of: OK means that preview and HTML  *)
(* are both of the text in the editor, no other text is ever shown, and    *)
(* the two never show different texts, except that a tree that fails to be *)
(* appended leaves an empty preview beside the old HTML.                   *)
OutputHonest ==
  /\ build.status = "valid" => build.preview = build.src /\ build.htmlBox = build.src /\ build.src \in Valid
  /\ build.status # "valid" => build.src \notin Valid
  /\ build.preview # build.htmlBox => build.preview = Empty
  /\ {build.preview, build.htmlBox} \subseteq Valid \union {Empty}
=============================================================================
