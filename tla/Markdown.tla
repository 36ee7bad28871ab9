------------------------------- MODULE Markdown -------------------------------
(***************************************************************************)
(* The two readers of markdown, deck's parse_deck_markdown and about's     *)
(* render_md_doc, one line at a time over the same text: paragraphs, lists *)
(* and code gathered in buffers and flushed into blocks.  A line is known  *)
(* by its number and its kind; a block by its kind and its lines.          *)
(***************************************************************************)
EXTENDS Integers, Sequences, SequencesExt

CONSTANT MaxLines \* bound: lines of a text

VARIABLE reader

LineKinds == {"plain", "indented", "nested", "blank", "fence", "heading", "bullet", "ordered",
              "anti", "deck-rule", "rule", "url", "copyright", "warning"}

Block(kind, lines) == [kind |-> kind, lines |-> lines]
emitted(k, kind, lines) == [k EXCEPT !.blocks = Append(@, Block(kind, lines))]

flushPara(k) ==
  IF k.para = <<>> THEN k ELSE [emitted(k, "paragraph", k.para) EXCEPT !.para = <<>>]

\* Mutant: a list is dropped when another one begins.
flushList_dropping(k) ==
  IF k.list = <<>> THEN k
  ELSE IF k.listKind = "ordered" THEN [k EXCEPT !.list = <<>>]
  ELSE [emitted(k, k.listKind, k.list) EXCEPT !.list = <<>>]

flushList(k) ==
  IF k.list = <<>> THEN k ELSE [emitted(k, k.listKind, k.list) EXCEPT !.list = <<>>]

flushed(k) == flushList(flushPara(k))

\* Blank lines at either end of a code block are cut.
normalize_code_block_text(lines, kinds) ==
  LET full == {i \in 1..Len(lines) : kinds[lines[i]] # "blank"}
  IN IF full = {} THEN <<>> ELSE SubSeq(lines, Min(full), Max(full))

deck_code(k, kinds) ==
  [emitted(k, "code", normalize_code_block_text(k.code, kinds)) EXCEPT !.code = <<>>, !.inCode = FALSE]

\* Line n of kind, as the deck reads it.
parse_deck_markdown(k, n, kinds) ==
  LET kind == kinds[n]
  IN IF k.inCode
     THEN IF kind = "fence" THEN deck_code(k, kinds) ELSE [k EXCEPT !.code = Append(@, n)]
     ELSE IF kind = "deck-rule" THEN emitted(flushed(k), "rule", <<n>>)
     ELSE IF kind = "fence" THEN [flushed(k) EXCEPT !.inCode = TRUE]
     ELSE IF kind = "heading" THEN emitted(flushed(k), "heading", <<n>>)
     ELSE IF kind = "blank" THEN flushed(k)
     ELSE IF kind \in {"bullet", "ordered", "nested"} THEN [flushPara(k) EXCEPT !.list = Append(@, n)]
     ELSE IF kind = "indented" /\ k.list # <<>> THEN [k EXCEPT !.list = Append(@, n)]
     ELSE [flushList(k) EXCEPT !.para = Append(@, n)]

flushCode(k) ==
  IF k.code = <<>> THEN k ELSE [emitted(k, "code", k.code) EXCEPT !.code = <<>>]

\* Line n of kind, as the about view reads it: a line of its own, even inside a
\* fence, when it is a url or a copyright.
render_md_doc(k, n, kinds) ==
  LET kind == kinds[n]
      listed == IF k.list # <<>> /\ k.listKind = kind THEN flushPara(k) ELSE flushList(flushPara(k))
  IN IF kind \in {"url", "copyright"} THEN emitted(flushed(k), kind, <<n>>)
     ELSE IF kind = "fence"
     THEN IF k.inCode THEN flushCode([k EXCEPT !.inCode = FALSE]) ELSE [flushed(k) EXCEPT !.inCode = TRUE]
     ELSE IF k.inCode THEN [k EXCEPT !.code = Append(@, n)]
     ELSE IF kind \in {"rule", "heading", "warning"} THEN emitted(flushed(k), kind, <<n>>)
     ELSE IF kind = "blank" THEN flushed(k)
     ELSE IF kind \in {"bullet", "ordered", "anti"}
     THEN [listed EXCEPT !.list = Append(@, n), !.listKind = kind]
     ELSE IF kind \in {"indented", "nested"} /\ k.list # <<>> THEN [k EXCEPT !.list = Append(@, n)]
     ELSE [flushList(k) EXCEPT !.para = Append(@, n)]

ReadLine(kind) ==
  LET kinds == Append(reader.kinds, kind)
  IN /\ Len(kinds) <= MaxLines
     /\ reader' = [kinds |-> kinds,
                   deck |-> parse_deck_markdown(reader.deck, Len(kinds), kinds),
                   about |-> render_md_doc(reader.about, Len(kinds), kinds)]

NothingRead == [blocks |-> <<>>, para |-> <<>>, list |-> <<>>, listKind |-> "bullet",
                code |-> <<>>, inCode |-> FALSE]
ReaderInit == reader = [kinds |-> <<>>, deck |-> NothingRead, about |-> NothingRead]
ReaderNext == \E kind \in LineKinds : ReadLine(kind)

\* What is mounted if the text ends here; an open fence is closed by its end.
deck_blocks ==
  (IF reader.deck.inCode THEN deck_code(flushed(reader.deck), reader.kinds)
   ELSE flushed(reader.deck)).blocks
about_blocks ==
  (IF reader.about.inCode THEN flushCode(flushed(reader.about)) ELSE flushed(reader.about)).blocks

-----------------------------------------------------------------------------
lines_of(blocks) == UNION {ToSet(blocks[i].lines) : i \in 1..Len(blocks)}
Content == {n \in 1..Len(reader.kinds) : reader.kinds[n] \notin {"blank", "fence"}}

\* Of two lines the earlier is mounted first, unless one of them is moved; none
\* is mounted twice.
KeptInOrder(blocks, moved) ==
  \A i, j \in 1..Len(blocks) : \A a \in 1..Len(blocks[i].lines), b \in 1..Len(blocks[j].lines) :
    i < j \/ (i = j /\ a < b) =>
      \/ blocks[i].lines[a] < blocks[j].lines[b]
      \/ /\ blocks[i].lines[a] # blocks[j].lines[b]
         /\ blocks[i].lines[a] \in moved \/ blocks[j].lines[b] \in moved

(* Whatever order the kinds of lines come in, and wherever the text ends,  *)
(* the deck mounts every line once and in its order.                       *)
DeckKeepsLines ==
  /\ KeptInOrder(deck_blocks, {}) /\ Content \subseteq lines_of(deck_blocks)
  /\ \A n \in lines_of(deck_blocks) : reader.kinds[n] # "fence"

\* Lines between two fences, or after the last.
fenced(n) == Cardinality({f \in 1..n : reader.kinds[f] = "fence"}) % 2 = 1
Hoisted == {n \in 1..Len(reader.kinds) : fenced(n) /\ reader.kinds[n] \in {"url", "copyright"}}

(* The about view shows every line once; their order changes only where a  *)
(* url or a copyright within a fence is shown before the fence's code.     *)
AboutKeepsLines == KeptInOrder(about_blocks, Hoisted) /\ Content \subseteq lines_of(about_blocks)

(* Neither reader of the texts loses, repeats or moves a line unseen.       *)
EveryLineShown == DeckKeepsLines /\ AboutKeepsLines
=============================================================================
