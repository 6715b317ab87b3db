------------------------------ MODULE HtmlText ------------------------------
(***************************************************************************)
(* _HTMLTextExtractor (connectors/document.py) fed with a page, one        *)
(* handler call a step, beside the elements a browser has open.  The page  *)
(* writes the start tag of its head element; HTML lets it leave out        *)
(* </head> before <body>.  End tags come in any order, stray ones too.     *)
(***************************************************************************)
EXTENDS Naturals, Sequences

CONSTANTS Tags,         \* tags the pages use
          Contents,     \* what a run of text can be
          MaxOpen,      \* bound: elements open at a time
          OmitHeadEnd,  \* pages may leave out </head>
          StrayEnds     \* inside a skipped element, pages may end another
                        \* skipped element that is not there

SkipTags == {"script", "style", "head", "noscript", "template"}

(* A browser that runs scripts finds only text in these.                   *)
NoElements == {"script", "style", "title", "noscript"}

(* No end tag inside one of these ends an element outside of it.           *)
Opaque == SkipTags \cup {"title"}

ASSUME TagsAssumption == Tags \subseteq STRING /\ MaxOpen \in Nat

VARIABLES open,         \* elements open in a browser, the innermost last
          skipDepth, inTitle,
          chunks, titleParts,   \* the text kept, as sets
          shown         \* what a browser shows (history)

htmlVars == <<open, skipDepth, inTitle, chunks, titleParts, shown>>

Innermost == IF open = <<>> THEN "none" ELSE open[Len(open)]
Skipped == \E i \in DOMAIN open : open[i] \in SkipTags

HtmlTypeOK ==
    /\ open \in Seq(Tags \cup {"body"}) /\ Len(open) <= MaxOpen
    /\ skipDepth \in Nat
    /\ inTitle \in BOOLEAN
    /\ chunks \cup titleParts \cup shown \subseteq Contents

HtmlInit ==
    /\ open = <<>>
    /\ skipDepth = 0
    /\ inTitle = FALSE
    /\ chunks = {}
    /\ titleParts = {}
    /\ shown = {}

NewPage ==
    /\ open' = <<>>
    /\ skipDepth' = 0
    /\ inTitle' = FALSE
    /\ chunks' = {}
    /\ titleParts' = {}
    /\ shown' = {}

-----------------------------------------------------------------------------
(* handle_starttag: a title is in the head, and the head comes first; it   *)
(* holds no text of its own and nothing that is shown.                     *)
StartTag(t) ==
    /\ Len(open) < MaxOpen
    /\ Innermost \notin NoElements
    /\ t = "title" => Innermost = "head"
    /\ Innermost = "head" => t \in Opaque
    /\ t \in {"head", "body"} => open = <<>>
    /\ t = "head" => shown = {}
    /\ open' = Append(open, t)
    /\ skipDepth' = IF t \in SkipTags THEN skipDepth + 1 ELSE skipDepth
    /\ inTitle' = (inTitle \/ t = "title")
    /\ UNCHANGED <<chunks, titleParts, shown>>

(* <body> ends the head element for a browser; the extractor goes on.      *)
BodyWithoutHeadEnd ==
    /\ OmitHeadEnd
    /\ open = <<"head">>
    /\ open' = <<"body">>
    /\ UNCHANGED <<skipDepth, inTitle, chunks, titleParts, shown>>

(* What an end tag ends for a browser: the last element of its name, and   *)
(* all that is open in it; nothing, if it is stray.                        *)
Ends(t, i) == open[i] = t /\ \A j \in (i + 1)..Len(open) : open[j] \notin Opaque \cup {t}
Stray(t) == \A i \in DOMAIN open : ~Ends(t, i)

(* Markup has no end in a script or a style but their own, for HTMLParser  *)
(* as for a browser; </body> would end a head, as BodyWithoutHeadEnd does. *)
MayEnd(t) ==
    /\ Innermost \in {"script", "style"} => t = Innermost
    /\ t = "body" => Innermost # "head"
    /\ t \in SkipTags /\ Stray(t) /\ Skipped => StrayEnds

Shut(t) ==
    \/ Stray(t) /\ open' = open
    \/ \E i \in DOMAIN open : Ends(t, i) /\ open' = SubSeq(open, 1, i - 1)

\* Mutant: the guard on _skip_depth is missing.
EndTagUnguarded(t) ==
    /\ MayEnd(t)
    /\ Shut(t)
    /\ skipDepth' = IF t \in SkipTags THEN skipDepth - 1 ELSE skipDepth
    /\ inTitle' = (inTitle /\ t # "title")
    /\ UNCHANGED <<chunks, titleParts, shown>>

(* handle_endtag, whatever is open.                                        *)
EndTag(t) ==
    /\ MayEnd(t)
    /\ Shut(t)
    /\ skipDepth' = IF t \in SkipTags /\ skipDepth > 0 THEN skipDepth - 1 ELSE skipDepth
    /\ inTitle' = (inTitle /\ t # "title")
    /\ UNCHANGED <<chunks, titleParts, shown>>

(* handle_data with a text that is not blank.                              *)
Data(d) ==
    /\ Innermost # "head"
    /\ titleParts' = IF inTitle THEN titleParts \cup {d} ELSE titleParts
    /\ chunks' = IF skipDepth = 0 THEN chunks \cup {d} ELSE chunks
    /\ shown' = IF Skipped THEN shown ELSE shown \cup {d}
    /\ UNCHANGED <<open, skipDepth, inTitle>>

HtmlStep ==
    \/ \E t \in Tags \cup {"body"} : StartTag(t) \/ EndTag(t)
    \/ BodyWithoutHeadEnd
    \/ \E d \in Contents : Data(d)

-----------------------------------------------------------------------------
(* Properties.                                                             *)

(* "Collect visible text": what is kept for the indicators and the model   *)
(* is what the reader of the page sees, neither less nor a script's,       *)
(* however the page's end tags are out of order.  Not so for a page that   *)
(* leaves out </head>, nor for StrayEnds: a </noscript> in a template.     *)
TextIsShown == chunks = shown

=============================================================================
