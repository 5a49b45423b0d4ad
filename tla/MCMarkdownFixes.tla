-------------------------- MODULE MCMarkdownFixes ---------------------------
EXTENDS MarkdownFixes

(* Two heading levels, one of them a jump below the other, paragraphs,     *)
(* blank lines, and a setext heading, which no operation can edit.         *)
PlainLines == {Atx(1, <<"A">>, 0), Atx(3, <<"A">>, 0), Setext(2, <<"A">>, 0), Text, Blank}

(* The same with headings that have no text.                               *)
AllLines == PlainLines \cup {Bare(1, 0), Bare(3, 0)}

(* An anchor taken by the first of three headings with the same text, or   *)
(* by the third of them.                                                   *)
ThirdLink == {<<"A", 2>>}
FirstLinks == {<<"A">>} \cup ThirdLink

(* Anchors of up to four headings, and one that only a rename makes.       *)
AnyLinks == FirstLinks \cup {<<"A", 1>>, <<"A", 3>>, <<"A", 2, 1>>}
=============================================================================
