--------------------------- MODULE PreparationMC ---------------------------
(***************************************************************************)
(* Files for TLC.                                                          *)
(***************************************************************************)
EXTENDS Preparation, SequencesExt

Times(c, n) == [i \in 1..n |-> c]
TextsUpTo(n, chars) == {SubSeq(txt, 1, k) : txt \in [1..n -> chars], k \in 0..n}

Sound(name, declared, signature, content) ==
  [name |-> name, declared |-> declared, signature |-> signature, items |-> content,
   breaksAt |-> 0, error |-> NoError]

Markdown(content) == Sound(<<"a", ".", "md">>, "text/markdown", "other", content)
Plain(txt) == Sound(<<"a", ".", "txt">>, "text/plain", "other", txt)
Pdf(pages) == Sound(<<"a", ".", "pdf">>, "application/pdf", "%PDF-", pages)

Token(kind, txt) == <<[kind |-> kind, text |-> txt]>>
HeadingOf(txt) == Token("heading_open", <<>>) \o Token("inline", txt) \o Token("other", <<>>)
ParagraphOf(txt) == Token("other", <<>>) \o Token("inline", txt) \o Token("other", <<>>)
CodeOf(txt) == Token("code", txt)

\* A section whose only paragraph has to be split, in every way: the pieces
\* may have five or four characters.
SplitTexts == {<<"a">> \o txt : txt \in TextsUpTo(6, {"a", ".", "space", "newline"})}
SplitFiles ==
  {Markdown(HeadingOf(Times("a", 1)) \o ParagraphOf(txt)) : txt \in SplitTexts}
    \cup {Markdown(HeadingOf(Times("a", 2)) \o ParagraphOf(txt)) :
            txt \in {t \in SplitTexts : Len(t) <= 6}}

\* Sections with headings of every length, with as much as none left for the
\* body, and less.
HeadingFiles ==
  {Markdown(HeadingOf(Times("a", h)) \o ParagraphOf(txt)) :
     h \in 1..9,
     txt \in {Times("a", 3), <<"a", "space", "a", "a">>,
              <<"a", "a", "space", "space", "space", "a">>}}

\* Documents of several elements: headings with and without text, or with white
\* space only; paragraphs; code with the newline it ends with.
Elements ==
  {HeadingOf(<<"a">>), HeadingOf(<<"a", ".">>), HeadingOf(<<>>), HeadingOf(<<"blank">>),
   ParagraphOf(<<"a">>), ParagraphOf(<<"a", "a", "space", "a", ".", "newline", "a">>),
   CodeOf(<<"space", "a", "newline">>), CodeOf(<<>>), ParagraphOf(<<>>)}
ElementFiles ==
  {Markdown(FlattenSeq(es)) : es \in TextsUpTo(3, Elements)}

\* Paragraphs that are packed together, or not, under no heading and one.
Lengths == {1, 2, 3, 4, 8, 12}
PackFiles ==
  {Markdown(h \o FlattenSeq([n \in DOMAIN ls |-> ParagraphOf(Times("a", ls[n]))])) :
     h \in {<<>>, HeadingOf(<<"a">>)}, ls \in [1..3 -> Lengths]}

PlainFiles ==
  {Plain(txt) :
     txt \in TextsUpTo(5, {"a", "space", "newline", "return"})
              \cup TextsUpTo(4, {"a", "mark", "null", "tab", "newline", "return"})}

\* Null characters and marks beside the white space and the letters that they
\* keep apart.
Pages == {<<>>, <<"a", ".", "space", "newline", "a">>, <<"space", "newline", "null">>,
          <<"null", "newline", "a", "tab", "null", "space", "return", "newline", "newline",
            "return", "a", "blank">>,
          <<"mark", "a", "mark", "mark", "space", "null">>, <<"a", "null", "mark", "a">>,
          Times("a", 11), Times("newline", 4) \o <<"a">>}
PdfFiles == {Pdf(pages) : pages \in TextsUpTo(2, Pages)}

Upload(name, declared, signature) == Sound(name, declared, signature, <<>>)
Names ==
  {pre \o <<"a", ".", e>> \o post :
     pre \in TextsUpTo(2, {"/", "\\", "."}), e \in {"pdf", "md", "txt", "a"},
     post \in {<<>>, <<"space", "control">>, <<".">>, <<"/">>}}
    \cup {<<>>, <<"space", "control">>, <<".">>, <<".", ".">>, <<".", "pdf">>,
          <<"a", "a", "a", "a", ".", "txt">>, <<"a", "a", "a", "a", "a", ".", "txt">>}
UploadFiles ==
  {Upload(name, declared, signature) :
     name \in Names, declared \in {"application/pdf", "text/plain", "text/markdown"},
     signature \in {"%PDF-", "other"}}

\* What reading can run into, at the start and later on.
BrokenFiles ==
  {[Pdf(<<<<"a">>, <<"a">>>>) EXCEPT !.breaksAt = at, !.error = e] :
     at \in 0..2, e \in {"PdfReadError", "ValueError", "KeyError"}}
    \cup {[Pdf(<<>>) EXCEPT !.error = "encrypted"],
          [Plain(<<"a">>) EXCEPT !.error = "UnicodeDecodeError"],
          [Markdown(ParagraphOf(<<"a">>)) EXCEPT !.error = "UnicodeDecodeError"]}

AllFiles ==
  SplitFiles \cup HeadingFiles \cup ElementFiles \cup PackFiles \cup PlainFiles
    \cup PdfFiles \cup UploadFiles \cup BrokenFiles
=============================================================================
