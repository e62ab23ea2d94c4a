---------------------------- MODULE Preparation ----------------------------
(***************************************************************************)
(* What becomes of the content of one file, from the upload to the final   *)
(* transaction of its worker: the checks of the upload, extraction and     *)
(* normalization (app/processing/extraction.py), chunking                  *)
(* (app/processing/chunking.py) and the constraints of the tables          *)
(* (app/models), in the order of process_ingestion_job.                    *)
(*                                                                         *)
(* A file is what its reader sees of it: for Markdown the tokens of the    *)
(* parser, for a PDF the text of each page, for plain text its characters. *)
(***************************************************************************)
EXTENDS BlockSplitting, UploadValidation

CONSTANTS
  Files,        \* the files that may be uploaded
  MaxChunk,     \* MAX_CHUNK_CHARACTERS
  Target,       \* TARGET_CHUNK_CHARACTERS
  MaxHeading    \* the longest section heading document_chunks holds

ASSUME SizesAssumption == {MaxChunk, Target, MaxHeading} \subseteq Nat /\ Target <= MaxChunk

\* Text as it is read.  "null" is a null character.
Texts == Seq(Chars \cup {"return", "null"})
Tokens == [kind : {"heading_open", "inline", "code", "other"}, text : Texts]

\* What a reader makes of a file.  The Markdown parser puts an inline token
\* after each heading_open.
Readable(as, content) ==
  /\ as = "application/pdf" => content \in Seq(Texts)
  /\ as = "text/plain" => content \in Texts
  /\ as = "text/markdown" =>
       /\ content \in Seq(Tokens)
       /\ \A k \in 1..Len(content) :
            content[k].kind = "heading_open" =>
              k < Len(content) /\ content[k + 1].kind = "inline"

ASSUME FilesAssumption ==
  \A f \in Files :
    /\ DOMAIN f = {"name", "declared", "signature", "items", "breaksAt", "error"}
    /\ f.name \in Seq(STRING)
    /\ Readable(CanonicalType(SafeName(f.name), f.declared), f.items)

VARIABLES
  file,       \* name, declared, signature: of the upload; items: its content;
              \* breaksAt, error: the item whose reading fails (0: opening it)
  type,       \* Document.content_type
  items,      \* what is read, once the file is open
  phase,      \* where the worker is
  next,       \* the next item, then the next block
  heading,    \* current_heading
  expecting,  \* expecting_heading
  blocks,     \* the extracted blocks, then the normalized ones
  group,      \* the blocks being packed: their page and heading, whether the
              \* heading is put before each chunk, prefix_length, and the bodies
  unit,       \* the body being split
  parts,      \* the pieces of the group not yet packed
  current,    \* the pieces of the chunk being packed
  chunks,     \* the chunks so far
  result      \* how the preparation ended

source == <<file, type, items>>
reader == <<heading, expecting>>
packing == <<current, chunks>>
vars == <<splitVars, source, reader, packing, phase, next, blocks, group, unit, parts,
          result>>
chunking == <<splitVars, packing, group, unit, parts>>

NoHeading == <<"none">>
NoPage == 0
NoError == "none"

-----------------------------------------------------------------------------
(***************************************************************************)
(* _normalize_text.                                                        *)
(***************************************************************************)
\* Unicode NFC: a letter and the mark right after it become one character.
Composed(txt) ==
  LET Joins(i) == i > 1 /\ txt[i] = "mark" /\ txt[i - 1] = "a"
      letters == [i \in 1..Len(txt) |-> IF i < Len(txt) /\ Joins(i + 1) THEN "composed" ELSE txt[i]]
  IN Select(letters, {i \in 1..Len(txt) : ~Joins(i)})

OneKindOfNewline(txt) ==
  LET kept == {i \in 1..Len(txt) : ~(i > 1 /\ txt[i] = "newline" /\ txt[i - 1] = "return")}
      lines == Select(txt, kept)
  IN [i \in 1..Len(lines) |-> IF lines[i] = "return" THEN "newline" ELSE lines[i]]

WithoutNulls(txt) == Select(txt, {i \in 1..Len(txt) : txt[i] # "null"})

EndsLine(txt, i) == i = Len(txt) \/ txt[i + 1] = "newline"

WithTrimmedLines(txt) ==
  Select(txt, {i \in 1..Len(txt) :
                 ~ \E e \in i..Len(txt) : /\ EndsLine(txt, e)
                                          /\ \A j \in i..e : txt[j] \in {"space", "tab"}})

WithOneBlankLine(txt) ==
  Select(txt, {i \in 1..Len(txt) : ~(i > 2 /\ \A j \in (i - 2)..i : txt[j] = "newline")})

Strip(txt) ==
  LET s == Stripped(txt, 0, Len(txt)) IN
  IF s = <<>> THEN <<>> ELSE SubSeq(txt, s[1].first, s[1].last)

\* A slip: The lines are trimmed before the null characters are dropped.
NormalizeNullsLast(txt) ==
  LET nfc == {Composed(txt)}
      lines == {WithTrimmedLines(OneKindOfNewline(t)) : t \in nfc}
      short == {WithOneBlankLine(t) : t \in lines}
  IN CHOOSE n \in {WithoutNulls(Strip(t)) : t \in short} : TRUE

\* The sets have one element each, that TLC evaluates once.
Normalize(txt) ==
  LET nfc == {Composed(txt)}
      clean == {WithoutNulls(OneKindOfNewline(t)) : t \in nfc}
      lines == {WithTrimmedLines(t) : t \in clean}
      short == {WithOneBlankLine(t) : t \in lines}
  IN CHOOSE n \in {Strip(t) : t \in short} : TRUE

-----------------------------------------------------------------------------
(***************************************************************************)
(* The upload.                                                             *)
(***************************************************************************)
\* A slip: The code is noted and the handler goes on.
FailAndGoOn(code) == result' = code /\ UNCHANGED phase

FailWith(code) == result' = code /\ phase' = "end"

Accept ==
  /\ phase = "upload"
  /\ \E safe \in {SafeName(file.name)} :
     \E canonical \in {CanonicalType(safe, file.declared)} :
       IF /\ IsNameValid(safe) /\ canonical # NoType
          /\ SignatureValid(canonical, file.signature)
       THEN /\ phase' = "extract"
            /\ type' = canonical
            /\ file' = [file EXCEPT !.name = safe]
            /\ UNCHANGED result
       ELSE FailWith("refused") /\ UNCHANGED <<type, file>>
  /\ UNCHANGED <<items, reader, chunking, next, blocks>>

-----------------------------------------------------------------------------
(***************************************************************************)
(* Extraction, an item per step; item 0 is the opening of the file.        *)
(***************************************************************************)
\* _extract_plain_text: re.split at blank lines.  All that lies between the
\* first and the last newline of a run of white space separates.
IsBlank(char) == char \in Whitespace \cup {"return"}

Separates(txt, i) ==
  \E j \in 1..i, k \in i..Len(txt) :
    /\ j < k /\ txt[j] = "newline" /\ txt[k] = "newline"
    /\ \A m \in j..k : IsBlank(txt[m])

Paragraphs(txt) ==
  LET starts == {i \in 1..Len(txt) : ~Separates(txt, i) /\ (i > 1 => Separates(txt, i - 1))}
      End(i) == Max({e \in i..Len(txt) : \A m \in i..e : ~Separates(txt, m)})
      at == Positions(txt, starts)
  IN [k \in 1..Len(at) |-> SubSeq(txt, at[k], End(at[k]))]

Block(kind, txt, page, under) ==
  [kind |-> kind, text |-> txt, page |-> page, heading |-> under, item |-> next]

FailureCode ==
  CASE file.error = "encrypted" -> "encrypted_pdf"
    [] file.error \in {"PdfReadError", "ValueError"} -> "invalid_pdf"
    [] file.error = "UnicodeDecodeError" -> "invalid_text_encoding"
    [] OTHER -> "source_extraction_failed"

ReadingBreaks(at) == file.error # NoError /\ at = file.breaksAt

\* Reading fails: nothing of what was extracted is kept.
ReadFails ==
  /\ phase = "extract" /\ ReadingBreaks(next)
  /\ FailWith(FailureCode)
  /\ UNCHANGED <<source, reader, chunking, next, blocks>>

\* A text is split when it is opened, the others are read item by item.
Open ==
  /\ phase = "extract" /\ next = 0 /\ ~ReadingBreaks(0)
  /\ items' = IF type = "text/plain" THEN Paragraphs(file.items) ELSE file.items
  /\ next' = 1
  /\ UNCHANGED <<file, type, reader, chunking, phase, blocks, result>>

Item == items[next]

Reads(t) ==
  /\ phase = "extract" /\ type = t
  /\ next \in 1..Len(items) /\ ~ReadingBreaks(next)
  /\ next' = next + 1
  /\ UNCHANGED <<source, chunking, phase, result>>

ReadPage ==
  /\ Reads("application/pdf")
  /\ blocks' = IF Item = <<>> THEN blocks
               ELSE Append(blocks, Block("paragraph", Item, next, NoHeading))
  /\ UNCHANGED reader

ReadParagraph ==
  /\ Reads("text/plain")
  /\ blocks' = IF \A i \in 1..Len(Item) : IsBlank(Item[i]) THEN blocks
               ELSE Append(blocks, Block("paragraph", Item, NoPage, NoHeading))
  /\ UNCHANGED reader

ReadToken(kind) ==
  Reads("text/markdown") /\ Item.kind = kind

ReadHeadingOpen ==
  /\ ReadToken("heading_open")
  /\ expecting' = TRUE
  /\ UNCHANGED <<heading, blocks>>

ReadHeading ==
  /\ ReadToken("inline")
  /\ Item.text # <<>> /\ expecting
  /\ heading' = Item.text
  /\ blocks' = Append(blocks, Block("heading", Item.text, NoPage, Item.text))
  /\ expecting' = FALSE

ReadInline ==
  /\ ReadToken("inline")
  /\ Item.text # <<>> /\ ~expecting
  /\ blocks' = Append(blocks, Block("paragraph", Item.text, NoPage, heading))
  /\ UNCHANGED reader

ReadCode ==
  /\ ReadToken("code")
  /\ blocks' = IF Item.text = <<>> THEN blocks
               ELSE Append(blocks, Block("code", Item.text, NoPage, heading))
  /\ UNCHANGED reader

\* Any other token, and an inline token without text: expecting_heading stays
\* as it is.
SkipToken ==
  /\ \/ ReadToken("other")
     \/ ReadToken("inline") /\ Item.text = <<>>
  /\ UNCHANGED <<reader, blocks>>

\* normalize_document
Normal(block) ==
  [block EXCEPT !.text = Normalize(block.text),
                !.heading = IF block.heading = NoHeading THEN NoHeading
                            ELSE Normalize(block.heading)]

NormalizeBlocks ==
  /\ phase = "extract" /\ next > Len(items)
  /\ \E normal \in {[k \in 1..Len(blocks) |-> Normal(blocks[k])]} :
       blocks' = Select(normal, {k \in 1..Len(normal) : normal[k].text # <<>>})
  /\ IF blocks' = <<>> THEN FailWith("no_extractable_text")
     ELSE phase' = "group" /\ UNCHANGED result
  /\ next' = 1
  /\ UNCHANGED <<source, reader, chunking>>

-----------------------------------------------------------------------------
(***************************************************************************)
(* build_chunks: a run of blocks with one page and one heading is split    *)
(* and packed after the other.                                             *)
(***************************************************************************)
\* A slip: A section goes on on the next page.
KeyWithoutPage(k) == <<blocks[k].heading>>

Key(k) == <<blocks[k].page, blocks[k].heading>>

\* The last block of the run that begins at from.
RunEnd(from) ==
  Max({to \in from..Len(blocks) : \A k \in from..to : Key(k) = Key(from)})

Run(from) == from..RunEnd(from)

HasHeading(h) == h \notin {NoHeading, <<>>}

\* A slip: The blank line after the heading is forgotten.
PrefixLengthAlone(h) == IF HasHeading(h) THEN 2 + Len(h) ELSE 0

\* prefix_length: "# ", the heading, and a blank line.
PrefixLength(h) == IF HasHeading(h) THEN 2 + Len(h) + 2 ELSE 0

Body(of, txt) == [of |-> of, text |-> txt]

\* The blocks other than headings; a heading without any stands for itself.
Group(from) ==
  LET h == blocks[from].heading
      at == Positions(blocks, {k \in Run(from) : blocks[k].kind # "heading"})
      alone == at = <<>> /\ HasHeading(h)
  IN [page |-> blocks[from].page, heading |-> h, titled |-> HasHeading(h) /\ ~alone,
      prefix |-> IF alone THEN 0 ELSE PrefixLength(h),
      bodies |-> IF alone THEN <<Body(from, <<"a", "space">> \o h)>>
                 ELSE [k \in 1..Len(at) |-> Body(at[k], blocks[at[k]].text)]]

\* _pack_blocks; without a body there is nothing to pack.
StartGroup ==
  /\ phase = "group" /\ next <= Len(blocks)
  /\ LET g == Group(next) IN
       /\ next' = RunEnd(next) + 1
       /\ group' = g
       /\ IF g.bodies = <<>>
          THEN UNCHANGED <<splitVars, phase, unit>>
          ELSE /\ Begin(g.bodies[1].text, MaxChunk - g.prefix)
               /\ unit' = 1
               /\ phase' = "split"
  /\ UNCHANGED <<source, reader, packing, blocks, parts, result>>

Split ==
  /\ phase = "split"
  /\ SplitStep
  /\ UNCHANGED <<source, reader, packing, phase, next, blocks, group, unit, parts, result>>

(***************************************************************************)
(* With a negative limit the window is empty and the loop walks backwards, *)
(* by negative indexes that count from the end of the text, until one lies *)
(* before its beginning (IndexError) or a run of white space takes it back *)
(* to where it was.  The pieces it cuts are never used.                    *)
(***************************************************************************)
SplitAstray ==
  /\ phase = "split" /\ splitting /\ limit < 0
  /\ LET end == start + limit IN
       IF end < -Len(text)
       THEN FailWith("chunking_failed") /\ UNCHANGED start
       ELSE /\ start' = Min({k \in end..(-1) : IsSolid(text, Len(text) + k + 1)})
            /\ UNCHANGED <<phase, result>>
  /\ UNCHANGED <<text, limit, pieces, splitting, source, reader, packing, next, blocks, group,
                 unit, parts>>

Part(n) ==
  [of |-> group.bodies[unit].of, first |-> pieces[n].first, last |-> pieces[n].last]

\* A slip: Only the pieces of the last body are kept.
GatheredLast == [n \in 1..Len(pieces) |-> Part(n)]

Gathered == parts \o [n \in 1..Len(pieces) |-> Part(n)]

\* The body is split: the next one, or packing.
Collect ==
  /\ phase = "split" /\ ~splitting
  /\ parts' = Gathered
  /\ IF unit < Len(group.bodies)
     THEN /\ Begin(group.bodies[unit + 1].text, limit)
          /\ unit' = unit + 1
          /\ UNCHANGED phase
     ELSE /\ phase' = "pack"
          /\ UNCHANGED <<splitVars, unit>>
  /\ UNCHANGED <<source, reader, packing, next, blocks, group, result>>

-----------------------------------------------------------------------------
\* Pieces of one chunk have a blank line between them.
BodyLength(ps) ==
  LET upTo[n \in 0..Len(ps)] ==
        IF n = 0 THEN 0 ELSE upTo[n - 1] + ps[n].last - ps[n].first + 1
  IN upTo[Len(ps)] + 2 * (Len(ps) - 1)

\* _with_prefix, and the ChunkDraft.
Chunk(ps) ==
  [page |-> group.page, heading |-> group.heading, parts |-> ps,
   length |-> (IF group.titled THEN Len(group.heading) + 4 ELSE 0) + BodyLength(ps)]

\* A slip: The pieces are put together from the last to the first.
JoinedBackwards == <<Head(parts)>> \o current

\* current with one more piece: the candidate.
Joined == Append(current, Head(parts))

Pack ==
  /\ phase = "pack" /\ parts # <<>>
  /\ IF current # <<>> /\ BodyLength(Joined) > Target - group.prefix
     THEN chunks' = Append(chunks, Chunk(current)) /\ current' = <<Head(parts)>>
     ELSE current' = Joined /\ UNCHANGED chunks
  /\ parts' = Tail(parts)
  /\ UNCHANGED <<splitVars, source, reader, phase, next, blocks, group, unit, result>>

EndGroup ==
  /\ phase = "pack" /\ parts = <<>>
  /\ chunks' = Append(chunks, Chunk(current))
  /\ current' = <<>>
  /\ phase' = "group"
  /\ UNCHANGED <<splitVars, source, reader, next, blocks, group, unit, parts, result>>

\* The constraints of document_chunks.
RowAllowed(c) ==
  /\ c.length > 0
  /\ c.heading # NoHeading => Len(c.heading) \in 1..MaxHeading

(***************************************************************************)
(* The final transaction.  When PostgreSQL refuses a row, the job stays in *)
(* chunking: the worker is called again and does the same again.           *)
(***************************************************************************)
Store ==
  /\ phase = "group" /\ next > Len(blocks)
  /\ phase' = "end"
  /\ result' = IF chunks = <<>> THEN "no_chunks_generated"
               ELSE IF \A n \in 1..Len(chunks) : RowAllowed(chunks[n])
                    THEN "ready_for_indexing" ELSE "rolled_back"
  /\ UNCHANGED <<source, reader, chunking, next, blocks>>
-----------------------------------------------------------------------------
Init ==
  /\ file \in Files
  /\ type = NoType /\ items = <<>>
  /\ phase = "upload" /\ result = "none"
  /\ next = 0
  /\ heading = NoHeading /\ expecting = FALSE
  /\ blocks = <<>> /\ parts = <<>> /\ current = <<>> /\ chunks = <<>>
  /\ group = [page |-> NoPage, heading |-> NoHeading, titled |-> FALSE,
              prefix |-> 0, bodies |-> <<>>]
  /\ unit = 0
  /\ text = <<>> /\ limit = 0 /\ start = 0 /\ pieces = <<>> /\ splitting = FALSE

Extract ==
  \/ Open \/ ReadFails
  \/ ReadPage \/ ReadParagraph
  \/ ReadHeadingOpen \/ ReadHeading \/ ReadInline \/ ReadCode \/ SkipToken

BuildChunks ==
  StartGroup \/ Split \/ SplitAstray \/ Collect \/ Pack \/ EndGroup

Next == Accept \/ Extract \/ NormalizeBlocks \/ BuildChunks \/ Store

Spec == Init /\ [][Next]_vars
FairSpec == Spec /\ WF_vars(Next)

-----------------------------------------------------------------------------
(***************************************************************************)
(* Properties.                                                             *)
(***************************************************************************)
Results == {"none", "refused", "encrypted_pdf", "invalid_pdf", "invalid_text_encoding",
            "source_extraction_failed", "no_extractable_text", "chunking_failed",
            "no_chunks_generated", "ready_for_indexing", "rolled_back"}

TypeOK ==
  /\ type \in {NoType} \cup {Canonical[e] : e \in Extensions}
  /\ phase \in {"upload", "extract", "group", "split", "pack", "end"}
  /\ next \in Nat
  /\ expecting \in BOOLEAN
  /\ \A k \in 1..Len(blocks) : blocks[k].kind \in {"heading", "paragraph", "code"}
  /\ limit \in Int /\ start \in Int /\ splitting \in BOOLEAN
  /\ result \in Results
  /\ (result = "none") <=> (phase # "end")

\* What an accepted upload is called fits its row and names no directory, and
\* its type is the one its extension stands for, so that an extractor reads it,
\* whichever name and type the client sent (sanitize_original_filename,
\* validate_upload_metadata, extract_document).
AcceptedIsStorable ==
  type # NoType =>
    /\ Len(file.name) \in 1..MaxName
    /\ \A i \in 1..Len(file.name) : file.name[i] \notin {"/", "\\", "control"}
    /\ \E e \in Extensions : Suffix(file.name) = <<e>> /\ type = Canonical[e]

Normalized == phase \in {"group", "split", "pack"}

\* No line of txt ends with a space or a tab.
IsTrimmed(txt) ==
  \A i \in 1..Len(txt) : txt[i] \in {"space", "tab"} => ~EndsLine(txt, i)

\* There are never two blank lines one after the other.
BlankLinesAlone(txt) ==
  \A i \in 3..Len(txt) : ~(txt[i - 2] = "newline" /\ txt[i - 1] = "newline" /\ txt[i] = "newline")

InNormalForm(txt) == IsNormal(txt) /\ IsTrimmed(txt) /\ BlankLinesAlone(txt)

\* Whatever the replacements of _normalize_text bring together, the result has
\* one kind of newline, no null characters, no white space at the end of a line
\* or around it all, and no two blank lines in a row; normalizing it again can
\* only compose what a null character kept apart.
BlocksAreNormal ==
  Normalized =>
    \A k \in 1..Len(blocks) :
      InNormalForm(blocks[k].text) /\ Normalize(blocks[k].text) = Composed(blocks[k].text)

\* No chunk is longer than MAX_CHUNK_CHARACTERS, with its prefix and however
\* long the heading (the arithmetic of the limits in _pack_blocks).
ChunksBounded ==
  \A n \in 1..Len(chunks) : chunks[n].length \in 1..MaxChunk

Prepared == phase = "group" /\ next > Len(blocks)

\* Position i of block k is in one of ps.
Holds(ps, k, i) ==
  \E m \in 1..Len(ps) : ps[m].of = k /\ ps[m].first <= i /\ i <= ps[m].last

\* When all is packed, each visible character of each block is in a chunk, and
\* the heading of each heading is that of a chunk: no piece is dropped between
\* two groups or two chunks, and there is a chunk (build_chunks, _pack_blocks).
NothingOmitted ==
  Prepared =>
    /\ chunks # <<>>
    /\ \A k \in 1..Len(blocks) :
         IF blocks[k].kind = "heading"
         THEN \E n \in 1..Len(chunks) : chunks[n].heading = blocks[k].heading
         ELSE \A i \in 1..Len(blocks[k].text) :
                IsSolid(blocks[k].text, i) =>
                  \E n \in 1..Len(chunks) : Holds(chunks[n].parts, k, i)

\* p is from an earlier block than q, or an earlier piece of a block that does
\* not fit into a chunk.
Precedes(p, q) ==
  \/ p.of < q.of
  \/ /\ p.of = q.of /\ p.first < q.first
     /\ Len(blocks[p.of].text) > MaxChunk - PrefixLength(blocks[p.of].heading)

\* The chunks hold the blocks in the order of the document, and a block that
\* fits into a chunk is in one, once and whole; only the others overlap.
PartsInOrder ==
  \A n, o \in 1..Len(chunks) :
    \A m \in 1..Len(chunks[n].parts), l \in 1..Len(chunks[o].parts) :
      n < o \/ (n = o /\ m < l) => Precedes(chunks[n].parts[m], chunks[o].parts[l])

(***************************************************************************)
(* Where a chunk says that it comes from.                                  *)
(***************************************************************************)
IsHeading(k) ==
  /\ file.items[k].kind = "inline"
  /\ k > 1 /\ file.items[k - 1].kind = "heading_open"

\* The heading above an item of a Markdown document.
HeadingAbove(item) ==
  LET above == {k \in 1..item : IsHeading(k)} IN
  IF above = {} THEN NoHeading ELSE Normalize(file.items[Max(above)].text)

HasEmptyHeading ==
  \E k \in 1..Len(file.items) : IsHeading(k) /\ file.items[k].text = <<>>

\* A chunk names the page that all of it is on, and the heading that all of it
\* is under.  A heading without text spoils the headings after it: the
\* paragraph below is taken for one (expecting_heading in _extract_markdown).
ProvenanceHolds ==
  \A n \in 1..Len(chunks) : \A m \in 1..Len(chunks[n].parts) :
    LET b == blocks[chunks[n].parts[m].of] IN
    /\ chunks[n].page = IF type = "application/pdf" THEN b.item ELSE NoPage
    /\ type = "text/markdown" /\ ~HasEmptyHeading => chunks[n].heading = HeadingAbove(b.item)

\* The headings of a document have some text and fit the column.
HeadingsFit ==
  type = "text/markdown" =>
    \A k \in 1..Len(file.items) :
      IsHeading(k) => Len(Normalize(file.items[k].text)) \in 1..MaxHeading

Ended == result \notin {"none", "rolled_back"}

\* A document whose headings fit is prepared or fails for good
\* (process_ingestion_job, from its extraction to its end).
FittingDocumentsEnd == (phase = "extract" /\ HeadingsFit) ~> Ended

\* Every upload comes to its end, prepared or failed (README: "later it becomes
\* ready_for_indexing or failed").
PreparationEnds == <>Ended
=============================================================================
