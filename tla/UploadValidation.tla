-------------------------- MODULE UploadValidation --------------------------
(***************************************************************************)
(* What an upload must look like to be accepted (app/api/documents.py:     *)
(* sanitize_original_filename, validate_upload_metadata,                   *)
(* validate_pdf_signature).  A name is a sequence of characters, of which  *)
(* those that matter are kept apart; "pdf", "md" and "txt" stand for the   *)
(* letters of an extension in either case, and "control" for any character *)
(* of a Unicode category C.                                                *)
(***************************************************************************)
EXTENDS Selections, FiniteSetsExt

CONSTANT MaxName   \* 255

ASSUME NameAssumption == MaxName \in Nat

NoType == "none"
Extensions == {"pdf", "md", "txt"}

\* SUPPORTED_FILE_TYPES
Allowed == [pdf |-> {"application/pdf"},
            md  |-> {"text/markdown", "text/plain"},
            txt |-> {"text/plain"}]
Canonical == [pdf |-> "application/pdf", md |-> "text/markdown", txt |-> "text/plain"]

\* A slip: Only a slash ends a directory.
BasenameOfPosix(name) ==
  LET separators == {i \in 1..Len(name) : name[i] = "/"} IN
  SubSeq(name, Max(separators \cup {0}) + 1, Len(name))

Basename(name) ==
  LET separators == {i \in 1..Len(name) : name[i] \in {"/", "\\"}} IN
  SubSeq(name, Max(separators \cup {0}) + 1, Len(name))

\* Without control characters, and without white space at its ends: what
\* remains lies between two characters that are neither.
SafeName(name) ==
  LET base == Basename(name)
      solid == {i \in 1..Len(base) : base[i] \notin {"control", "space"}}
  IN Select(base, {i \in 1..Len(base) : /\ base[i] # "control"
                                        /\ \E m, n \in solid : m <= i /\ i <= n})

IsNameValid(safe) ==
  safe \notin {<<>>, <<".">>, <<".", ".">>} /\ Len(safe) <= MaxName

\* Path.suffix without its dot: a name that begins or ends with its last dot
\* has none.
Suffix(safe) ==
  LET dots == {i \in 2..(Len(safe) - 1) : safe[i] = "."} IN
  IF dots = {} \/ safe[Len(safe)] = "." THEN <<>>
  ELSE SubSeq(safe, Max(dots) + 1, Len(safe))

\* The type that is stored, whatever type of the allowed ones was declared.
CanonicalType(safe, declared) ==
  LET allowed == {e \in Extensions : Suffix(safe) = <<e>> /\ declared \in Allowed[e]} IN
  IF allowed = {} THEN NoType ELSE Canonical[CHOOSE e \in allowed : TRUE]

SignatureValid(type, signature) == type = "application/pdf" => signature = "%PDF-"
=============================================================================
