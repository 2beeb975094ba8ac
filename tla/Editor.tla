------------------------------- MODULE Editor -------------------------------
(***************************************************************************)
(* The language server's document (wirespec-lsp backend.rs) and what it    *)
(* computes of a text by offsets: positions and words (position.rs,        *)
(* offset_to_line_col in wirespec-sema/src/error.rs), comments and delta   *)
(* encoding (semantic_tokens.rs), the place of a diagnostic                *)
(* (diagnostics.rs). What it computes of the parsed text is not modelled.  *)
(***************************************************************************)
EXTENDS Lexer, FiniteSets, SequencesExt

CONSTANTS Chars,     \* the characters a client types, each its bytes
          MaxChars   \* bounds the text

(* One byte, or a first byte and those that continue it (UTF-8).           *)
Character(c) ==
  /\ c \in Seq(STRING) /\ c # << >>
  /\ \/ Len(c) = 1 /\ c[1] \notin {"lead", "cont", "none"}
     \/ c[1] = "lead" /\ \A k \in 2 .. Len(c) : c[k] = "cont"

ASSUME EditorAssumption ==
  /\ MaxChars \in Nat \ {0}
  /\ \A c \in Chars : Character(c)

VARIABLES open,      \* the document is in the map
          source,    \* its text, as the characters typed
          shown      \* the position of the diagnostic shown, or NoDiagnostic

evars == <<open, source, shown>>

NoDiagnostic == [line |-> -1, character |-> -1]

Bytes(cs) == FlattenSeq(cs)
Source == Bytes(source)

-----------------------------------------------------------------------------
(* Positions: lines from 0, columns in bytes from 0.                       *)

CharStarts(s) == { i \in 0 .. Len(s) - 1 : Byte(s, i) # "cont" }
Boundaries(s) == CharStarts(s) \cup {Len(s)}

LineOf(s, o) == Cardinality({ i \in 0 .. o - 1 : Byte(s, i) = "\n" })
LineStart(s, o) ==
  LET newlines == { i \in 0 .. o - 1 : Byte(s, i) = "\n" }
  IN  IF newlines = {} THEN 0 ELSE Max(newlines) + 1

OffsetToPosition(s, o) == [line |-> LineOf(s, o), character |-> o - LineStart(s, o)]

(* Mutant: the line starts at its newline.                                 *)
PositionToOffset_FromNewline(s, p) ==
  LET found == { i \in CharStarts(s) :
                   /\ LineOf(s, i) = p.line
                   /\ i - (IF p.line = 0 THEN 0 ELSE LineStart(s, i) - 1) >= p.character }
  IN  IF found = {} THEN Len(s) ELSE Min(found)

(* The first character of the line at or behind the column.                *)
PositionToOffset(s, p) ==
  LET found == { i \in CharStarts(s) : LineOf(s, i) = p.line /\ i - LineStart(s, i) >= p.character }
  IN  IF found = {} THEN Len(s) ELSE Min(found)

(* The word around an offset, [from, to).                                  *)
WordAt(s, o) ==
  [from |-> CHOOSE i \in 0 .. o : /\ \A k \in i .. o - 1 : Byte(s, k) \in Word
                                  /\ i > 0 => Byte(s, i - 1) \notin Word,
   to |-> Run(s, o, Word)]

-----------------------------------------------------------------------------
(* collect_comments: a scan of its own that knows strings and comments     *)
(* only.                                                                   *)

(* Mutant: a quote behind a backslash ends the string.                     *)
StringEnd_Unescaped(s, from) ==
  LET end[i \in 0 .. Len(s) + 1] ==
        IF Byte(s, i) \in {Quote, "none"} THEN i + 1 ELSE end[i + 1]
  IN  end[from]

StringEnd(s, from) ==
  LET end[i \in 0 .. Len(s) + 1] ==
        IF Byte(s, i) \in {Quote, "none"} THEN i + 1
        ELSE IF Byte(s, i) = "\\" THEN end[i + 2] ELSE end[i + 1]
  IN  end[from]

Comments(s) ==
  LET scan[i \in 0 .. Len(s) + 2] ==
        IF Byte(s, i) = "none" THEN << >>
        ELSE IF StartsComment(s, i) THEN <<[at |-> i, end |-> LineEnd(s, i)]>> \o scan[LineEnd(s, i)]
        ELSE IF Byte(s, i) = Quote THEN scan[StringEnd(s, i + 1)]
        ELSE scan[i + 1]
  IN  scan[0]

(* Mutant: in the order they were collected in.                            *)
Raw_Unsorted(s) ==
  [i \in DOMAIN Comments(s) |-> Comments(s)[i].at]
    \o [i \in DOMAIN Tokenize(s) |-> Tokenize(s)[i].at]

(* compute_semantic_tokens: comments first, then what the declarations     *)
(* give, here any token; sorted by offset: the k-th has k - 1 before it.   *)
Raw(s) ==
  LET ats == { t.at : t \in ToSet(Comments(s)) \cup ToSet(Tokenize(s)) }
  IN  [k \in 1 .. Cardinality(ats) |->
         CHOOSE x \in ats : Cardinality({ y \in ats : y < x }) = k - 1]

(* delta_encode, on unsigned integers                                      *)
Deltas(s, raw) ==
  LET pos(i) == IF i = 0 THEN [line |-> 0, character |-> 0] ELSE OffsetToPosition(s, raw[i])
  IN  [i \in DOMAIN raw |->
         LET line == pos(i).line - pos(i - 1).line
         IN  [line |-> line,
              start |-> IF line = 0 THEN pos(i).character - pos(i - 1).character
                        ELSE pos(i).character]]

-----------------------------------------------------------------------------
(* Of a text that does not lex, the diagnostic is at the error.            *)
Diagnostic(s) ==
  IF Lexes(s) THEN NoDiagnostic
  ELSE OffsetToPosition(s, Tokenize(s)[Len(Tokenize(s))].at)

EInit == open = FALSE /\ source = << >> /\ shown = NoDiagnostic

DidOpen == /\ ~open
           /\ open' = TRUE
           /\ \E c \in {<< >>} \cup { <<c>> : c \in Chars } :
                source' = c /\ shown' = Diagnostic(Bytes(c))

(* The text is sent whole; of several changes the last one counts.         *)
DidChange == /\ open /\ Len(source) < MaxChars
             /\ \E c \in Chars :
                  /\ source' = Append(source, c)
                  /\ shown' = Diagnostic(Bytes(Append(source, c)))
             /\ UNCHANGED open

(* Mutant: what was shown of the document stays.                           *)
DidClose_StillShown == open /\ open' = FALSE /\ source' = << >> /\ UNCHANGED shown

DidClose == open /\ open' = FALSE /\ source' = << >> /\ shown' = NoDiagnostic

ENext == DidOpen \/ DidChange \/ DidClose

ESpec == EInit /\ [][ENext]_evars

-----------------------------------------------------------------------------
(* The shape of the state: a closed document has no text and shows nothing.*)
EditorTypeOK ==
  /\ open \in BOOLEAN
  /\ source \in UNION { [1 .. n -> Chars] : n \in 0 .. MaxChars }
  /\ shown = NoDiagnostic \/ (shown.line \in Nat /\ shown.character \in Nat)
  /\ ~open => source = << >> /\ shown = NoDiagnostic

(* Whatever the client sends and whatever is in a string, a comment or an  *)
(* error, no offset the server slices its text at is inside a character:   *)
(* a slice there ends the server (error.rs, position.rs,                   *)
(* semantic_tokens.rs).                                                    *)
NothingInsideACharacter ==
  LET s == Source
      spans == ToSet(Tokenize(s)) \cup ToSet(Comments(s))
      asked == { PositionToOffset(s, [line |-> l, character |-> c]) :
                   l \in 0 .. LineOf(s, Len(s)) + 1, c \in 0 .. Len(s) + 1 }
      words == { WordAt(s, o) : o \in asked }
  IN  asked \cup { t.at : t \in spans } \cup { t.end : t \in spans }
        \cup { w.from : w \in words } \cup { w.to : w \in words } \subseteq Boundaries(s)

(* The two conversions between offsets and positions undo each other: a    *)
(* request at a place the server reported is answered for that place, at   *)
(* the ends of lines and of the text too.                                  *)
PositionsRoundTrip ==
  \A o \in Boundaries(Source) :
    PositionToOffset(Source, OffsetToPosition(Source, o)) = o

(* Where the lexer skips a comment: outside its tokens, and not in a       *)
(* comment that began before.                                              *)
LexedComments(s) ==
  LET inToken(i) == \E t \in ToSet(Tokenize(s)) : t.at <= i /\ i < t.end
      starts == { i \in 0 .. Len(s) - 1 : StartsComment(s, i) /\ ~inToken(i) }
  IN  { i \in starts : \A k \in starts : k < i => LineEnd(s, k) <= i }

(* The scan that colours comments (semantic_tokens.rs) knows neither       *)
(* operators nor names, and yet of a text that lexes it finds the comments *)
(* the lexer skips: a # in a string, after an escaped quote or behind      *)
(* another comment's start is none.                                        *)
CommentsAgree ==
  Lexes(Source) => { c.at : c \in ToSet(Comments(Source)) } = LexedComments(Source)

(* What a client reads back from the deltas.                               *)
Decoded(deltas) ==
  LET pos[i \in 0 .. Len(deltas)] ==
        IF i = 0 THEN [line |-> 0, character |-> 0]
        ELSE [line |-> pos[i - 1].line + deltas[i].line,
              character |-> deltas[i].start + IF deltas[i].line = 0 THEN pos[i - 1].character ELSE 0]
  IN  [i \in DOMAIN deltas |-> pos[i]]

(* No delta wraps around below 0, and the client that adds them up gets    *)
(* every token where it is, comments between the declarations' tokens      *)
(* included (delta_encode subtracts unsigned integers).                    *)
DeltasDecode ==
  LET deltas == Deltas(Source, Raw(Source))
  IN  Lexes(Source) =>
        /\ \A i \in DOMAIN deltas : deltas[i].line >= 0 /\ deltas[i].start >= 0
        /\ Decoded(deltas) = [i \in DOMAIN deltas |-> OffsetToPosition(Source, Raw(Source)[i])]
=============================================================================
