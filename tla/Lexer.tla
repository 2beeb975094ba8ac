------------------------------- MODULE Lexer --------------------------------
(***************************************************************************)
(* The tokenizer of wirespec-syntax/src/lexer.rs. A text is its sequence   *)
(* of bytes; offsets count from 0, as in the code. Of a token its kind and *)
(* its span [at, end) are kept: a keyword is a name, and an integer has no *)
(* value, so that none is too large.                                       *)
(*                                                                         *)
(* A byte is the character it stands for; the two bytes of a character     *)
(* that is not ASCII are "lead" and "cont".                                *)
(***************************************************************************)
EXTENDS Integers, Sequences

Space == {" ", "\t", "\n"}
Digits == {"0", "1", "9"}
HexDigits == Digits \cup {"a", "b"}
Letters == {"a", "b", "n", "t", "x"}
Word == Letters \cup Digits \cup {"_"}
Quote == "\""
Escaped == {"n", "t", "\\", Quote}

Marks == {"{", "}", "(", ")", "[", "]", ";", ",", "*", "%", "^", "@", ":", ".",
          "-", "=", "+", "!", "<", ">", "&", "|", "/", "~"}
Singles == { <<c>> : c \in Marks }
Longer == { <<":", ":">>, <<".", ".">>, <<".", ".", "=">>, <<"-", ">">>, <<"=", ">">>, <<"=", "=">>,
            <<"+", "=">>, <<"!", "=">>, <<"<", "=">>, <<"<", "<">>, <<"<", "-">>, <<">", "=">>,
            <<">", ">">>, <<"~", ">">>, <<"?", "?">> }
Operators == Singles \cup Longer

Byte(s, i) == IF i < Len(s) THEN s[i + 1] ELSE "none"

(* Where the bytes of S that start at i end.                               *)
Run(s, i, S) ==
  CHOOSE j \in i .. Len(s) : (\A k \in i .. j - 1 : Byte(s, k) \in S) /\ Byte(s, j) \notin S

LineEnd(s, i) ==
  CHOOSE j \in i .. Len(s) : (\A k \in i .. j - 1 : Byte(s, k) # "\n") /\ Byte(s, j) \in {"\n", "none"}

StartsComment(s, i) == Byte(s, i) = "#" \/ (Byte(s, i) = "/" /\ Byte(s, i + 1) = "/")

(* skip_whitespace_and_comments                                            *)
Skip(s, from) ==
  LET skip[i \in 0 .. Len(s)] ==
        IF Byte(s, i) \in Space THEN skip[i + 1]
        ELSE IF StartsComment(s, i) THEN skip[LineEnd(s, i)] ELSE i
  IN  skip[from]

Token(kind, at, end) == [kind |-> kind, at |-> at, end |-> end]
Error(at) == [kind |-> "error", at |-> at, end |-> at]

(* Mutant: the error is at the byte behind the one that is unknown.        *)
LexString_ErrorBehind(s, start) ==
  LET str[j \in 0 .. Len(s)] ==
        IF Byte(s, j) = "none" THEN Error(start)
        ELSE IF Byte(s, j) = Quote THEN Token("string", start, j + 1)
        ELSE IF Byte(s, j) # "\\" THEN str[j + 1]
        ELSE IF Byte(s, j + 1) = "none" THEN Error(start)
        ELSE IF Byte(s, j + 1) \in Escaped THEN str[j + 2]
        ELSE Error(j + 2)
  IN  str[start + 1]

LexString(s, start) ==
  LET str[j \in 0 .. Len(s)] ==
        IF Byte(s, j) = "none" THEN Error(start)
        ELSE IF Byte(s, j) = Quote THEN Token("string", start, j + 1)
        ELSE IF Byte(s, j) # "\\" THEN str[j + 1]
        ELSE IF Byte(s, j + 1) = "none" THEN Error(start)
        ELSE IF Byte(s, j + 1) \in Escaped THEN str[j + 2]
        ELSE Error(j + 1)
  IN  str[start + 1]

(* lex_hex and lex_binary: a digit has to follow the prefix.               *)
LexRadix(s, start, digits) ==
  IF Byte(s, start + 2) \notin digits THEN Error(start)
  ELSE Token("integer", start, Run(s, start + 2, digits \cup {"_"}))

(* The longest operator that starts at i.                                  *)
LexOperator(s, i) ==
  LET here == { o \in Operators : \A k \in DOMAIN o : Byte(s, i + k - 1) = o[k] }
  IN  IF here = {} THEN Error(i)
      ELSE LET o == CHOOSE x \in here : \A y \in here : Len(y) <= Len(x)
           IN  Token("operator", i, i + Len(o))

NextToken(s, i) ==
  IF Byte(s, i) = Quote THEN LexString(s, i)
  ELSE IF Byte(s, i) = "0" /\ Byte(s, i + 1) = "x" THEN LexRadix(s, i, HexDigits)
  ELSE IF Byte(s, i) = "0" /\ Byte(s, i + 1) = "b" THEN LexRadix(s, i, {"0", "1"})
  ELSE IF Byte(s, i) \in Digits THEN Token("integer", i, Run(s, i, Digits \cup {"_"}))
  ELSE IF Byte(s, i) \in Letters \cup {"_"} THEN Token("name", i, Run(s, i, Word))
  ELSE LexOperator(s, i)

(* tokenize: the tokens, up to the first error, which comes last.          *)
Tokenize(s) ==
  LET from[i \in 0 .. Len(s)] ==
        LET j == Skip(s, i)
        IN  IF j = Len(s) THEN << >>
            ELSE LET t == NextToken(s, j)
                 IN  IF t.kind = "error" THEN <<t>> ELSE <<t>> \o from[t.end]
  IN  from[0]

Lexes(s) == \A i \in DOMAIN Tokenize(s) : Tokenize(s)[i].kind # "error"
=============================================================================
