-------------------------------- MODULE Scanner --------------------------------
(***************************************************************************)
(* The scanner of src/src/parsing/scanner.rs: where tokens begin and end.  *)
(*                                                                         *)
(* Text is a sequence of pieces: a word and a run of digits are one piece  *)
(* each, every other character is a piece of its own; Numbers gives the    *)
(* value of the runs of digits, so that hexadecimal, octal and binary      *)
(* numbers, exponents and separators in numbers are left out, and of the   *)
(* escapes in strings those that give a character by its code.  A token is *)
(* a tuple of its type, which is its text for keywords and operators, and  *)
(* its literal.  The literal of a string or template is the sequence of    *)
(* its pieces.                                                             *)
(*                                                                         *)
(* Whether a line ends before a token is recorded by the scanner and asked *)
(* by no one; so it is left out, and so are positions.                     *)
(***************************************************************************)
EXTENDS Ast, SequencesExt, TLC

CONSTANT Numbers   \* the values of the runs of digits

Keywords ==
  {"if", "else", "function", "return", "var", "let", "const", "class", "extends", "async", "await", "yield", "try",
   "catch", "finally", "for", "while", "do", "switch", "case", "default", "break", "continue", "new", "this", "super",
   "delete", "typeof", "void", "instanceof", "in", "of", "import", "export", "throw", "debugger", "with", "using",
   "static", "null", "true", "false"}

Operators ==
  {".", "...", "?", "?.", "??", "??=", "(", ")", "[", "]", "{", "}", ":", ";", ",", "~", "=", "==", "===", "=>",
   "+", "++", "+=", "-", "--", "-=", "*", "**", "**=", "*=", "/", "/=", "%", "%=", "!", "!=", "!==",
   "<", "<<", "<<=", "<=", ">", ">>", ">>>", ">>>=", ">>=", ">=", "&", "&&", "&&=", "&=", "|", "||", "||=", "|=", "^", "^="}
Backtick == "@"   \* which a string of TLA+ cannot hold
Marks == UNION {{SubSeq(o, i, i) : i \in 1..Len(o)} : o \in Operators} \cup {"#", "'", "\"", Backtick, "\\", "$", " ", "\n"}
Blanks == {" ", "\n"}

CompoundOps ==
  [op \in {"+", "-", "*", "/", "%", "**", "<<", ">>", ">>>", "&", "|", "^", "??", "&&", "||"} |-> op \o "="]
AssignmentOps == {"="} \cup Range(CompoundOps)

(* Token::precedence *)
Levels ==
  <<{}, AssignmentOps, {"??", "?"}, {"||"}, {"&&"}, {"|"}, {"^"}, {"&"}, {"==", "!=", "===", "!=="},
    {"<", "<=", ">", ">=", "instanceof", "in"}, {"<<", ">>", ">>>"}, {"+", "-"}, {"*", "/", "%"}, {"**"}>>
Infix == UNION Range(Levels)
Precedence == [op \in Infix |-> CHOOSE n \in DOMAIN Levels : op \in Levels[n]]

-----------------------------------------------------------------------------
(* A scanner has its text, the place of the next piece, the braces that    *)
(* are open, for each template the braces that were open before it, and    *)
(* the token it found.                                                     *)

Piece(s, k) == IF s.at + k <= Len(s.text) THEN s.text[s.at + k] ELSE ""
Past(s, n) == [s EXCEPT !.at = @ + n]
Found(s, token) == [s EXCEPT !.token = token]
IsWord(piece) == piece \notin Marks \cup {""} \cup DOMAIN Numbers

RECURSIVE Behind(_, _)   \* the next place of these pieces, or the end of the text
Behind(s, pieces) ==
  IF s.at > Len(s.text) THEN s
  ELSE IF \A i \in DOMAIN pieces : Piece(s, i - 1) = pieces[i] THEN Past(s, Len(pieces))
  ELSE Behind(Past(s, 1), pieces)

RECURSIVE SkipBlanks(_)   \* skip_whitespace_and_comments
SkipBlanks(s) ==
  IF Piece(s, 0) \in Blanks THEN SkipBlanks(Past(s, 1))
  ELSE IF Piece(s, 0) = "/" /\ Piece(s, 1) = "/" THEN SkipBlanks(Behind(Past(s, 2), <<"\n">>))
  ELSE IF Piece(s, 0) = "/" /\ Piece(s, 1) = "*" THEN SkipBlanks(Behind(Past(s, 2), <<"*", "/">>))
  ELSE s

RECURSIVE NumberFrom(_, _)
NumberFrom(s, digits) ==
  IF Piece(s, 0) \in DOMAIN Numbers \cup {"."} THEN NumberFrom(Past(s, 1), Append(digits, Piece(s, 0)))
  ELSE IF Piece(s, 0) = "n" THEN Found(Past(s, 1), <<"BigInt", digits>>)
  ELSE Found(s, <<"Number", digits>>)

(* An escape stands before a piece of one character.                       *)
Escaped(piece) == IF piece = "n" THEN "\n" ELSE IF piece = "t" THEN "\t" ELSE piece
RECURSIVE StringFrom(_, _, _)
StringFrom(s, quote, literal) ==
  LET c == Piece(s, 0)
  IN IF c = "" THEN Found(s, <<"Illegal">>)
     ELSE IF c = quote THEN Found(Past(s, 1), <<"String", literal>>)
     ELSE IF c = "\\" THEN StringFrom(Past(s, 2), quote, Append(literal, Escaped(Piece(s, 1))))
     ELSE StringFrom(Past(s, 1), quote, Append(literal, c))

(* A template up to its end, or to an expression in it; behind a brace     *)
(* that ends the expression it goes on.                                    *)
RECURSIVE TemplateFrom(_, _)
TemplateFrom(s, literal) ==
  LET c == Piece(s, 0)
  IN IF c = "" THEN Found(s, <<"Illegal">>)
     ELSE IF c = Backtick THEN Found(Past(s, 1), <<"TemplateTail", literal>>)
     ELSE IF c = "$" /\ Piece(s, 1) = "{"
     THEN Found([Past(s, 2) EXCEPT !.templates = Append(@, s.braces)], <<"TemplateSpan", literal>>)
     ELSE TemplateFrom(Past(s, 1), Append(literal, c))

(* scan_operator: the longest operator there is.                           *)
Longest(s) ==
  LET one == Piece(s, 0)
      two == one \o Piece(s, 1)
      three == two \o Piece(s, 2)
      four == three \o Piece(s, 3)
  IN IF four \in Operators THEN four ELSE IF three \in Operators THEN three
     ELSE IF two \in Operators THEN two ELSE IF one \in Operators THEN one ELSE ""

ClosesTemplate(s) == s.templates # <<>> /\ Last(s.templates) = s.braces
OperatorFrom(s) ==
  LET op == Longest(s)
      next == Found(Past(s, Len(op)), <<op>>)
  IN CASE op = "" -> Found(Past(s, 1), <<"Illegal">>)
       [] op = "{" -> [next EXCEPT !.braces = @ + 1]
       [] op = "}" /\ ClosesTemplate(s) -> TemplateFrom([next EXCEPT !.templates = Front(@)], <<>>)
       [] op = "}" /\ ~ClosesTemplate(s) -> [next EXCEPT !.braces = IF @ > 0 THEN @ - 1 ELSE 0]
       [] OTHER -> next

NextToken(p) ==
  LET s == SkipBlanks(p)
      c == Piece(s, 0)
  IN CASE c = "" -> Found(s, <<"Eos">>)
       [] c = "#" -> IF IsWord(Piece(s, 1)) THEN Found(Past(s, 2), <<"Identifier", "#" \o Piece(s, 1), "private">>)
                     ELSE Found(Past(s, 1), <<"Illegal">>)
       [] c \in DOMAIN Numbers \/ (c = "." /\ Piece(s, 1) \in DOMAIN Numbers) -> NumberFrom(Past(s, 1), <<c>>)
       [] c \in {"'", "\""} -> StringFrom(Past(s, 1), c, <<>>)
       [] c = Backtick -> TemplateFrom(Past(s, 1), <<>>)
       [] IsWord(c) -> Found(Past(s, 1), IF c \in Keywords THEN <<c>> ELSE <<"Identifier", c>>)
       [] OTHER -> OperatorFrom(s)

(* scan_regexp_body_and_flags, behind the slash the parser met where an    *)
(* expression begins.                                                      *)
RECURSIVE RegExpFrom(_, _, _)
RegExpFrom(s, pattern, inClass) ==
  LET c == Piece(s, 0)
      Take(n, class) == RegExpFrom(Past(s, n), pattern \o SubSeq(s.text, s.at, s.at + n - 1), class)
  IN IF c \in {"", "\n"} THEN Found(s, <<"Illegal">>)
     ELSE IF c = "/" /\ ~inClass
     THEN IF IsWord(Piece(s, 1)) THEN Found(Past(s, 2), <<"RegExp", pattern, Piece(s, 1)>>)
          ELSE Found(Past(s, 1), <<"RegExp", pattern, "">>)
     ELSE IF c = "\\" THEN Take(2, inClass)
     ELSE Take(1, c = "[" \/ (inClass /\ c # "]"))
=============================================================================
