------------------------------ MODULE SqlText ------------------------------
(***************************************************************************)
(* How the lexemes of a query are written as characters, and the tokens    *)
(* they are in SQL.  This is the reference for the lexer, not a            *)
(* translation of code.                                                    *)
(***************************************************************************)
EXTENDS Lexer

CONSTANT
    Spelling    \* the lexemes of several characters, with their characters

\* A lexeme, with the quotes it is written in, if any.
Lexemes   == [quote : {"", "'", "\""}, text : STRING]
Word(v)   == [quote |-> "", text |-> v]
Quoted(v) == [quote |-> "'", text |-> v]
Named(v)  == [quote |-> "\"", text |-> v]

\* A way of writing: what stands between two lexemes (<<>>: a space where two
\* lexemes would run together), and whether words are in small letters.
Style(between, small) == [between |-> between, small |-> small]

Characters(v) == IF v \in DOMAIN Spelling THEN Spelling[v] ELSE <<v>>

Small(c) ==
    IF c \in Range(Capitals) THEN CHOOSE s \in DOMAIN Capitals : Capitals[s] = c ELSE c

\* A quote in a string is doubled.
Doubled(chars) ==
    FlattenSeq([i \in DOMAIN chars |-> IF chars[i] = "'" THEN <<"'", "'">> ELSE <<chars[i]>>])

WrittenAs(lexeme, small) ==
    LET chars == Characters(lexeme.text)
    IN  CASE lexeme.quote = "'"  -> <<"'">> \o Doubled(chars) \o <<"'">>
          [] lexeme.quote = "\"" -> <<"\"">> \o chars \o <<"\"">>
          [] OTHER -> [i \in DOMAIN chars |-> IF small THEN Small(chars[i]) ELSE chars[i]]

\* Two characters of different lexemes that need something between them.
RunTogether(c, d) ==
    \/ {c, d} \cap (Marks \cup Spaces) = {}
    \/ <<c, d>> \in Pairs \cup {<<"-", "-">>, <<"/", "*">>, <<"'", "'">>, <<"\"", "\"">>}
    \/ c \in Digits /\ d = "."
    \/ c = "." /\ d \in Digits

TextOf(lexemes, style) ==
    LET written == [i \in DOMAIN lexemes |-> WrittenAs(lexemes[i], style.small)]
        between(c, d) == IF style.between # <<>> THEN style.between
                         ELSE IF RunTogether(c, d) THEN <<" ">> ELSE <<>>
    IN  FlattenSeq([i \in DOMAIN lexemes |->
            IF i = 1 THEN written[i]
            ELSE between(Last(written[i - 1]), Head(written[i])) \o written[i]])

TokenOf(lexeme) ==
    LET v == lexeme.text
    IN  Token(CASE lexeme.quote = "'"  -> "STRING"
                [] lexeme.quote = "\"" -> "IDENTIFIER"
                [] lexeme.quote = ""   ->
                     IF v \in Keywords THEN "KEYWORD"
                     ELSE IF v \in Symbols THEN "SYMBOL"
                     ELSE IF v \in Operators \cup {"!="} THEN "OPERATOR"
                     ELSE IF Characters(v)[1] \in Digits THEN "NUMBER"
                     ELSE "IDENTIFIER",
              v)

\* What the characters of a lexeme can be.
IsNumber(chars) ==
    /\ Len(chars) \in 1 .. 3 /\ chars[1] \in Digits
    /\ Len(chars) > 1 => chars[2] = "."
    /\ Len(chars) > 2 => chars[3] \in Digits
WellSpelt(lexeme) ==
    LET chars == Characters(lexeme.text)
        type  == TokenOf(lexeme).type
    IN  /\ lexeme \in Lexemes /\ chars \in Seq(STRING) /\ Spelt(chars) = lexeme.text
        /\ lexeme.quote = "\"" => "\"" \notin Range(chars)
        /\ lexeme.quote = "" =>
             CASE type \in {"KEYWORD", "IDENTIFIER"} ->
                    /\ chars # <<>> /\ chars[1] \notin Digits
                    /\ Range(chars) \cap (Marks \cup Spaces \cup DOMAIN Capitals) = {}
               [] type = "NUMBER" -> IsNumber(chars)
               [] OTHER -> \/ chars = <<lexeme.text>> /\ lexeme.text \in Marks
                           \/ chars \in Pairs /\ type = "OPERATOR"

\* What can stand between two lexemes: nothing, a space or a comment.
IsComment(b) ==
    /\ Len(b) >= 4 /\ b[1] = "/" /\ b[2] = "*"
    /\ \A j \in 3 .. Len(b) - 1 : b[j] = "*" /\ b[j + 1] = "/" <=> j = Len(b) - 1
IsRemark(b) ==
    /\ Len(b) >= 4 /\ b[1] = " " /\ b[2] = "-" /\ b[3] = "-"
    /\ \A j \in 4 .. Len(b) : b[j] = "\n" <=> j = Len(b)
IsStyle(style) ==
    /\ style \in [between : Seq(STRING), small : BOOLEAN]
    /\ style.between \in {<<>>, <<" ">>} \/ IsComment(style.between) \/ IsRemark(style.between)
=============================================================================
