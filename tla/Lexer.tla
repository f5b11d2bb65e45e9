------------------------------- MODULE Lexer -------------------------------
(***************************************************************************)
(* The lexer of the SQL compiler, tokenize_query in src/src/sql-compiler/  *)
(* Lexer.cpp: what it reads at a position of the query string, and where   *)
(* it goes on.                                                             *)
(*                                                                         *)
(* A text is a sequence of characters.  A run of letters (or underscores)  *)
(* and a run of digits count as one character.                             *)
(***************************************************************************)
EXTENDS Naturals, Sequences, SequencesExt

CONSTANTS
    Digits,     \* the runs of digits
    Capitals    \* runs of small letters and the same in capitals, a function

Spaces == {" ", "\n"}
Marks  == {"'", "\"", "-", "/", "*", "<", ">", "=", "!", ":", "|", "%", "+",
           "(", ")", ",", ".", ";", "[", "]", "?"}
IsLetters(c) == c \notin Spaces \cup Marks \cup Digits

ASSUME CharactersAssumption ==
    /\ Digits \subseteq STRING \ (Marks \cup Spaces)
    /\ DOMAIN Capitals \cup Range(Capitals) \subseteq STRING \ (Marks \cup Spaces \cup Digits)
    /\ DOMAIN Capitals \cap Range(Capitals) = {}

Keywords == {
    "SELECT", "FROM", "WHERE", "INSERT", "UPDATE", "DELETE", "CREATE", "TABLE",
    "VALUES", "INTO", "DISTINCT", "ORDER", "GROUP", "BY", "HAVING", "OFFSET",
    "INNER", "LEFT", "OUTER", "RIGHT", "FULL", "JOIN", "ON", "USING", "SET",
    "ALTER", "DROP", "TRUNCATE", "PRIMARY", "FOREIGN", "KEY", "UNIQUE", "CHECK",
    "DEFAULT", "NOT", "NULL", "BEGIN", "TRANSACTION", "COMMIT", "ROLLBACK",
    "SAVEPOINT", "AS", "IN", "IS", "BETWEEN", "EXISTS", "ANY", "ALL", "WITH",
    "EXCEPT", "UNION", "CAST", "CASE", "WHEN", "THEN", "ELSE", "END", "ASC",
    "DESC", "LIMIT", "CROSS", "NATURAL", "LIKE", "TRUE", "FALSE", "AND", "OR",
    "NULLS"}
Operators == {"<>", "<=", ">=", "::", "||", "=", ">", "<", "/", "%", "+", "-"}
Symbols   == {"(", ")", ",", ".", ";", "", "*", "[", "]"}
Pairs     == {<<"<", ">">>, <<"<", "=">>, <<">", "=">>, <<"!", "=">>, <<":", ":">>, <<"|", "|">>}

Token(type, value) == [type |-> type, value |-> value]
Unexpected         == Token("unexpected", "")       \* the exception

\* Everything is put in capitals first, string literals and quoted names too.
Upper(c) == IF c \in DOMAIN Capitals THEN Capitals[c] ELSE c

Spelt(chars) ==
    LET Word[n \in 0 .. Len(chars)] == IF n = 0 THEN "" ELSE Word[n - 1] \o chars[n]
    IN  Word[Len(chars)]

\* What is read at a position: the tokens, one or none, and the next position.
Skip(at)              == [at |-> at, tokens |-> <<>>]
Emit(at, type, value) == [at |-> at, tokens |-> <<Token(type, value)>>]

-----------------------------------------------------------------------------
(* The branches of the loop, at position i of the text t *)

\* The first position from i on with one of these characters, or the end.
Until(t, i, stops) ==
    CHOOSE end \in i .. Len(t) + 1 :
        /\ end <= Len(t) => t[end] \in stops
        /\ \A j \in i .. end - 1 : t[j] \notin stops

\* A comment that is not closed goes to the end of the text.
LineComment(t, i) == Skip(Until(t, i, {"\n"}))
BlockComment(t, i) ==
    LET ends == {j \in i + 2 .. Len(t) - 1 : t[j] = "*" /\ t[j + 1] = "/"}
    IN  Skip(IF ends = {} THEN Len(t) + 1 ELSE Min(ends) + 2)

Name(t, i) ==
    LET end  == Until(t, i, Spaces \cup Marks)
        word == Spelt(SubSeq(t, i, end - 1))
    IN  Emit(end, IF word \in Keywords THEN "KEYWORD" ELSE "IDENTIFIER", word)

Number(t, i) ==
    LET digits(j) == IF j <= Len(t) /\ t[j] \in Digits THEN j + 1 ELSE j
        whole == digits(i)
        end   == IF whole <= Len(t) /\ t[whole] = "." THEN digits(whole + 1) ELSE whole
    IN  Emit(end, "NUMBER", Spelt(SubSeq(t, i, end - 1)))

\* Faulty variant: a doubled quote ends the string.
StringLiteralSingle(t, i) ==
    LET end == Until(t, i + 1, {"'"})
    IN  Emit(IF end <= Len(t) THEN end + 1 ELSE end, "STRING",
             Spelt(SubSeq(t, i + 1, end - 1)))

\* What is left of a string from position j on, and where it ends.  A doubled
\* quote is one quote; a string that is not closed goes to the end of the text.
StringFrom(S, t, j) ==
    CASE j > Len(t) -> [at |-> Len(t) + 1, chars |-> <<>>]
      [] j <= Len(t) /\ t[j] # "'" -> [S[j + 1] EXCEPT !.chars = <<t[j]>> \o @]
      [] j < Len(t) /\ t[j] = "'" /\ t[j + 1] = "'" -> [S[j + 2] EXCEPT !.chars = <<"'">> \o @]
      [] OTHER -> [at |-> j + 1, chars |-> <<>>]
Strings(t) == LET S[j \in 1 .. Len(t) + 2] == StringFrom(S, t, j) IN S

StringLiteral(t, i) ==
    LET string == Strings(t)[i + 1] IN Emit(string.at, "STRING", Spelt(string.chars))

QuotedName(t, i) ==
    LET end == Until(t, i + 1, {"\""})
    IN  Emit(IF end <= Len(t) THEN end + 1 ELSE end, "IDENTIFIER",
             Spelt(SubSeq(t, i + 1, end - 1)))

Mark(t, i) ==
    CASE t[i] \in Symbols   -> Emit(i + 1, "SYMBOL", t[i])
      [] t[i] \in Operators -> Emit(i + 1, "OPERATOR", t[i])
      [] OTHER              -> [at |-> Len(t) + 1, tokens |-> <<Unexpected>>]

Lexeme(t, i) ==
    LET c    == t[i]
        pair == IF i < Len(t) THEN <<c, t[i + 1]>> ELSE <<c>>
    IN  CASE c \in Spaces         -> Skip(i + 1)
          [] pair = <<"-", "-">>  -> LineComment(t, i)
          [] pair = <<"/", "*">>  -> BlockComment(t, i)
          [] IsLetters(c)         -> Name(t, i)
          [] c \in Digits         -> Number(t, i)
          [] c = "'"              -> StringLiteral(t, i)
          [] c = "\""             -> QuotedName(t, i)
          [] pair \in Pairs       -> Emit(i + 2, "OPERATOR", Spelt(pair))
          [] OTHER                -> Mark(t, i)

\* The tokens from a position on; after an unexpected character there are none.
TokensFrom(F, t, i) ==
    IF i > Len(t) THEN <<>> ELSE LET next == Lexeme(t, i) IN next.tokens \o F[next.at]
Tokens(t) == LET From[i \in 1 .. Len(t) + 1] == TokensFrom(From, t, i) IN From

Tokenized(text) == Tokens(<<>> \o [i \in DOMAIN text |-> Upper(text[i])])[1]
=============================================================================
