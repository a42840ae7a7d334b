--------------------------- MODULE MCLogFormatter ---------------------------
(* LogFormatter for TLC: all short patterns over an alphabet that has      *)
(* everything the parser distinguishes, and a few longer ones.             *)
EXTENDS LogFormatter

FactoryKeys == {"m", "p", "c", "r", "f", "l", "t", "N", "T", "n", "%", "d"}

Alphabet == {"%", "{", "}", "d", "m", "x"}

ShortPatterns == UNION {[1 .. n -> Alphabet] : n \in 0 .. 5}

LongPatterns ==
  { <<"%", "d", "{", "x", "}", "%", "d">>,                          \* two date formats
    <<"%", "d", "%", "m", "%", "d", "{", "}">>,                     \* one, written twice
    <<"%", "d", "{", "x", "x", "x", "}", "%", "m">>,                \* one that does not fit
    <<"[", "%", "p", "]", "%", "T", "%", "m", "%", "m", "%", "n">>,
    <<"%", "%", "{", "x", "}", "%", "m", "{", "%", "d">> }

SomePatterns == ShortPatterns \union LongPatterns

(* DEFAULT_LOG_PATTERN without the blanks and brackets between directives. *)
DefaultPattern ==
  <<"%", "d", "{", "%", "Y", "}", "%", "r", "m", "s", "%", "t", "%", "T", "%", "N", "%", "T",
    "%", "F", "%", "T", "%", "p", "%", "T", "%", "c", "%", "f", "%", "l", "%", "m", "%", "n">>

TheDefault == {DefaultPattern}

AllCharacters ==
  Alphabet \union FactoryKeys \union {"[", "]", "Y", "r", "s", "F", "a", "b"}

SomeMessages == {<< >>, <<"a", "b">>}
=============================================================================
