--------------------------- MODULE PatternParser ---------------------------
(***************************************************************************)
(* LogFormatter::parsePattern_ (srcs/logger/LogFormatter.cpp): a pattern   *)
(* such as "%d{%H:%M} [%p] %m%n" is cut into format items, literals and    *)
(* keys with an optional text in braces.                                   *)
(*                                                                         *)
(* A pattern is a sequence of characters; one step is one pass through the *)
(* switch of the loop, which reads a whole literal or a whole text in      *)
(* braces.  pos is i + 1.  The factory of the items                        *)
(* (srcs/logger/FormatItemImpl.hpp) looks a key up in a table and          *)
(* dereferences what it finds, which is undefined for a key that is not    *)
(* there: result is "undefined" then and nothing more is said.             *)
(***************************************************************************)
EXTENDS Integers, Sequences

CONSTANTS
  Characters,  \* what patterns and messages are made of
  Patterns,    \* the patterns that are given to the constructor
  Keys         \* the keys of getFormatItemFactoryMap()

(* A brace is no key.                                                      *)
ASSUME PatternsAssumption ==
  /\ Patterns \subseteq Seq(Characters)
  /\ Keys \subseteq Characters \ {"{"}

VARIABLES
  pattern,  \* pattern_
  pos,      \* the position of the loop
  state,    \* the ParseState
  items,    \* formatItemList_
  asserts,  \* assert() is compiled in: either build, for good
  result    \* what parsePattern_ returned, "parsing" before that

parser == <<pattern, pos, state, items, asserts, result>>

Literal(text)   == [kind |-> "literal", key |-> "", text |-> text]
Key(key, text)  == [kind |-> "key", key |-> key, text |-> text]

(* The first position from which ch is found, or one past the end.         *)
Find(ch, from) ==
  CHOOSE e \in from .. Len(pattern) + 1 :
    /\ e <= Len(pattern) => pattern[e] = ch
    /\ \A j \in from .. e - 1 : pattern[j] # ch

ParserInit ==
  /\ pattern \in Patterns
  /\ pos = 1 /\ state = "NORMAL" /\ items = << >>
  /\ asserts \in BOOLEAN
  /\ result = "parsing"

InLoop(st) == result = "parsing" /\ pos <= Len(pattern) /\ state = st

(* case NORMAL: a literal, up to the next '%' or the end.                  *)
Normal ==
  /\ InLoop("NORMAL")
  /\ LET end == Find("%", pos)
     IN  /\ items' = IF end > pos THEN Append(items, Literal(SubSeq(pattern, pos, end - 1)))
                                  ELSE items
         /\ state' = IF end > Len(pattern) THEN "NORMAL" ELSE "PATTERN"
         /\ pos' = end + 1
  /\ UNCHANGED <<pattern, asserts, result>>

(* createKeyFormatItem: of all items only the one for the date takes the   *)
(* text in braces, for the others it is dropped.                           *)
AddKey(key, text) ==
  IF key \in Keys
  THEN /\ items' = Append(items, Key(key, IF key = "d" THEN text ELSE << >>))
       /\ UNCHANGED result
  ELSE result' = "undefined" /\ UNCHANGED items

BraceFollows == pos < Len(pattern) /\ pattern[pos + 1] = "{"

(* case PATTERN: the key stands alone ...                                  *)
PatternKey ==
  /\ InLoop("PATTERN")
  /\ ~BraceFollows
  /\ AddKey(pattern[pos], << >>)
  /\ state' = "NORMAL" /\ pos' = pos + 1
  /\ UNCHANGED <<pattern, asserts>>

(* ... or a brace follows, and is skipped along with the key.              *)
PatternBrace ==
  /\ InLoop("PATTERN")
  /\ BraceFollows
  /\ state' = "SUBPATTERN" /\ pos' = pos + 2
  /\ UNCHANGED <<pattern, items, asserts, result>>

SubpatternDropsBrace ==
  /\ InLoop("SUBPATTERN")
  /\ LET end == Find("}", pos)
     IN  IF end > Len(pattern)
         THEN result' = "-1" /\ UNCHANGED <<pos, state, items>>
         ELSE /\ AddKey(pattern[pos - 2], SubSeq(pattern, pos, end - 1))
              /\ state' = "NORMAL" /\ pos' = end
  /\ UNCHANGED <<pattern, asserts>>

SubpatternUnterminated ==
  /\ InLoop("SUBPATTERN")
  /\ LET end == Find("}", pos)
     IN  /\ AddKey(pattern[pos - 2], SubSeq(pattern, pos, end - 1))
         /\ state' = "NORMAL" /\ pos' = end + 1
  /\ UNCHANGED <<pattern, asserts>>

SubpatternWithoutReturn ==
  /\ InLoop("SUBPATTERN")
  /\ LET end == Find("}", pos)
     IN  IF end > Len(pattern)
         THEN UNCHANGED <<pos, state, items, result>>
         ELSE /\ AddKey(pattern[pos - 2], SubSeq(pattern, pos, end - 1))
              /\ state' = "NORMAL" /\ pos' = end + 1
  /\ UNCHANGED <<pattern, asserts>>

(* case SUBPATTERN: the text up to the closing brace, for the key two      *)
(* places back.                                                            *)
Subpattern ==
  /\ InLoop("SUBPATTERN")
  /\ LET end == Find("}", pos)
     IN  IF end > Len(pattern)
         THEN result' = "-1" /\ UNCHANGED <<pos, state, items>>
         ELSE /\ AddKey(pattern[pos - 2], SubSeq(pattern, pos, end - 1))
              /\ state' = "NORMAL" /\ pos' = end + 1
  /\ UNCHANGED <<pattern, asserts>>

(* After the loop: a pattern that ends behind a '%' or an opening brace    *)
(* fails the assertion, or is taken for complete where there is none.      *)
Finish ==
  /\ result = "parsing"
  /\ pos > Len(pattern)
  /\ result' = IF asserts /\ state # "NORMAL" THEN "abort" ELSE "0"
  /\ UNCHANGED <<pattern, pos, state, items, asserts>>

Parse == Normal \/ PatternKey \/ PatternBrace \/ Subpattern \/ Finish
-----------------------------------------------------------------------------
Items == [kind : {"literal", "key"}, key : Keys \union {""}, text : Seq(Characters)]

ParserTypeOK ==
  /\ pattern \in Patterns
  /\ pos \in 1 .. Len(pattern) + 2
  /\ state \in {"NORMAL", "PATTERN", "SUBPATTERN"}
  /\ items \in Seq(Items)
  /\ asserts \in BOOLEAN
  /\ result \in {"parsing", "0", "-1", "abort", "undefined"}

(* pattern_[i - 2] is inside the pattern, and is the character between the *)
(* '%' and the opening brace that the parser has gone past.                *)
EscapeInPattern ==
  state = "SUBPATTERN" =>
    pos \in 4 .. Len(pattern) + 1 /\ pattern[pos - 3] = "%" /\ pattern[pos - 1] = "{"

(* In the same way the parser is behind a '%' in state PATTERN.            *)
PercentBefore ==
  state = "PATTERN" => pos \in 2 .. Len(pattern) + 1 /\ pattern[pos - 1] = "%"

ParserInv == ParserTypeOK /\ EscapeInPattern /\ PercentBefore
=============================================================================
