---------------------------- MODULE LogFormatter ----------------------------
(***************************************************************************)
(* LogFormatter (srcs/logger/LogFormatter.cpp) and its format items        *)
(* (srcs/logger/FormatItemImpl.hpp): the constructor parses the pattern,   *)
(* then a thread formats one record after the other into an InlineBuffer,  *)
(* item by item.                                                           *)
(*                                                                         *)
(* What is printed is a sequence of tokens: a character of a literal or of *)
(* a message, a field of the record, or a date.  The fields whose text     *)
(* does not matter are a token each.  A date token is what strftime makes  *)
(* of a second and a format, as far as it fits into cachedDatetime.        *)
(*                                                                         *)
(* The constructor is not in the repository; formatItemList_ is private    *)
(* and parsePattern_ the only code that fills it.                          *)
(***************************************************************************)
EXTENDS PatternParser, SequencesExt

CONSTANTS
  INLINE_CAPACITY,  \* MAX_FORMATTED_RECORD_INLINE_CAPACITY, 256 in the code
  DateCapacity,     \* how long a format may be for its date to fit, 32 bytes of text in the code
  Messages,         \* the messages of records, as sequences of characters
  MaxSecond,        \* bound: the last second at which a record is made
  NoRecord          \* nothing is being formatted

(* The program runs after 1970.                                            *)
Records == [message : Messages, sec : 1 .. MaxSecond]

(* A key is one character, and the default date format is made of some.    *)
ASSUME ConstantsAssumption ==
  /\ INLINE_CAPACITY \in Nat /\ DateCapacity \in Nat
  /\ Messages \subseteq Seq(Characters) /\ {"%", "Y"} \subseteq Characters
  /\ MaxSecond \in Nat
  /\ NoRecord \notin Records
  /\ "date" \notin Keys

VARIABLES
  record,   \* the record that is being formatted
  printed,  \* how many of the items have been printed
  buf,      \* the buffer that format() returns
  lastSec,  \* lastSec of this thread
  cached    \* cachedDatetime of this thread

vars == <<parser, record, printed, buf, lastSec, cached>>

Tokens == [field : Keys \union {"", "char", "date", "unspecified"}, sec : Nat, text : Seq(Characters)]

Char(c)           == [field |-> "char", sec |-> 0, text |-> <<c>>]
Field(key)        == [field |-> key, sec |-> 0, text |-> << >>]
Date(sec, format) == [field |-> "date", sec |-> sec, text |-> format]

(* strftime leaves the array unspecified if the date does not fit.         *)
Unspecified == Field("unspecified")

Chars(text) == [j \in DOMAIN text |-> Char(text[j])]

Buf == INSTANCE InlineBuffer WITH Bytes <- Tokens

DEFAULT_DATE_FORMAT == <<"%", "Y">>

dateFormat(item) == IF item.text = << >> THEN DEFAULT_DATE_FORMAT ELSE item.text

(* What the items without a state append for a record; the item for the    *)
(* level computes the text and does not append it.                         *)
Plain(item, rec) ==
  CASE item.kind = "literal" -> Chars(item.text)
    [] item.key = "m"        -> Chars(rec.message)
    [] item.key = "p"        -> << >>
    [] OTHER                 -> <<Field(item.key)>>

IsDate(item) == item.kind = "key" /\ item.key = "d"

Init ==
  /\ ParserInit
  /\ record = NoRecord /\ printed = 0 /\ buf = Buf!EmptyBuffer
  /\ lastSec = 0 /\ cached = << >>

Constructor == Parse /\ UNCHANGED <<record, printed, buf, lastSec, cached>>

Complete == record # NoRecord /\ printed = Len(items)

(* format() is called, with an empty buffer.                               *)
FormatCall ==
  /\ result \in {"0", "-1"}
  /\ record = NoRecord \/ Complete
  /\ record' \in Records
  /\ printed' = 0 /\ buf' = Buf!EmptyBuffer
  /\ UNCHANGED <<parser, lastSec, cached>>

Printing == record # NoRecord /\ printed < Len(items)

FormatPlain ==
  /\ Printing
  /\ LET item == items[printed + 1]
     IN  /\ ~IsDate(item)
         /\ buf' = Buf!append(buf, Plain(item, record))
  /\ printed' = printed + 1
  /\ UNCHANGED <<parser, record, lastSec, cached>>

FormatDateOnce ==
  /\ Printing
  /\ LET item == items[printed + 1]
     IN  /\ IsDate(item)
         /\ cached' = IF cached # << >> THEN cached ELSE <<Date(record.sec, dateFormat(item))>>
         /\ buf' = Buf!append(buf, cached')
  /\ lastSec' = record.sec
  /\ printed' = printed + 1
  /\ UNCHANGED <<parser, record>>

(* The date is computed once in a second, by whichever item comes first.   *)
FormatDate ==
  /\ Printing
  /\ LET item   == items[printed + 1]
         format == dateFormat(item)
     IN  /\ IsDate(item)
         /\ cached' = IF record.sec = lastSec THEN cached
                      ELSE IF Len(format) <= DateCapacity THEN <<Date(record.sec, format)>>
                      ELSE <<Unspecified>>
         /\ buf' = Buf!append(buf, cached')
  /\ lastSec' = record.sec
  /\ printed' = printed + 1
  /\ UNCHANGED <<parser, record>>

Next == Constructor \/ FormatCall \/ FormatPlain \/ FormatDate

(* The constructor runs to its end.                                        *)
Fairness == WF_vars(Constructor)

Spec     == Init /\ [][Next]_vars
FairSpec == Spec /\ Fairness
-----------------------------------------------------------------------------
TypeOK ==
  /\ ParserTypeOK
  /\ record \in Records \union {NoRecord}
  /\ printed \in 0 .. Len(items)
  /\ Buf!BufferOK(buf)
  /\ lastSec \in 0 .. MaxSecond
  /\ cached \in Seq(Tokens)

(* Reference: p spells the item behind b up to e.  A literal is everything *)
(* up to the next '%' or the end of p, and has no '%' in it; a key is one  *)
(* of the table, with the text of the braces that follow it if it is %d.   *)
SpeltBy(item, p, b, e) ==
  \/ /\ item.kind = "literal" /\ b < e
     /\ item.text = SubSeq(p, b + 1, e)
     /\ \A j \in b + 1 .. e : p[j] # "%"
     /\ e < Len(p) => p[e + 1] = "%"
  \/ /\ item.kind = "key" /\ b + 2 <= e
     /\ p[b + 1] = "%" /\ p[b + 2] = item.key /\ item.key \in Keys
     /\ \/ /\ e = b + 2 /\ item.text = << >>
           /\ e < Len(p) => p[e + 1] # "{"
        \/ /\ b + 4 <= e /\ p[b + 3] = "{" /\ p[e] = "}"
           /\ \A j \in b + 4 .. e - 1 : p[j] # "}"
           /\ item.text = IF item.key = "d" THEN SubSeq(p, b + 4, e - 1) ELSE << >>

(* How far into p the items can reach, one behind the other.               *)
Reached(p, item, from) == {e \in 1 .. Len(p) : \E b \in from : SpeltBy(item, p, b, e)}

EndsOf(p, seq) ==
  LET ends[k \in 0 .. Len(seq)] == IF k = 0 THEN {0} ELSE Reached(p, seq[k], ends[k - 1])
  IN  ends[Len(seq)]

(* The items are those that the pattern spells as far as it has been read, *)
(* and to its end when it is accepted: no character is dropped, doubled or *)
(* read into the wrong item, but for what braces behind another directive  *)
(* than %d hold, which createSimpleFormatItem ignores.                     *)
NothingLost ==
  state = "NORMAL" /\ result \in {"parsing", "0"} =>
    (IF pos <= Len(pattern) THEN pos - 1 ELSE Len(pattern)) \in EndsOf(pattern, items)

(* Reference: the grammar in the comment of LogFormatter.h.  The table has *)
(* its directives but for the fiber id; a pair of braces belongs to %d     *)
(* only.  The verdict on the rest of the pattern from j on, with v for the *)
(* positions behind j, is "good" or "bad", or "disputed" where the code    *)
(* departs from the comment: at a %F, and at a brace behind a directive    *)
(* other than %d, an ordinary character there that the code takes for the  *)
(* beginning of a text.                                                    *)
Directives == Keys \union {"F"}

VerdictAt(v, j) ==
  LET n           == Len(pattern)
      BraceBehind == j + 2 <= n /\ pattern[j + 2] = "{"
      closing     == Find("}", j + 3)
  IN  IF j > n THEN "good"
      ELSE IF pattern[j] # "%" THEN v[j + 1]
      ELSE IF j = n \/ pattern[j + 1] \notin Directives THEN "bad"
      ELSE IF pattern[j + 1] \notin Keys \/ (BraceBehind /\ pattern[j + 1] # "d") THEN "disputed"
      ELSE IF ~BraceBehind THEN v[j + 2]
      ELSE IF closing > n THEN "bad" ELSE v[closing + 1]

VerdictFrom[j \in 1 .. Len(pattern) + 1] == VerdictAt(VerdictFrom, j)

Verdict == VerdictFrom[1]

Accepted == result = "0" /\ state = "NORMAL"

(* A pattern is accepted if and only if it is one by LogFormatter.h, up to *)
(* the first place that is disputed.  Without assertions parsePattern_     *)
(* also returns 0 for one that breaks off behind a '%' or an opening       *)
(* brace, but not in state NORMAL.                                         *)
AcceptsWellFormed ==
  result # "parsing" /\ Verdict # "disputed" => (Accepted <=> Verdict = "good")

(* The constructor comes to an end whatever the pattern.                   *)
ParseEnds == <>(result # "parsing")

(* All dates of the pattern have one format, and it fits.                  *)
OneDateFormat ==
  \A j, k \in DOMAIN items :
    IsDate(items[j]) /\ IsDate(items[k]) =>
      dateFormat(items[j]) = dateFormat(items[k]) /\ Len(dateFormat(items[j])) <= DateCapacity

Expected(item, rec) ==
  IF IsDate(item) THEN <<Date(rec.sec, dateFormat(item))>> ELSE Plain(item, rec)

ExpectedOf(seq, rec) ==
  LET of[k \in 0 .. Len(seq)] == IF k = 0 THEN << >> ELSE of[k - 1] \o Expected(seq[k], rec)
  IN  of[Len(seq)]

(* With one date format the buffer holds what the items stand for, in      *)
(* order, across the move to the heap and whatever was formatted before.   *)
OutputAsPattern ==
  record # NoRecord /\ OneDateFormat =>
    Buf!view(buf) = ExpectedOf(SubSeq(items, 1, printed), record)

(* Whatever the formats, no record is printed with the date of another     *)
(* second: the cache may give it the format of another item at most.       *)
DateOfThisSecond ==
  record # NoRecord =>
    \A t \in Range(Buf!view(buf)) : t.field = "date" => t.sec = record.sec
-----------------------------------------------------------------------------
(* The inductive invariant behind DateOfThisSecond: the cached date is the *)
(* one of lastSec, whatever its format.                                    *)
DateInv ==
  /\ ParserInv /\ TypeOK
  /\ \A j \in DOMAIN cached : cached[j].field = "date" => cached[j].sec = lastSec
  /\ DateOfThisSecond

(* How much of the pattern the items stand for: not the '%', the key and   *)
(* the brace that the parser has gone past and made no item of.            *)
Settled ==
  (IF pos <= Len(pattern) THEN pos - 1 ELSE Len(pattern))
    - (IF state = "NORMAL" THEN 0 ELSE IF state = "PATTERN" THEN 1 ELSE 3)

(* The inductive invariant behind NothingLost: it holds in every state of  *)
(* the parser, for that part.                                              *)
SpelledInv ==
  /\ ParserInv
  /\ result \in {"parsing", "0"} => Settled \in EndsOf(pattern, items)

(* The inductive invariant behind AcceptsWellFormed: what has been settled *)
(* does not matter unless it is disputed, the verdict is that on the rest. *)
AcceptInv ==
  /\ ParserInv
  /\ result = "parsing" /\ Verdict # "disputed" => Verdict = VerdictFrom[Settled + 1]
  /\ AcceptsWellFormed

(* The inductive invariant behind OutputAsPattern: nothing is formatted    *)
(* before the items are complete, and then the cache holds what every item *)
(* for a date stands for in the second lastSec.                            *)
OutputInv ==
  /\ DateInv
  /\ result = "parsing" => record = NoRecord /\ lastSec = 0
  /\ OneDateFormat /\ lastSec # 0 =>
       \A j \in DOMAIN items :
         IsDate(items[j]) => cached = <<Date(lastSec, dateFormat(items[j]))>>
  /\ OutputAsPattern
-----------------------------------------------------------------------------
(* What LogFormatter.h and LoggerImpl.hpp say and the code does not do.    *)

(* The directives listed at LogFormatter.h:22 and used by                  *)
(* DEFAULT_LOG_PATTERN at LoggerImpl.hpp:22 are known to the factory.      *)
DirectivesKnown == result # "undefined"
=============================================================================
