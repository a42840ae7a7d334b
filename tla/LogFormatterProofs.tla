-------------------------- MODULE LogFormatterProofs --------------------------
(* Proofs about LogFormatter, for any patterns, keys, messages and         *)
(* capacities.                                                             *)
EXTENDS LogFormatter, SequenceTheorems, WellFoundedInduction, TLAPS

-----------------------------------------------------------------------------
(* The buffer.                                                             *)

(* An append adds its bytes behind those that were there, whether or not   *)
(* they move to the heap, and does not overrun the array.                  *)
LEMMA AppendToBuffer ==
  ASSUME NEW b, Buf!BufferOK(b), NEW s \in Seq(Tokens)
  PROVE  /\ Buf!BufferOK(Buf!append(b, s))
         /\ Buf!view(Buf!append(b, s)) = Buf!view(b) \o s
         /\ Buf!view(b) \in Seq(Tokens)
<1> USE DEF Buf!BufferOK, Buf!Buffer
<1>1. b.smallBuffer \in Seq(Tokens) /\ b.overflow \in Seq(Tokens) /\ b.size \in Nat
  OBVIOUS
<1>2. SubSeq(b.smallBuffer, 1, Len(b.smallBuffer)) = b.smallBuffer
      /\ SubSeq(b.overflow, 1, Len(b.overflow)) = b.overflow
  BY <1>1
<1>3. Buf!view(b) = IF b.overflow = << >> THEN b.smallBuffer ELSE b.overflow
  BY <1>2 DEF Buf!view, Buf!data
<1>4. CASE s = << >>
  <2>1. Buf!view(b) \o s = Buf!view(b)
    BY <1>1, <1>3, <1>4
  <2>2. QED
    BY <1>1, <1>3, <1>4, <2>1 DEF Buf!append
<1>5. CASE s # << >> /\ b.overflow = << >> /\ b.size + Len(s) <= INLINE_CAPACITY
  <2> DEFINE new == b.smallBuffer \o s
  <2>1. Buf!append(b, s) = [b EXCEPT !.smallBuffer = new, !.size = b.size + Len(s)]
    BY <1>2, <1>5 DEF Buf!append, Buf!AppendInline
  <2>2. new \in Seq(Tokens) /\ Len(new) = b.size + Len(s) /\ SubSeq(new, 1, Len(new)) = new
    <3>1. b.size = Len(b.smallBuffer)
      BY <1>5
    <3>2. new \in Seq(Tokens) /\ Len(new) = Len(b.smallBuffer) + Len(s)
      BY <1>1
    <3>3. SubSeq(new, 1, Len(new)) = new
      BY <3>2
    <3>4. QED
      BY <3>1, <3>2, <3>3
  <2> HIDE DEF new
  <2>3. Buf!append(b, s) = [smallBuffer |-> new, overflow |-> << >>, size |-> Len(new)]
    BY <1>5, <2>1, <2>2
  <2>4. Buf!BufferOK(Buf!append(b, s))
    BY <1>5, <2>2, <2>3
  <2>5. Buf!view(Buf!append(b, s)) = new
    BY <2>2, <2>3 DEF Buf!view, Buf!data
  <2>6. QED
    BY <1>1, <1>3, <1>5, <2>4, <2>5 DEF new
<1>6. CASE s # << >> /\ ~ (b.overflow = << >> /\ b.size + Len(s) <= INLINE_CAPACITY)
  <2> DEFINE heap == Buf!view(b) \o s
  <2>1. heap \in Seq(Tokens) /\ heap # << >> /\ SubSeq(heap, 1, Len(heap)) = heap
    BY <1>1, <1>3, <1>6
  <2>2. (IF b.overflow = << >> THEN SubSeq(b.smallBuffer, 1, b.size) \o s ELSE b.overflow \o s) = heap
    BY <1>2, <1>3
  <2>3. Buf!append(b, s) = [b EXCEPT !.overflow = heap, !.size = Len(heap)]
    BY <1>6, <2>2 DEF Buf!append, Buf!AppendOverflow
  <2> HIDE DEF heap
  <2>4. Buf!append(b, s) = [smallBuffer |-> b.smallBuffer, overflow |-> heap, size |-> Len(heap)]
    BY <2>3
  <2>5. Buf!BufferOK(Buf!append(b, s))
    BY <1>1, <2>1, <2>4
  <2>6. Buf!view(Buf!append(b, s)) = heap
    BY <2>1, <2>4 DEF Buf!view, Buf!data
  <2>7. QED
    BY <1>1, <1>3, <2>5, <2>6 DEF heap
<1>7. QED
  BY <1>4, <1>5, <1>6

LEMMA NewBuffer ==
  ConstantsAssumption => Buf!BufferOK(Buf!EmptyBuffer) /\ Buf!view(Buf!EmptyBuffer) = << >>
BY DEF Buf!BufferOK, Buf!Buffer, Buf!EmptyBuffer, Buf!view, Buf!data, ConstantsAssumption
-----------------------------------------------------------------------------
(* The parser.                                                             *)

(* A search ends inside the pattern at what was looked for, or behind its  *)
(* end, and has not gone past it.                                          *)
LEMMA FindFacts ==
  ASSUME NEW ch, pattern \in Seq(Characters), NEW from \in 1 .. Len(pattern) + 1
  PROVE  /\ Find(ch, from) \in from .. Len(pattern) + 1
         /\ Find(ch, from) <= Len(pattern) => pattern[Find(ch, from)] = ch
         /\ \A j \in from .. Find(ch, from) - 1 : pattern[j] # ch
<1> DEFINE S == {e \in from .. Len(pattern) + 1 : e <= Len(pattern) => pattern[e] = ch}
<1>1. S \subseteq Nat /\ Len(pattern) + 1 \in S
  OBVIOUS
<1>2. PICK k \in S : \A j \in S : ~ (<<j, k>> \in OpToRel(<, Nat))
  BY <1>1, WFMin, NatLessThanWellFounded
<1>3. \A j \in S : ~ (j < k)
  BY <1>1, <1>2 DEF OpToRel
<1>4. \A j \in from .. k - 1 : pattern[j] # ch
  <2> SUFFICES ASSUME NEW j \in from .. k - 1, pattern[j] = ch
               PROVE  FALSE
    OBVIOUS
  <2>1. j \in S /\ j < k
    BY <1>1
  <2>2. QED
    BY <1>3, <2>1
<1>5. \E e \in from .. Len(pattern) + 1 :
        /\ e <= Len(pattern) => pattern[e] = ch
        /\ \A j \in from .. e - 1 : pattern[j] # ch
  BY <1>4
<1>6. QED
  BY <1>5 DEF Find

LEMMA InitParserInv == ParserInit => ParserInv
<1> SUFFICES ASSUME ParserInit PROVE ParserInv
  OBVIOUS
<1>1. pattern \in Seq(Characters)
  BY PatternsAssumption DEF ParserInit
<1>2. Len(pattern) \in Nat /\ << >> \in Seq(Items)
  BY <1>1
<1>3. QED
  BY <1>2 DEF ParserInit, ParserInv, ParserTypeOK, EscapeInPattern, PercentBefore

(* A literal or key that is cut out of the pattern is an item.             *)
LEMMA ItemType ==
  ASSUME ParserTypeOK, NEW from \in Int, NEW to \in Int, 1 <= from, to <= Len(pattern)
  PROVE  /\ Literal(SubSeq(pattern, from, to)) \in Items
         /\ \A key \in Keys : Key(key, SubSeq(pattern, from, to)) \in Items
<1>1. pattern \in Seq(Characters)
  BY PatternsAssumption DEF ParserTypeOK
<1>2. SubSeq(pattern, from, to) \in Seq(Characters)
  BY <1>1
<1>3. QED
  BY <1>2 DEF Literal, Key, Items

LEMMA AddKeyType ==
  ASSUME ParserTypeOK, NEW key, NEW text \in Seq(Characters), AddKey(key, text)
  PROVE  items' \in Seq(Items) /\ result' \in {"parsing", "0", "-1", "abort", "undefined"}
<1>1. CASE key \in Keys
  <2> DEFINE kept == IF key = "d" THEN text ELSE << >>
  <2>k. kept \in Seq(Characters)
    <3>1. << >> \in Seq(Characters)
      OBVIOUS
    <3>2. QED
      BY <3>1, Zenon
  <2>1. Key(key, kept) \in Items
    <3> HIDE DEF kept
    <3>1. QED
      BY <1>1, <2>k DEF Key, Items
  <2>2. QED
    BY <1>1, <2>1 DEF AddKey, ParserTypeOK
<1>2. CASE key \notin Keys
  BY <1>2 DEF AddKey, ParserTypeOK
<1>3. QED
  BY <1>1, <1>2

LEMMA ParseParserInv ==
  ASSUME ParserInv, Parse
  PROVE  ParserInv'
<1>1. pattern \in Seq(Characters)
  BY PatternsAssumption DEF ParserInv, ParserTypeOK
<1>n. Len(pattern) \in Nat /\ pos \in Nat /\ pos >= 1
  <2>1. Len(pattern) \in Nat
    BY <1>1
  <2>2. QED
    BY <2>1 DEF ParserInv, ParserTypeOK
<1>2. CASE Normal
  <2> DEFINE end == Find("%", pos)
  <2>1. pos \in 1 .. Len(pattern) + 1
    BY <1>n, <1>2 DEF Normal, InLoop
  <2>2. end \in pos .. Len(pattern) + 1 /\ (end <= Len(pattern) => pattern[end] = "%")
    BY <1>1, <2>1, FindFacts
  <2>3. Literal(SubSeq(pattern, pos, end - 1)) \in Items
    BY <1>n, <2>2, ItemType DEF ParserInv
  <2> HIDE DEF end
  <2>4. /\ items' = IF end > pos THEN Append(items, Literal(SubSeq(pattern, pos, end - 1))) ELSE items
        /\ state' = IF end > Len(pattern) THEN "NORMAL" ELSE "PATTERN"
        /\ pos' = end + 1
        /\ UNCHANGED <<pattern, asserts, result>>
    BY <1>2 DEF Normal, end
  <2>5. items' \in Seq(Items)
    BY <2>3, <2>4 DEF ParserInv, ParserTypeOK
  <2>6. ParserTypeOK'
    BY <1>n, <2>2, <2>4, <2>5 DEF ParserInv, ParserTypeOK
  <2>7. EscapeInPattern' /\ PercentBefore'
    BY <1>n, <2>1, <2>2, <2>4 DEF EscapeInPattern, PercentBefore
  <2>8. QED
    BY <2>6, <2>7 DEF ParserInv
<1>3. CASE PatternKey
  <2>1. << >> \in Seq(Characters)
    OBVIOUS
  <2>2. items' \in Seq(Items) /\ result' \in {"parsing", "0", "-1", "abort", "undefined"}
    BY <1>3, <2>1, AddKeyType DEF PatternKey, ParserInv
  <2>3. QED
    BY <1>n, <1>3, <2>2 DEF PatternKey, InLoop, ParserInv, ParserTypeOK, EscapeInPattern, PercentBefore
<1>4. CASE PatternBrace
  <2>1. state = "PATTERN" /\ pos < Len(pattern) /\ pattern[pos + 1] = "{"
    BY <1>4 DEF PatternBrace, BraceFollows, InLoop
  <2>2. pos >= 2 /\ pattern[pos - 1] = "%"
    <3>1. state = "PATTERN"
      BY <2>1
    <3>2. pos \in 2 .. Len(pattern) + 1 /\ pattern[pos - 1] = "%"
      BY <3>1 DEF ParserInv, PercentBefore
    <3>3. QED
      BY <1>n, <3>2
  <2>3. /\ state' = "SUBPATTERN" /\ pos' = pos + 2
        /\ UNCHANGED <<pattern, items, asserts, result>>
    BY <1>4 DEF PatternBrace
  <2>4. pos' \in 4 .. Len(pattern) + 1 /\ pos' - 3 = pos - 1 /\ pos' - 1 = pos + 1
    <3>1. pos < Len(pattern)
      BY <2>1
    <3>2. pos >= 2
      BY <2>2
    <3>3. QED
      BY <1>n, <2>3, <3>1, <3>2
  <2>5. ParserTypeOK'
    BY <1>n, <2>3, <2>4 DEF ParserInv, ParserTypeOK
  <2>6. EscapeInPattern' /\ PercentBefore'
    BY <2>1, <2>2, <2>3, <2>4 DEF EscapeInPattern, PercentBefore
  <2>7. QED
    BY <2>5, <2>6 DEF ParserInv
<1>5. CASE Subpattern
  <2> DEFINE end == Find("}", pos)
  <2>1. pos <= Len(pattern)
    BY <1>5 DEF Subpattern, InLoop
  <2>2. pos \in 1 .. Len(pattern) + 1
    BY <1>n, <2>1
  <2>3. end \in pos .. Len(pattern) + 1
    BY <1>1, <2>2, FindFacts
  <2> HIDE DEF end
  <2>4. SubSeq(pattern, pos, end - 1) \in Seq(Characters)
    <3>1. 1 <= pos /\ end - 1 <= Len(pattern) /\ end - 1 \in Int /\ pos \in Int
      BY <1>n, <2>3
    <3>2. QED
      BY <1>1, <3>1
  <2>5. CASE end > Len(pattern)
    BY <1>5, <2>5 DEF Subpattern, end, ParserInv, ParserTypeOK, EscapeInPattern, PercentBefore
  <2>6. CASE ~ (end > Len(pattern))
    <3>1. AddKey(pattern[pos - 2], SubSeq(pattern, pos, end - 1))
      BY <1>5, <2>6 DEF Subpattern, end
    <3>2. items' \in Seq(Items) /\ result' \in {"parsing", "0", "-1", "abort", "undefined"}
      BY <2>4, <3>1, AddKeyType DEF ParserInv
    <3>3. state' = "NORMAL" /\ pos' = end + 1 /\ UNCHANGED <<pattern, asserts>>
      BY <1>5, <2>6 DEF Subpattern, end
    <3>4. pos' \in 1 .. Len(pattern) + 2
      BY <1>n, <2>3, <3>3
    <3>5. ParserTypeOK'
      BY <3>2, <3>3, <3>4 DEF ParserInv, ParserTypeOK
    <3>6. QED
      BY <3>3, <3>5 DEF ParserInv, EscapeInPattern, PercentBefore
  <2>7. QED
    BY <2>5, <2>6
<1>6. CASE Finish
  BY <1>6 DEF Finish, ParserInv, ParserTypeOK, EscapeInPattern, PercentBefore
<1>7. QED
  BY <1>2, <1>3, <1>4, <1>5, <1>6 DEF Parse

LEMMA StepParserInv ==
  ASSUME ParserInv, [Next]_vars
  PROVE  ParserInv'
<1>1. CASE UNCHANGED parser
  BY <1>1 DEF parser, ParserInv, ParserTypeOK, EscapeInPattern, PercentBefore
<1>2. QED
  BY <1>1, ParseParserInv DEF Next, Constructor, FormatCall, FormatPlain, FormatDate, vars

(* The parser reads no character that is not in the pattern: the key that  *)
(* it looks up two places behind an opening brace is the one after a '%'.  *)
THEOREM ParserInvHolds == Spec => []ParserInv
<1>1. Init => ParserInv
  BY InitParserInv DEF Init
<1>2. ParserInv /\ [Next]_vars => ParserInv'
  BY StepParserInv
<1>3. QED
  BY <1>1, <1>2, PTL DEF Spec
(* Every pass of the parser moves forward in the pattern or returns, which *)
(* leaves no more than Len(pattern) + 2 of them: what ParseEnds rests on.  *)
THEOREM ParserMovesOn ==
  Spec => [][result = "parsing" => pos' > pos \/ result' # "parsing"]_parser
<1>1. ASSUME ParserInv, [Next]_vars
      PROVE  [result = "parsing" => pos' > pos \/ result' # "parsing"]_parser
  <2>1. pattern \in Seq(Characters) /\ Len(pattern) \in Nat /\ pos \in Nat /\ pos >= 1
    <3>1. pattern \in Seq(Characters)
      BY <1>1, PatternsAssumption DEF ParserInv, ParserTypeOK
    <3>2. Len(pattern) \in Nat
      BY <3>1
    <3>3. QED
      BY <1>1, <3>1, <3>2 DEF ParserInv, ParserTypeOK
  <2>2. ASSUME NEW ch, pos <= Len(pattern)
        PROVE  Find(ch, pos) + 1 > pos
    <3>1. pos \in 1 .. Len(pattern) + 1
      BY <2>1, <2>2
    <3>2. Find(ch, pos) \in pos .. Len(pattern) + 1
      BY <2>1, <3>1, FindFacts
    <3>3. QED
      BY <2>1, <3>2
  <2>3. CASE Normal
    BY <2>2, <2>3 DEF Normal, InLoop
  <2>4. CASE PatternKey \/ PatternBrace
    BY <2>1, <2>4 DEF PatternKey, PatternBrace
  <2>5. CASE Subpattern
    BY <2>2, <2>5 DEF Subpattern, InLoop
  <2>6. CASE Finish
    BY <2>6 DEF Finish
  <2>7. CASE UNCHANGED parser
    BY <2>7
  <2>8. QED
    BY <1>1, <2>3, <2>4, <2>5, <2>6, <2>7
       DEF Next, Constructor, Parse, FormatCall, FormatPlain, FormatDate, vars
<1>2. QED
  BY <1>1, ParserInvHolds, PTL DEF Spec
-----------------------------------------------------------------------------
(* Formatting.                                                             *)

(* What an item appends is tokens, none of them a date but for %d.         *)
LEMMA PlainType ==
  ASSUME NEW item \in Items, NEW rec \in Records
  PROVE  /\ Plain(item, rec) \in Seq(Tokens)
         /\ \A j \in DOMAIN Plain(item, rec) : Plain(item, rec)[j].field # "date"
<1>1. ASSUME NEW text \in Seq(Characters)
      PROVE  Chars(text) \in Seq(Tokens) /\ \A j \in DOMAIN Chars(text) : Chars(text)[j].field # "date"
  <2>1. \A j \in DOMAIN text : Char(text[j]) \in Tokens
    <3>1. \A j \in DOMAIN text : << text[j] >> \in Seq(Characters)
      OBVIOUS
    <3>2. QED
      BY <3>1 DEF Char, Tokens
  <2>2. Chars(text) \in [1 .. Len(text) -> Tokens] /\ Len(text) \in Nat
    BY <2>1 DEF Chars
  <2>3. Chars(text) \in Seq(Tokens)
    BY <2>2, SeqDef
  <2>4. QED
    BY <2>3 DEF Chars, Char
<1>2. item.text \in Seq(Characters) /\ item.key \in Keys \union {""} /\ item.key # "date"
  BY PatternsAssumption, ConstantsAssumption DEF Items
<1>3. rec.message \in Seq(Characters)
  BY ConstantsAssumption DEF Records
<1>4. << >> \in Seq(Tokens) /\ \A j \in DOMAIN << >> : FALSE
  OBVIOUS
<1>5. Field(item.key) \in Tokens /\ Field(item.key).field # "date"
  <2>1. << >> \in Seq(Characters)
    OBVIOUS
  <2>2. QED
    BY <1>2, <2>1 DEF Field, Tokens
<1>6. << Field(item.key) >> \in Seq(Tokens)
      /\ \A j \in DOMAIN << Field(item.key) >> : << Field(item.key) >>[j].field # "date"
  BY <1>5
<1>7. Plain(item, rec) \in {Chars(item.text), Chars(rec.message), << >>, << Field(item.key) >>}
  BY DEF Plain
<1>8. QED
  BY <1>1, <1>2, <1>3, <1>4, <1>6, <1>7

(* No item is taken away while the pattern is parsed.                      *)
LEMMA ParseType ==
  ASSUME ParserInv, TypeOK, Constructor
  PROVE  TypeOK'
<1>1. ParserTypeOK'
  BY ParseParserInv DEF Constructor, ParserInv
<1>2. items \in Seq(Items) /\ items' \in Seq(Items)
  BY <1>1 DEF ParserInv, ParserTypeOK
<1>3. items' = items \/ \E x : items' = Append(items, x)
  BY DEF Constructor, Parse, Normal, PatternKey, PatternBrace, Subpattern, Finish, AddKey
<1>4. Len(items') >= Len(items)
  BY <1>2, <1>3
<1>5. Len(items) \in Nat /\ Len(items') \in Nat
  BY <1>2
<1>6. printed' \in 0 .. Len(items')
  BY <1>4, <1>5 DEF TypeOK, Constructor
<1>7. QED
  BY <1>1, <1>6 DEF TypeOK, Constructor

(* Appending tokens without a date of another second keeps DateOfThisSecond. *)
LEMMA AppendDates ==
  ASSUME DateInv, record # NoRecord, NEW s \in Seq(Tokens), buf' = Buf!append(buf, s),
         UNCHANGED record,
         \A j \in DOMAIN s : s[j].field = "date" => s[j].sec = record.sec
  PROVE  Buf!BufferOK(buf') /\ DateOfThisSecond'
<1>1. /\ Buf!BufferOK(buf')
      /\ Buf!view(buf') = Buf!view(buf) \o s
      /\ Buf!view(buf) \in Seq(Tokens)
  BY AppendToBuffer DEF DateInv, TypeOK
<1>2. \A t \in Range(Buf!view(buf)) : t.field = "date" => t.sec = record.sec
  BY DEF DateInv, DateOfThisSecond
<1>3. Range(Buf!view(buf) \o s) = Range(Buf!view(buf)) \union Range(s)
  <2> DEFINE v == Buf!view(buf)
  <2>1. v \in Seq(Tokens) /\ s \in Seq(Tokens)
    BY <1>1
  <2> HIDE DEF v
  <2>2. \A i \in DOMAIN (v \o s) : (v \o s)[i] \in Range(v) \union Range(s)
    BY <2>1 DEF Range
  <2>3. \A i \in DOMAIN v : v[i] = (v \o s)[i] /\ i \in DOMAIN (v \o s)
    BY <2>1
  <2>4. \A i \in DOMAIN s : s[i] = (v \o s)[i + Len(v)] /\ i + Len(v) \in DOMAIN (v \o s)
    BY <2>1
  <2>5. Range(v \o s) = Range(v) \union Range(s)
    <3>1. Range(v \o s) \subseteq Range(v) \union Range(s)
      BY <2>2 DEF Range
    <3>2. Range(v) \subseteq Range(v \o s)
      BY <2>3 DEF Range
    <3>3. Range(s) \subseteq Range(v \o s)
      BY <2>4 DEF Range
    <3>4. QED
      BY <3>1, <3>2, <3>3
  <2>6. QED
    BY <2>5 DEF v
<1>4. \A t \in Range(Buf!view(buf')) : t.field = "date" => t.sec = record.sec
  BY <1>1, <1>2, <1>3 DEF Range
<1>5. QED
  BY <1>1, <1>4 DEF DateOfThisSecond

LEMMA StepDateInv ==
  ASSUME DateInv, [Next]_vars
  PROVE  DateInv'
<1>1. ParserInv'
  BY StepParserInv DEF DateInv
<1>2. CASE UNCHANGED vars
  BY <1>1, <1>2 DEF vars, parser, DateInv, TypeOK, ParserInv, DateOfThisSecond, Buf!BufferOK, Buf!Buffer,
                    Buf!view, Buf!data
<1>3. CASE Constructor
  <2>1. TypeOK'
    BY <1>3, ParseType DEF DateInv
  <2>2. DateOfThisSecond'
    BY <1>3 DEF Constructor, DateInv, DateOfThisSecond
  <2>3. QED
    BY <1>1, <1>3, <2>1, <2>2 DEF DateInv, Constructor
<1>4. CASE FormatCall
  <2>1. Buf!BufferOK(buf') /\ Buf!view(buf') = << >>
    BY <1>4, NewBuffer, ConstantsAssumption DEF FormatCall
  <2>2. DateOfThisSecond'
    BY <2>1 DEF DateOfThisSecond, Range
  <2>3. Len(items) \in Nat /\ items' = items
    BY <1>4 DEF FormatCall, parser, DateInv, ParserInv, ParserTypeOK
  <2>4. QED
    BY <1>1, <1>4, <2>1, <2>2, <2>3 DEF FormatCall, DateInv, TypeOK, ParserInv
<1>5. ASSUME Printing
      PROVE  /\ items[printed + 1] \in Items /\ record \in Records
             /\ printed + 1 \in 0 .. Len(items) /\ record.sec \in 1 .. MaxSecond
  <2>1. items \in Seq(Items) /\ Len(items) \in Nat
    BY DEF DateInv, ParserInv, ParserTypeOK
  <2>2. printed \in Nat /\ printed < Len(items)
    BY <1>5, <2>1 DEF Printing, DateInv, TypeOK
  <2>3. record \in Records
    BY <1>5 DEF Printing, DateInv, TypeOK
  <2>4. QED
    BY <2>1, <2>2, <2>3 DEF Records
<1>6. CASE FormatPlain
  <2> DEFINE s == Plain(items[printed + 1], record)
  <2>1. s \in Seq(Tokens) /\ \A j \in DOMAIN s : s[j].field # "date"
    BY <1>5, <1>6, PlainType DEF FormatPlain
  <2>2. buf' = Buf!append(buf, s) /\ record # NoRecord /\ UNCHANGED <<parser, record, lastSec, cached>>
    BY <1>6 DEF FormatPlain, Printing
  <2> HIDE DEF s
  <2>3. Buf!BufferOK(buf') /\ DateOfThisSecond'
    BY <2>1, <2>2, AppendDates
  <2>4. printed' \in 0 .. Len(items')
    BY <1>5, <1>6, <2>2 DEF FormatPlain, parser
  <2>5. QED
    BY <1>1, <2>2, <2>3, <2>4 DEF DateInv, TypeOK, ParserInv
<1>7. CASE FormatDate
  <2> DEFINE item == items[printed + 1]
  <2>1. /\ cached' \in Seq(Tokens)
        /\ \A j \in DOMAIN cached' : cached'[j].field = "date" => cached'[j].sec = record.sec
    <3>1. CASE cached' = cached /\ record.sec = lastSec
      BY <3>1 DEF DateInv, TypeOK
    <3>2. CASE cached' = << Date(record.sec, dateFormat(item)) >>
      <4>1. dateFormat(item) \in Seq(Characters)
        <5>1. item.text \in Seq(Characters)
          BY <1>5, <1>7 DEF FormatDate, Items
        <5>2. << "%", "Y" >> \in Seq(Characters)
          BY ConstantsAssumption
        <5>3. QED
          BY <5>1, <5>2 DEF dateFormat, DEFAULT_DATE_FORMAT
      <4>2. Date(record.sec, dateFormat(item)) \in Tokens
        BY <1>5, <1>7, <4>1 DEF FormatDate, Date, Tokens
      <4>3. QED
        BY <3>2, <4>2 DEF Date
    <3>3. CASE cached' = << Unspecified >>
      <4>1. << >> \in Seq(Characters)
        OBVIOUS
      <4>2. Unspecified \in Tokens /\ Unspecified.field # "date"
        BY <4>1 DEF Unspecified, Field, Tokens
      <4>3. QED
        BY <3>3, <4>2
    <3>4. QED
      BY <1>7, <3>1, <3>2, <3>3 DEF FormatDate
  <2>2. /\ buf' = Buf!append(buf, cached') /\ record # NoRecord /\ lastSec' = record.sec
        /\ UNCHANGED <<parser, record>>
    BY <1>7 DEF FormatDate, Printing
  <2>3. Buf!BufferOK(buf') /\ DateOfThisSecond'
    <3>1. PICK s \in Seq(Tokens) : s = cached'
      BY <2>1
    <3>2. QED
      BY <2>1, <2>2, <3>1, AppendDates
  <2>4. printed' \in 0 .. Len(items') /\ lastSec' \in 0 .. MaxSecond
    BY <1>5, <1>7, <2>2 DEF FormatDate, parser
  <2>5. QED
    BY <1>1, <2>1, <2>2, <2>3, <2>4 DEF DateInv, TypeOK, ParserInv
<1>8. QED
  BY <1>2, <1>3, <1>4, <1>6, <1>7 DEF Next

LEMMA InitDateInv == Init => DateInv
<1> SUFFICES ASSUME Init PROVE DateInv
  OBVIOUS
<1>1. ParserInv
  BY InitParserInv DEF Init
<1>2. items = << >> /\ cached = << >> /\ << >> \in Seq(Tokens) /\ Len(<< >>) = 0
  BY DEF Init, ParserInit
<1>3. Buf!BufferOK(buf)
  BY NewBuffer, ConstantsAssumption DEF Init
<1>4. QED
  BY <1>1, <1>2, <1>3, ConstantsAssumption DEF Init, DateInv, TypeOK, ParserInv, DateOfThisSecond

(* The cached date is one of lastSec in every reachable state.             *)
THEOREM DateInvHolds == Spec => []DateInv
<1>1. DateInv /\ [Next]_vars => DateInv'
  BY StepDateInv
<1>2. QED
  BY <1>1, InitDateInv, PTL DEF Spec

(* No append overruns the array of the buffer, and no position runs out of *)
(* the pattern, whatever the pattern and the records.                      *)
THEOREM TypeOKHolds == Spec => []TypeOK
<1>1. DateInv => TypeOK
  BY DEF DateInv
<1>2. QED
  BY <1>1, DateInvHolds, PTL

(* No record is printed with the date of another second.                   *)
THEOREM DateOfThisSecondHolds == Spec => []DateOfThisSecond
<1>1. DateInv => DateOfThisSecond
  BY DEF DateInv
<1>2. QED
  BY <1>1, DateInvHolds, PTL
-----------------------------------------------------------------------------
(* Functions that are defined by recursion on the numbers up to n.         *)

(* What holds of 0 and passes on from each number to the next holds up to n. *)
LEMMA UpTo ==
  ASSUME NEW n \in Nat, NEW S, 0 \in S, \A k \in 0 .. n - 1 : k \in S => k + 1 \in S
  PROVE  0 .. n \subseteq S
<1> DEFINE T == {k \in 0 .. n : k \notin S}
<1> SUFFICES ASSUME T # {} PROVE FALSE
  OBVIOUS
<1>1. T \subseteq Nat
  OBVIOUS
<1>2. PICK k \in T : \A j \in T : ~ (<<j, k>> \in OpToRel(<, Nat))
  BY <1>1, WFMin, NatLessThanWellFounded
<1>3. \A j \in T : ~ (j < k)
  BY <1>1, <1>2 DEF OpToRel
<1>4. k \in 1 .. n /\ k - 1 \in 0 .. n - 1
  OBVIOUS
<1>5. k - 1 \in S
  BY <1>3, <1>4
<1>6. k \in S
  BY <1>4, <1>5
<1>7. QED
  BY <1>6

(* f is what the functions g[1], g[2], ... make of base one after the      *)
(* other.                                                                  *)
Iterates(f, base, g, n) == f[0] = base /\ \A k \in 1 .. n : f[k] = g[k][f[k - 1]]

(* There is such a sequence.                                               *)
LEMMA IterateExists ==
  ASSUME NEW X, NEW base \in X, NEW n \in Nat, NEW g \in [1 .. n -> [X -> X]]
  PROVE  \E f \in [0 .. n -> X] : Iterates(f, base, g, n)
<1> DEFINE S == {m \in 0 .. n : \E f \in [0 .. m -> X] : Iterates(f, base, g, m)}
<1>1. 0 \in S
  <2>1. [k \in 0 .. 0 |-> base] \in [0 .. 0 -> X] /\ Iterates([k \in 0 .. 0 |-> base], base, g, 0)
    BY DEF Iterates
  <2>2. QED
    BY <2>1
<1>2. ASSUME NEW m \in 0 .. n - 1, m \in S
      PROVE  m + 1 \in S
  <2>1. PICK f \in [0 .. m -> X] : Iterates(f, base, g, m)
    BY <1>2
  <2>2. g[m + 1] \in [X -> X] /\ f[m] \in X /\ m + 1 \in 0 .. n
    OBVIOUS
  <2> DEFINE h == [k \in 0 .. m + 1 |-> IF k <= m THEN f[k] ELSE g[m + 1][f[m]]]
  <2>3. h \in [0 .. m + 1 -> X]
    BY <2>2
  <2>4. h[0] = base
    BY <2>1 DEF Iterates
  <2>5. ASSUME NEW k \in 1 .. m + 1
        PROVE  h[k] = g[k][h[k - 1]]
    <3>1. CASE k <= m
      BY <2>1, <3>1 DEF Iterates
    <3>2. CASE k = m + 1
      BY <3>2
    <3>3. QED
      BY <3>1, <3>2
  <2>6. QED
    BY <2>2, <2>3, <2>4, <2>5 DEF Iterates
<1>3. 0 .. n \subseteq S
  <2> HIDE DEF S
  <2>1. \A k \in 0 .. n - 1 : k \in S => k + 1 \in S
    BY <1>2
  <2>2. QED
    BY <1>1, <2>1, UpTo, Zenon
<1>4. n \in S
  BY <1>3
<1>5. QED
  BY <1>4

(* Whatever starts and goes on in that way is such a sequence.             *)
LEMMA IteratesAre ==
  ASSUME NEW X, NEW base \in X, NEW n \in Nat, NEW g \in [1 .. n -> [X -> X]], NEW of,
         of[0] = base, \A k \in 1 .. n : of[k - 1] \in X => of[k] = g[k][of[k - 1]]
  PROVE  Iterates(of, base, g, n) /\ \A k \in 0 .. n : of[k] \in X
<1> DEFINE S == {k \in 0 .. n : of[k] \in X}
<1>1. 0 \in S
  OBVIOUS
<1>2. ASSUME NEW k \in 0 .. n - 1, k \in S
      PROVE  k + 1 \in S
  <2>1. k + 1 \in 1 .. n /\ k + 1 \in 0 .. n /\ (k + 1) - 1 = k
    OBVIOUS
  <2>2. of[k + 1] = g[k + 1][of[k]] /\ g[k + 1] \in [X -> X]
    BY <1>2, <2>1
  <2>3. QED
    BY <1>2, <2>1, <2>2
<1>3. 0 .. n \subseteq S
  <2> HIDE DEF S
  <2>1. \A k \in 0 .. n - 1 : k \in S => k + 1 \in S
    BY <1>2
  <2>2. QED
    BY <1>1, <2>1, UpTo, Zenon
<1>4. \A k \in 1 .. n : k - 1 \in 0 .. n
  OBVIOUS
<1>5. QED
  BY <1>3, <1>4 DEF Iterates

(* Where they start in the same way and two sequences apply the same       *)
(* functions they are the same.                                            *)
LEMMA IteratesAgree ==
  ASSUME NEW base, NEW n, NEW f, NEW h, NEW g, NEW d, n \in Nat,
         Iterates(f, base, g, n), Iterates(h, base, d, n),
         \A k \in 1 .. n : g[k] = d[k]
  PROVE  \A k \in 0 .. n : f[k] = h[k]
<1> DEFINE S == {k \in 0 .. n : f[k] = h[k]}
<1>1. 0 \in S
  BY DEF Iterates
<1>2. ASSUME NEW k \in 0 .. n - 1, k \in S
      PROVE  k + 1 \in S
  <2>1. k + 1 \in 1 .. n /\ (k + 1) - 1 = k
    OBVIOUS
  <2>2. QED
    BY <1>2, <2>1 DEF Iterates
<1>3. 0 .. n \subseteq S
  <2> HIDE DEF S
  <2>1. \A k \in 0 .. n - 1 : k \in S => k + 1 \in S
    BY <1>2
  <2>2. QED
    BY <1>1, <2>1, UpTo, Zenon
<1>4. QED
  BY <1>3
-----------------------------------------------------------------------------
(* What the items spell, and NothingLost.                                  *)

(* What an item makes of the positions that the items before it reach.     *)
Going(p, item) == [from \in SUBSET (0 .. Len(p)) |-> Reached(p, item, from)]

LEMMA GoingType ==
  ASSUME NEW p, Len(p) \in Nat, NEW item
  PROVE  Going(p, item) \in [SUBSET (0 .. Len(p)) -> SUBSET (0 .. Len(p))]
<1>1. \A from : Reached(p, item, from) \subseteq 0 .. Len(p)
  BY DEF Reached
<1>2. QED
  BY <1>1 DEF Going

(* The recursive function of EndsOf is such a sequence: there is one, so   *)
(* CHOOSE gives one, and whatever it gives starts and goes on that way.    *)
Ends(of, p, seq) ==
  /\ Iterates(of, {0}, [k \in 1 .. Len(seq) |-> Going(p, seq[k])], Len(seq))
  /\ \A k \in 0 .. Len(seq) : of[k] \in SUBSET (0 .. Len(p))

LEMMA EndsSteps ==
  ASSUME NEW p, Len(p) \in Nat, NEW seq \in Seq(Items)
  PROVE  \E of : Ends(of, p, seq) /\ EndsOf(p, seq) = of[Len(seq)]
<1> DEFINE n == Len(seq)
           X == SUBSET (0 .. Len(p))
           g == [k \in 1 .. n |-> Going(p, seq[k])]
           Body(of, k) == IF k = 0 THEN {0} ELSE Reached(p, seq[k], of[k - 1])
           P(of) == of = [k \in 0 .. n |-> Body(of, k)]
           chosen == CHOOSE of : P(of)
<1>1. n \in Nat /\ {0} \in X /\ \A k \in 1 .. n : k \in 0 .. n /\ k # 0
  OBVIOUS
<1>2. g \in [1 .. n -> [X -> X]]
  BY GoingType
<1>3. PICK f \in [0 .. n -> X] : Iterates(f, {0}, g, n)
  <2> HIDE DEF g, n, X
  <2>1. QED
    BY <1>1, <1>2, IterateExists
<1>4. P(f)
  <2>1. ASSUME NEW k \in 1 .. n PROVE f[k] = Body(f, k)
    <3>1. f[k - 1] \in SUBSET (0 .. Len(p)) /\ k # 0
      BY <1>1, <1>3
    <3>2. f[k] = Going(p, seq[k])[f[k - 1]]
      BY <1>3 DEF Iterates
    <3>3. Going(p, seq[k])[f[k - 1]] = Reached(p, seq[k], f[k - 1])
      BY <3>1 DEF Going
    <3>4. QED
      BY <3>1, <3>2, <3>3
  <2>2. f[0] = Body(f, 0)
    BY <1>3 DEF Iterates
  <2>3. \A k \in 0 .. n : f[k] = Body(f, k)
    <3> HIDE DEF Body
    <3>1. \A k \in 0 .. n : k = 0 \/ k \in 1 .. n
      BY <1>1
    <3>2. QED
      BY <2>1, <2>2, <3>1
  <2>4. QED
    <3> HIDE DEF Body
    <3>1. QED
      BY <2>3
<1>5. P(chosen)
  <2> HIDE DEF P
  <2>1. QED
    BY <1>4
<1>6. EndsOf(p, seq) = chosen[n]
  BY DEF EndsOf
<1>7. PICK of : P(of) /\ EndsOf(p, seq) = of[n]
  <2> HIDE DEF P, chosen, n
  <2>1. QED
    BY <1>5, <1>6
<1>8. \A k \in 0 .. n : of[k] = Body(of, k)
  <2> HIDE DEF Body
  <2>1. QED
    BY <1>7, Zenon
<1>9. of[0] = {0}
  <2>1. of[0] = Body(of, 0)
    <3> HIDE DEF Body
    <3>1. 0 \in 0 .. n
      BY <1>1
    <3>2. QED
      BY <1>8, <3>1, Zenon
  <2>2. QED
    BY <2>1
<1>10. ASSUME NEW k \in 1 .. n, of[k - 1] \in X
       PROVE  of[k] = g[k][of[k - 1]]
  <2>1. of[k] = Body(of, k)
    <3> HIDE DEF Body
    <3>1. QED
      BY <1>1, <1>8, Zenon
  <2>2. g[k][of[k - 1]] = Going(p, seq[k])[of[k - 1]]
    OBVIOUS
  <2>3. QED
    BY <1>1, <1>10, <2>1, <2>2 DEF Going
<1>11. Iterates(of, {0}, g, n) /\ \A k \in 0 .. n : of[k] \in X
  <2> DEFINE start == {0}
  <2>1. start \in X /\ of[0] = start
    BY <1>1, <1>9
  <2> HIDE DEF g, n, X, Body, P, start
  <2>2. \A k \in 1 .. n : of[k - 1] \in X => of[k] = g[k][of[k - 1]]
    BY <1>10
  <2>3. n \in Nat
    BY <1>1
  <2>4. Iterates(of, start, g, n) /\ \A k \in 0 .. n : of[k] \in X
    BY <1>2, <2>1, <2>2, <2>3, IteratesAre
  <2>5. QED
    BY <2>4 DEF start
<1>12. QED
  BY <1>7, <1>11 DEF Ends

(* How far the items reach, item by item.                                  *)
LEMMA EndsNone ==
  ASSUME NEW p, Len(p) \in Nat
  PROVE  EndsOf(p, << >>) = {0}
<1>1. << >> \in Seq(Items) /\ Len(<< >>) = 0
  OBVIOUS
<1>2. PICK of : Ends(of, p, << >>) /\ EndsOf(p, << >>) = of[Len(<< >>)]
  BY <1>1, EndsSteps
<1>3. of[0] = {0}
  BY <1>2 DEF Ends, Iterates
<1>4. QED
  BY <1>1, <1>2, <1>3

LEMMA EndsAppend ==
  ASSUME NEW p, Len(p) \in Nat, NEW seq \in Seq(Items), NEW item \in Items
  PROVE  EndsOf(p, Append(seq, item)) = Reached(p, item, EndsOf(p, seq))
<1> DEFINE n == Len(seq)
           more == Append(seq, item)
           g == [k \in 1 .. n |-> Going(p, seq[k])]
           d == [k \in 1 .. n + 1 |-> Going(p, more[k])]
<1>1. /\ n \in Nat /\ more \in Seq(Items) /\ Len(more) = n + 1 /\ more[n + 1] = item
      /\ \A k \in 1 .. n : more[k] = seq[k]
  OBVIOUS
<1>2. PICK f : Ends(f, p, seq) /\ EndsOf(p, seq) = f[n]
  BY EndsSteps
<1>3. PICK h : Ends(h, p, more) /\ EndsOf(p, more) = h[n + 1]
  <2> HIDE DEF more
  <2>1. PICK h : Ends(h, p, more) /\ EndsOf(p, more) = h[Len(more)]
    BY <1>1, EndsSteps
  <2>2. QED
    BY <1>1, <2>1
<1>a. Iterates(f, {0}, g, n) /\ f[n] \in SUBSET (0 .. Len(p))
  BY <1>1, <1>2 DEF Ends
<1>b. Iterates(h, {0}, d, n + 1)
  <2> HIDE DEF more
  <2>1. QED
    BY <1>1, <1>3 DEF Ends
<1>4. \A k \in 1 .. n : g[k] = d[k]
  BY <1>1
<1>5. Iterates(h, {0}, d, n)
  BY <1>1, <1>b DEF Iterates
<1>6. f[n] = h[n]
  <2>1. \A k \in 0 .. n : f[k] = h[k]
    <3> HIDE DEF g, d, n, more
    <3>1. QED
      BY <1>1, <1>a, <1>4, <1>5, IteratesAgree, SMT
  <2>2. QED
    BY <1>1, <2>1
<1>7. h[n + 1] = Going(p, item)[f[n]]
  <2>1. n + 1 \in 1 .. n + 1 /\ (n + 1) - 1 = n
    BY <1>1
  <2>2. h[n + 1] = d[n + 1][h[n]] /\ d[n + 1] = Going(p, item)
    BY <1>1, <1>b, <2>1 DEF Iterates
  <2>3. QED
    BY <1>6, <2>2
<1>8. QED
  <2>1. EndsOf(p, seq) \in SUBSET (0 .. Len(p))
    BY <1>2, <1>a
  <2>2. EndsOf(p, more) = Going(p, item)[EndsOf(p, seq)]
    BY <1>2, <1>3, <1>7
  <2>3. QED
    BY <2>1, <2>2 DEF Going

(* An item that the pattern spells from where the items end takes them on. *)
LEMMA SpelledMore ==
  ASSUME pattern \in Seq(Characters), NEW seq \in Seq(Items), NEW item \in Items,
         NEW a \in EndsOf(pattern, seq), NEW b \in 1 .. Len(pattern), SpeltBy(item, pattern, a, b)
  PROVE  b \in EndsOf(pattern, Append(seq, item))
<1>1. Len(pattern) \in Nat
  OBVIOUS
<1>2. EndsOf(pattern, Append(seq, item)) = Reached(pattern, item, EndsOf(pattern, seq))
  BY <1>1, EndsAppend
<1>3. QED
  BY <1>2 DEF Reached

(* The three forms in which an item is read.                               *)
LEMMA LiteralSpelt ==
  ASSUME NEW p, NEW b, NEW e, b < e, \A j \in b + 1 .. e : p[j] # "%", e < Len(p) => p[e + 1] = "%"
  PROVE  SpeltBy(Literal(SubSeq(p, b + 1, e)), p, b, e)
<1> DEFINE text == SubSeq(p, b + 1, e)
<1> HIDE DEF text
<1>1. Literal(text).kind = "literal" /\ Literal(text).text = text
  BY DEF Literal
<1>2. SpeltBy(Literal(text), p, b, e)
  BY <1>1, Zenon DEF SpeltBy, text
<1>3. QED
  BY <1>2 DEF text

LEMMA KeySpelt ==
  ASSUME NEW p, NEW b, NEW key \in Keys, NEW e, e = b + 2, b + 2 <= e,
         p[b + 1] = "%", p[b + 2] = key, e < Len(p) => p[e + 1] # "{"
  PROVE  SpeltBy(Key(key, << >>), p, b, e)
<1>1. Key(key, << >>).kind = "key" /\ Key(key, << >>).key = key /\ Key(key, << >>).text = << >>
  BY DEF Key
<1>2. QED
  BY <1>1, Zenon DEF SpeltBy

LEMMA BraceSpelt ==
  ASSUME NEW p, NEW b, NEW key \in Keys, NEW e, b + 4 <= e, b + 2 <= e,
         p[b + 1] = "%", p[b + 2] = key, p[b + 3] = "{", p[e] = "}",
         \A j \in b + 4 .. e - 1 : p[j] # "}",
         NEW text, text = IF key = "d" THEN SubSeq(p, b + 4, e - 1) ELSE << >>
  PROVE  SpeltBy(Key(key, text), p, b, e)
<1>1. Key(key, text).kind = "key" /\ Key(key, text).key = key /\ Key(key, text).text = text
  BY DEF Key
<1>2. QED
  BY <1>1, Zenon DEF SpeltBy

(* What the proofs about a step of the parser use of ParserInv.            *)
LEMMA ParserNumbers ==
  ASSUME ParserInv
  PROVE  pattern \in Seq(Characters) /\ Len(pattern) \in Nat /\ pos \in Nat /\ pos >= 1
<1>1. pattern \in Seq(Characters)
  BY PatternsAssumption DEF ParserInv, ParserTypeOK
<1>2. Len(pattern) \in Nat
  BY <1>1
<1>3. QED
  BY <1>1, <1>2 DEF ParserInv, ParserTypeOK

(* Every pass through the loop keeps the part that the items spell and the *)
(* part that has been settled the same.                                    *)
LEMMA ParseSpelled ==
  ASSUME SpelledInv, Parse
  PROVE  SpelledInv'
<1> DEFINE n == Len(pattern)
<1>0. ParserInv /\ ParserInv'
  BY ParseParserInv DEF SpelledInv
<1>n. pattern \in Seq(Characters) /\ n \in Nat /\ pos \in Nat /\ pos >= 1
  BY <1>0, ParserNumbers
<1>i. items \in Seq(Items)
  BY <1>0 DEF ParserInv, ParserTypeOK
<1>p. pattern' = pattern
  BY DEF Parse, Normal, PatternKey, PatternBrace, Subpattern, Finish
<1>r. ASSUME result = "parsing"
      PROVE  Settled \in EndsOf(pattern, items)
  BY <1>r DEF SpelledInv
<1>q. SUFFICES ASSUME result' \in {"parsing", "0"}
               PROVE  Settled' \in EndsOf(pattern, items')
  BY <1>0, <1>p DEF SpelledInv
<1> HIDE DEF n
<1>1. CASE Normal
  <2> DEFINE end == Find("%", pos)
  <2>1. result = "parsing" /\ pos <= n /\ state = "NORMAL"
    BY <1>1 DEF Normal, InLoop, n
  <2>2. /\ end \in pos .. n + 1 /\ (end <= n => pattern[end] = "%")
        /\ \A j \in pos .. end - 1 : pattern[j] # "%"
    <3>1. pos \in 1 .. Len(pattern) + 1
      BY <1>n, <2>1 DEF n
    <3>2. QED
      BY <1>n, <3>1, FindFacts DEF n
  <2> HIDE DEF end
  <2>3. /\ items' = IF end > pos THEN Append(items, Literal(SubSeq(pattern, pos, end - 1))) ELSE items
        /\ state' = IF end > n THEN "NORMAL" ELSE "PATTERN"
        /\ pos' = end + 1
    BY <1>1 DEF Normal, end, n
  <2>4. Settled = pos - 1
    BY <1>n, <2>1 DEF Settled, n
  <2>5. Settled' = end - 1
    BY <1>n, <1>p, <2>2, <2>3 DEF Settled, n
  <2>6. pos - 1 \in EndsOf(pattern, items)
    BY <1>r, <2>1, <2>4
  <2>7. CASE end > pos
    <3>1. /\ end - 1 \in 1 .. Len(pattern) /\ (pos - 1) + 1 = pos /\ pos - 1 < end - 1
          /\ (end - 1 < Len(pattern) => end <= n) /\ (end - 1) + 1 = end
          /\ 1 <= pos /\ end - 1 <= Len(pattern) /\ pos \in Int /\ end - 1 \in Int
      BY <1>n, <2>1, <2>2, <2>7 DEF n
    <3> DEFINE item == Literal(SubSeq(pattern, (pos - 1) + 1, end - 1))
    <3>2. item \in Items /\ item = Literal(SubSeq(pattern, pos, end - 1))
      BY <1>0, <3>1, ItemType DEF ParserInv
    <3>3. SpeltBy(item, pattern, pos - 1, end - 1)
      <4>1. \A j \in (pos - 1) + 1 .. end - 1 : pattern[j] # "%"
        BY <2>2, <3>1, Zenon
      <4>2. end - 1 < Len(pattern) => pattern[(end - 1) + 1] = "%"
        BY <2>2, <3>1, Zenon
      <4>3. QED
        BY <3>1, <4>1, <4>2, LiteralSpelt, Zenon
    <3> HIDE DEF item
    <3>4. end - 1 \in EndsOf(pattern, Append(items, item))
      BY <1>i, <1>n, <2>6, <3>1, <3>2, <3>3, SpelledMore, Zenon
    <3>5. QED
      BY <2>3, <2>5, <2>7, <3>2, <3>4, Zenon
  <2>8. CASE ~ (end > pos)
    <3>1. end = pos /\ items' = items
      BY <1>n, <2>2, <2>3, <2>8
    <3>2. QED
      BY <2>5, <2>6, <3>1
  <2>9. QED
    BY <2>7, <2>8
<1>2. CASE PatternKey
  <2>1. result = "parsing" /\ pos <= n /\ state = "PATTERN" /\ ~ (pos < n /\ pattern[pos + 1] = "{")
    BY <1>2 DEF PatternKey, BraceFollows, InLoop, n
  <2>2. /\ AddKey(pattern[pos], << >>)
        /\ state' = "NORMAL" /\ pos' = pos + 1
    BY <1>2 DEF PatternKey
  <2>3. pos \in 2 .. n + 1 /\ pattern[pos - 1] = "%"
    BY <1>0, <2>1 DEF ParserInv, PercentBefore, n
  <2>4. pattern[pos] \in Keys /\ items' = Append(items, Key(pattern[pos], << >>))
    BY <1>q, <2>2 DEF AddKey
  <2>n. n \in Nat /\ pos \in Nat /\ 2 <= pos /\ pos <= n
    <3>1. n \in Nat /\ pos \in 2 .. n + 1 /\ pos <= n
      BY <1>n, <2>1, <2>3, Zenon
    <3>2. QED
      BY <3>1
  <2>5. Settled = pos - 2 /\ Settled' = pos
    <3>1. state = "PATTERN" /\ state' = "NORMAL" /\ pos' = pos + 1
      BY <2>1, <2>2
    <3>2. QED
      BY <1>p, <2>n, <3>1 DEF Settled, n
  <2>6. /\ pos \in 1 .. Len(pattern) /\ pos = (pos - 2) + 2 /\ (pos - 2) + 2 <= pos
        /\ (pos - 2) + 1 = pos - 1 /\ (pos < Len(pattern) => pos < n)
    BY <2>n DEF n
  <2>7. Key(pattern[pos], << >>) \in Items
    <3>1. << >> \in Seq(Characters)
      OBVIOUS
    <3>2. QED
      BY <2>4, <3>1 DEF Key, Items
  <2>8. SpeltBy(Key(pattern[pos], << >>), pattern, pos - 2, pos)
    <3>1. pattern[(pos - 2) + 1] = "%" /\ pattern[(pos - 2) + 2] = pattern[pos]
      BY <2>3, <2>6, Zenon
    <3>2. pos < Len(pattern) => pattern[pos + 1] # "{"
      BY <2>1, <2>6, Zenon
    <3>3. QED
      BY <2>4, <2>6, <3>1, <3>2, KeySpelt, Zenon
  <2>9. pos - 2 \in EndsOf(pattern, items)
    BY <1>r, <2>1, <2>5
  <2>10. pos \in EndsOf(pattern, Append(items, Key(pattern[pos], << >>)))
    BY <1>i, <1>n, <2>6, <2>7, <2>8, <2>9, SpelledMore, Zenon
  <2>11. QED
    BY <2>4, <2>5, <2>10
<1>3. CASE PatternBrace
  <2>1. result = "parsing" /\ pos < n /\ state = "PATTERN"
    BY <1>3 DEF PatternBrace, BraceFollows, InLoop, n
  <2>2. state' = "SUBPATTERN" /\ pos' = pos + 2 /\ items' = items
    BY <1>3 DEF PatternBrace
  <2>3. Settled' = Settled
    BY <1>n, <1>p, <2>1, <2>2 DEF Settled, n
  <2>4. QED
    BY <1>r, <2>1, <2>2, <2>3
<1>4. CASE Subpattern
  <2> DEFINE end  == Find("}", pos)
             key  == pattern[pos - 2]
             text == SubSeq(pattern, pos, end - 1)
             kept == IF key = "d" THEN text ELSE << >>
  <2>1. result = "parsing" /\ pos <= n /\ state = "SUBPATTERN"
    BY <1>4 DEF Subpattern, InLoop, n
  <2>2. /\ end \in pos .. n + 1 /\ (end <= n => pattern[end] = "}")
        /\ \A j \in pos .. end - 1 : pattern[j] # "}"
    <3>1. pos \in 1 .. Len(pattern) + 1
      BY <1>n, <2>1 DEF n
    <3>2. QED
      BY <1>n, <3>1, FindFacts DEF n
  <2> HIDE DEF end
  <2>3. pos \in 4 .. n + 1 /\ pattern[pos - 3] = "%" /\ pattern[pos - 1] = "{"
    BY <1>0, <2>1 DEF ParserInv, EscapeInPattern, n
  <2>n. n \in Nat /\ pos \in 4 .. n /\ end \in pos .. n + 1
    <3>1. n \in Nat /\ pos \in 4 .. n + 1 /\ end \in pos .. n + 1 /\ pos <= n
      BY <1>n, <2>1, <2>2, <2>3, Zenon
    <3>2. QED
      BY <3>1
  <2>4. end <= n /\ AddKey(key, text) /\ state' = "NORMAL" /\ pos' = end + 1
    <3>1. ~ (end > n)
      BY <1>4, <1>q DEF Subpattern, end, n
    <3>2. end <= n
      BY <2>n, <3>1
    <3>3. QED
      BY <1>4, <3>1, <3>2 DEF Subpattern, end, n
  <2>e. end <= n /\ state' = "NORMAL" /\ pos' = end + 1
    BY <2>4
  <2>5. key \in Keys /\ items' = Append(items, Key(key, kept))
    BY <1>q, <2>4 DEF AddKey
  <2>6. Settled = pos - 4 /\ Settled' = end
    BY <1>p, <2>1, <2>n, <2>e DEF Settled, n
  <2>7. /\ end \in 1 .. Len(pattern) /\ (pos - 4) + 4 <= end /\ (pos - 4) + 2 <= end
        /\ (pos - 4) + 1 = pos - 3 /\ (pos - 4) + 2 = pos - 2 /\ (pos - 4) + 3 = pos - 1
        /\ (pos - 4) + 4 = pos
        /\ 1 <= pos /\ end - 1 <= Len(pattern) /\ pos \in Int /\ end - 1 \in Int
    BY <2>n, <2>e DEF n
  <2>8. Key(key, kept) \in Items
    <3>1. Key(key, text) \in Items
      BY <1>0, <2>5, <2>7, ItemType DEF ParserInv
    <3>2. << >> \in Seq(Characters)
      OBVIOUS
    <3> HIDE DEF key, text
    <3>3. QED
      BY <3>1, <3>2 DEF Key, Items
  <2>9. SpeltBy(Key(key, kept), pattern, pos - 4, end)
    <3>1. /\ pattern[(pos - 4) + 1] = "%" /\ pattern[(pos - 4) + 2] = key
          /\ pattern[(pos - 4) + 3] = "{" /\ pattern[end] = "}"
      BY <2>2, <2>3, <2>4, <2>7, Zenon
    <3>2. \A j \in (pos - 4) + 4 .. end - 1 : pattern[j] # "}"
      BY <2>2, <2>7, Zenon
    <3>3. kept = IF key = "d" THEN SubSeq(pattern, (pos - 4) + 4, end - 1) ELSE << >>
      BY <2>7, Zenon
    <3> HIDE DEF key, kept
    <3>4. QED
      BY <2>5, <2>7, <3>1, <3>2, <3>3, BraceSpelt, Zenon
  <2>10. pos - 4 \in EndsOf(pattern, items)
    BY <1>r, <2>1, <2>6
  <2>11. end \in EndsOf(pattern, Append(items, Key(key, kept)))
    <3> HIDE DEF key, text, kept
    <3>1. QED
      BY <1>i, <1>n, <2>7, <2>8, <2>9, <2>10, SpelledMore, Zenon
  <2>12. QED
    BY <2>5, <2>6, <2>11
<1>5. CASE Finish
  <2>1. result = "parsing" /\ UNCHANGED <<pattern, pos, state, items>>
    BY <1>5 DEF Finish
  <2>2. Settled' = Settled
    BY <2>1 DEF Settled
  <2>3. QED
    BY <1>r, <2>1, <2>2
<1>6. QED
  BY <1>1, <1>2, <1>3, <1>4, <1>5 DEF Parse

LEMMA InitSpelledInv == Init => SpelledInv
<1> SUFFICES ASSUME Init PROVE SpelledInv
  OBVIOUS
<1>1. ParserInv
  BY InitParserInv DEF Init
<1>2. pos = 1 /\ state = "NORMAL" /\ items = << >>
  BY DEF Init, ParserInit
<1>3. Settled = 0
  BY <1>1, <1>2, ParserNumbers DEF Settled
<1>4. Len(pattern) \in Nat
  BY <1>1, ParserNumbers
<1>5. EndsOf(pattern, items) = {0}
  BY <1>2, <1>4, EndsNone
<1>6. QED
  BY <1>1, <1>3, <1>5 DEF SpelledInv

LEMMA StepSpelledInv ==
  ASSUME SpelledInv, [Next]_vars
  PROVE  SpelledInv'
<1>1. CASE UNCHANGED parser
  BY <1>1, StepParserInv DEF parser, SpelledInv, Settled
<1>2. QED
  BY <1>1, ParseSpelled DEF Next, Constructor, FormatCall, FormatPlain, FormatDate, vars

(* The items that parsePattern_ has made are those that the pattern spells *)
(* as far as it has been read, whatever the pattern: nothing is dropped,   *)
(* doubled or read into the wrong item, but for the text in braces behind  *)
(* another directive than %d.                                              *)
THEOREM NothingLostHolds == Spec => []NothingLost
<1>1. SpelledInv => NothingLost
  <2> SUFFICES ASSUME SpelledInv, state = "NORMAL", result \in {"parsing", "0"}
               PROVE  (IF pos <= Len(pattern) THEN pos - 1 ELSE Len(pattern)) \in EndsOf(pattern, items)
    BY DEF NothingLost
  <2>1. pos \in Nat /\ Len(pattern) \in Nat
    BY ParserNumbers DEF SpelledInv
  <2>2. Settled = IF pos <= Len(pattern) THEN pos - 1 ELSE Len(pattern)
    BY <2>1 DEF Settled
  <2>3. QED
    BY <2>2 DEF SpelledInv
<1>2. SpelledInv /\ [Next]_vars => SpelledInv'
  BY StepSpelledInv
<1>3. QED
  BY <1>1, <1>2, InitSpelledInv, PTL DEF Spec
-----------------------------------------------------------------------------
(* The verdict on patterns, and AcceptsWellFormed.                         *)

(* The verdict from a position on depends on the positions behind it only. *)
LEMMA VerdictLooksAhead ==
  ASSUME pattern \in Seq(Characters), NEW n, n = Len(pattern), n \in Nat,
         NEW f, NEW h, NEW j \in 1 .. n + 1,
         \A k \in j + 1 .. n + 1 : f[k] = h[k]
  PROVE  VerdictAt(f, j) = VerdictAt(h, j)
<1> DEFINE closing == Find("}", j + 3)
<1>1. /\ ~ (j > n) => j + 1 \in j + 1 .. n + 1
      /\ ~ (j > n) /\ ~ (j = n) => j + 2 \in j + 1 .. n + 1
      /\ j + 2 <= n => j + 3 \in 1 .. n + 1
      /\ \A e \in j + 3 .. n + 1 : ~ (e > n) => e + 1 \in j + 1 .. n + 1
  OBVIOUS
<1>2. j + 2 <= n => closing \in j + 3 .. n + 1
  BY <1>1, FindFacts, Zenon
<1> HIDE DEF closing
<1>3. ~ (j > n) => f[j + 1] = h[j + 1]
  BY <1>1, Zenon
<1>4. ~ (j > n) /\ ~ (j = n) => f[j + 2] = h[j + 2]
  BY <1>1, Zenon
<1>5. j + 2 <= n /\ ~ (closing > n) => f[closing + 1] = h[closing + 1]
  BY <1>1, <1>2, Zenon
<1>6. QED
  BY <1>3, <1>4, <1>5, Zenon DEF VerdictAt, closing

(* v holds the verdicts from position m on.                                *)
SaysFrom(v, m) ==
  /\ v = [j \in m .. Len(pattern) + 1 |-> v[j]]
  /\ \A j \in m .. Len(pattern) + 1 : v[j] = VerdictAt(v, j)

(* There is one that holds all of them, made from the end on.              *)
LEMMA OneSays ==
  ASSUME pattern \in Seq(Characters)
  PROVE  \E v : SaysFrom(v, 1)
<1> DEFINE n == Len(pattern)
           S == {k \in 0 .. n : \E v : SaysFrom(v, n + 1 - k)}
<1>n. n \in Nat
  OBVIOUS
<1>1. 0 \in S
  <2> DEFINE h == [j \in n + 1 .. n + 1 |-> "good"]
  <2>1. \A j \in n + 1 .. n + 1 : h[j] = "good" /\ VerdictAt(h, j) = "good"
    <3>1. \A j \in n + 1 .. n + 1 : j > n /\ h[j] = "good"
      BY <1>n
    <3> HIDE DEF h
    <3>2. QED
      BY <3>1, Zenon DEF VerdictAt
  <2>2. SaysFrom(h, n + 1)
    <3>1. h = [j \in n + 1 .. n + 1 |-> h[j]]
      BY Zenon
    <3> HIDE DEF h
    <3>2. QED
      BY <2>1, <3>1 DEF SaysFrom
  <2>3. n + 1 - 0 = n + 1 /\ 0 \in 0 .. n
    BY <1>n
  <2>4. \E v : SaysFrom(v, n + 1 - 0)
    BY <2>2, <2>3
  <2>5. QED
    BY <2>3, <2>4
<1>2. ASSUME NEW k \in 0 .. n - 1, k \in S
      PROVE  k + 1 \in S
  <2> DEFINE first == n + 1 - k
             next  == n + 1 - (k + 1)
  <2>1. PICK v : SaysFrom(v, first)
    BY <1>2
  <2>2. n \in Nat /\ first \in 2 .. n + 1 /\ next = first - 1 /\ first \in Nat
    BY <1>n
  <2> HIDE DEF n, first, next
  <2> DEFINE h == [j \in next .. n + 1 |-> IF j = next THEN VerdictAt(v, next) ELSE v[j]]
  <2>3. \A j \in first .. n + 1 : h[j] = v[j]
    BY <2>2
  <2>4. ASSUME NEW j \in next .. n + 1
        PROVE  VerdictAt(h, j) = VerdictAt(v, j)
    <3>1. j \in 1 .. n + 1 /\ \A i \in j + 1 .. n + 1 : i \in first .. n + 1
      BY <2>2
    <3>2. \A i \in j + 1 .. n + 1 : h[i] = v[i]
      BY <2>3, <3>1
    <3> HIDE DEF h
    <3>3. n = Len(pattern)
      BY DEF n
    <3>4. QED
      BY <2>2, <3>1, <3>2, <3>3, VerdictLooksAhead
  <2>5. \A j \in next .. n + 1 : h[j] = VerdictAt(v, j)
    <3>1. \A j \in first .. n + 1 : v[j] = VerdictAt(v, j)
      BY <2>1 DEF SaysFrom, n
    <3>2. \A j \in next .. n + 1 : j = next \/ j \in first .. n + 1
      BY <2>2
    <3>3. next \in next .. n + 1
      BY <2>2
    <3>4. QED
      BY <2>3, <3>1, <3>2, <3>3
  <2>6. SaysFrom(h, next)
    <3>1. \A j \in next .. n + 1 : h[j] = VerdictAt(h, j)
      <4> HIDE DEF h
      <4>1. QED
        BY <2>4, <2>5
    <3>2. h = [j \in next .. n + 1 |-> h[j]]
      BY Zenon
    <3> HIDE DEF h
    <3>3. QED
      BY <3>1, <3>2 DEF SaysFrom, n
  <2>7. k + 1 \in 0 .. n
    BY <2>2
  <2>8. QED
    BY <2>6, <2>7 DEF next
<1>3. 0 .. n \subseteq S
  <2> HIDE DEF S, n
  <2>1. \A k \in 0 .. n - 1 : k \in S => k + 1 \in S
    BY <1>2
  <2>2. QED
    BY <1>n, <1>1, <2>1, UpTo, Zenon
<1>4. n \in S /\ n + 1 - n = 1
  BY <1>n, <1>3
<1>5. QED
  BY <1>4

(* So the recursive definition holds what its equation says.               *)
LEMMA VerdictUnfolds ==
  ASSUME pattern \in Seq(Characters)
  PROVE  \A j \in 1 .. Len(pattern) + 1 : VerdictFrom[j] = VerdictAt(VerdictFrom, j)
<1> DEFINE n == Len(pattern)
           P(v) == v = [j \in 1 .. n + 1 |-> VerdictAt(v, j)]
           chosen == CHOOSE v : P(v)
<1>1. PICK v : SaysFrom(v, 1)
  BY OneSays
<1>2. P(v)
  BY <1>1 DEF SaysFrom
<1>3. P(chosen)
  <2> HIDE DEF P
  <2>1. QED
    BY <1>2
<1>4. VerdictFrom = chosen
  BY DEF VerdictFrom
<1>5. QED
  <2> HIDE DEF chosen
  <2>1. QED
    BY <1>3, <1>4

(* The verdict does not change along a literal.                            *)
LEMMA LiteralGoesOn ==
  ASSUME pattern \in Seq(Characters), NEW from \in 1 .. Len(pattern) + 1
  PROVE  VerdictFrom[from] = VerdictFrom[Find("%", from)]
<1> DEFINE n == Len(pattern)
           end == Find("%", from)
           d == end - from
           S == {k \in 0 .. d : VerdictFrom[from] = VerdictFrom[from + k]}
<1>n. n \in Nat /\ from \in 1 .. n + 1
  OBVIOUS
<1>1. end \in from .. n + 1 /\ \A j \in from .. end - 1 : pattern[j] # "%"
  BY FindFacts
<1>2. d \in Nat /\ from + d = end /\ end \in from .. n + 1
  <2> HIDE DEF end, n
  <2>1. end \in from .. n + 1
    BY <1>1
  <2>2. QED
    BY <1>n, <2>1
<1>3. 0 \in S
  BY <1>2
<1>4. ASSUME NEW k \in 0 .. d - 1, k \in S
      PROVE  k + 1 \in S
  <2> DEFINE j == from + k
  <2> HIDE DEF n, end
  <2>1. /\ j \in from .. end - 1 /\ j \in 1 .. n + 1 /\ ~ (j > n)
        /\ j + 1 = from + (k + 1) /\ k + 1 \in 0 .. d
    BY <1>n, <1>2
  <2>2. VerdictFrom[j] = VerdictAt(VerdictFrom, j)
    BY <1>n, <2>1, VerdictUnfolds DEF n
  <2>3. pattern[j] # "%"
    BY <1>1, <2>1, Zenon
  <2>4. VerdictAt(VerdictFrom, j) = VerdictFrom[j + 1]
    <3> HIDE DEF j
    <3>1. QED
      BY <2>1, <2>3, Zenon DEF VerdictAt, n
  <2>5. QED
    BY <1>4, <2>1, <2>2, <2>4
<1>5. 0 .. d \subseteq S
  <2> HIDE DEF S, d
  <2>1. \A k \in 0 .. d - 1 : k \in S => k + 1 \in S
    BY <1>4
  <2>2. d \in Nat
    BY <1>2
  <2>3. QED
    BY <1>3, <2>1, <2>2, UpTo, Zenon
<1>6. d \in S
  <2> HIDE DEF S, d
  <2>1. d \in 0 .. d
    BY <1>2
  <2>2. QED
    BY <1>5, <2>1
<1>7. QED
  BY <1>2, <1>6

(* The positions around a key, and around a text in braces.                *)
LEMMA KeyPlaces ==
  ASSUME NEW k \in Nat, NEW n \in Nat, 2 <= k, k <= n + 1
  PROVE  /\ ~ (k - 1 > n) /\ (k - 1) + 1 = k /\ (k - 1) + 2 = k + 1
         /\ (k - 1 = n <=> ~ (k <= n)) /\ (k + 1 <= n <=> k < n)
OBVIOUS

LEMMA BracePlaces ==
  ASSUME NEW k \in Nat, NEW n \in Nat, 4 <= k, k <= n + 1
  PROVE  /\ ~ (k - 3 > n) /\ (k - 3) + 1 = k - 2 /\ (k - 3) + 2 = k - 1 /\ (k - 3) + 3 = k
         /\ k - 3 # n /\ k - 1 <= n
OBVIOUS

(* From a '%' on: the key stands alone, ...                                *)
LEMMA KeyFrom ==
  ASSUME NEW v, NEW k \in Nat, NEW n \in Nat, n = Len(pattern), 2 <= k, k <= n + 1,
         pattern[k - 1] = "%", ~ (k < n /\ pattern[k + 1] = "{")
  PROVE  /\ ~ (k <= n) => VerdictAt(v, k - 1) = "bad"
         /\ k <= n =>
              VerdictAt(v, k - 1) = IF pattern[k] \notin Directives THEN "bad"
                                    ELSE IF pattern[k] \notin Keys THEN "disputed" ELSE v[k + 1]
<1>1. /\ ~ (k - 1 > n) /\ (k - 1) + 1 = k /\ (k - 1) + 2 = k + 1
      /\ (k - 1 = n <=> ~ (k <= n)) /\ (k + 1 <= n <=> k < n)
  BY KeyPlaces, Zenon
<1>2. ~ ((k - 1) + 2 <= n /\ pattern[(k - 1) + 2] = "{")
  BY <1>1, Zenon
<1>3. VerdictAt(v, k - 1) =
        IF k - 1 = n \/ pattern[(k - 1) + 1] \notin Directives THEN "bad"
        ELSE IF pattern[(k - 1) + 1] \notin Keys THEN "disputed" ELSE v[(k - 1) + 2]
  BY <1>1, <1>2, Zenon DEF VerdictAt
<1>4. QED
  BY <1>1, <1>3, Zenon

(* ... or an opening brace follows, and a closing one has to.              *)
LEMMA BraceFrom ==
  ASSUME NEW v, NEW k \in Nat, NEW n \in Nat, n = Len(pattern), 4 <= k, k <= n + 1,
         pattern[k - 3] = "%", pattern[k - 1] = "{"
  PROVE  VerdictAt(v, k - 3) =
           IF pattern[k - 2] \notin Directives THEN "bad"
           ELSE IF pattern[k - 2] \notin Keys \/ pattern[k - 2] # "d" THEN "disputed"
           ELSE IF Find("}", k) > n THEN "bad" ELSE v[Find("}", k) + 1]
<1>1. /\ ~ (k - 3 > n) /\ (k - 3) + 1 = k - 2 /\ (k - 3) + 2 = k - 1 /\ (k - 3) + 3 = k
      /\ k - 3 # n /\ k - 1 <= n
  BY BracePlaces, Zenon
<1>2. (k - 3) + 2 <= n /\ pattern[(k - 3) + 2] = "{"
  BY <1>1, Zenon
<1>3. VerdictAt(v, k - 3) =
        IF pattern[(k - 3) + 1] \notin Directives THEN "bad"
        ELSE IF pattern[(k - 3) + 1] \notin Keys \/ pattern[(k - 3) + 1] # "d" THEN "disputed"
        ELSE IF Find("}", (k - 3) + 3) > n THEN "bad" ELSE v[Find("}", (k - 3) + 3) + 1]
  BY <1>1, <1>2, Zenon DEF VerdictAt
<1>4. QED
  BY <1>1, <1>3, Zenon

(* Every pass of the parser through the loop moves the verdict to the rest *)
(* of the pattern, or gives it.                                            *)
LEMMA ParseAccept ==
  ASSUME AcceptInv, Parse
  PROVE  AcceptInv'
<1> DEFINE n == Len(pattern)
           F == VerdictFrom
<1>0. ParserInv /\ ParserInv'
  BY ParseParserInv DEF AcceptInv
<1>n. pattern \in Seq(Characters) /\ n \in Nat /\ pos \in Nat /\ pos >= 1
  BY <1>0, ParserNumbers
<1>p. pattern' = pattern
  BY DEF Parse, Normal, PatternKey, PatternBrace, Subpattern, Finish
<1>f. F' = F /\ Verdict' = Verdict
  BY <1>p DEF Verdict, VerdictFrom, VerdictAt, Find
<1>r. result = "parsing"
  BY DEF Parse, Normal, PatternKey, PatternBrace, Subpattern, Finish, InLoop
<1>k. Keys \subseteq Directives
  BY DEF Directives
<1>u. \A j \in 1 .. n + 1 : F[j] = VerdictAt(F, j)
  BY <1>n, VerdictUnfolds
<1>g. SUFFICES ASSUME Verdict # "disputed", Verdict = F[Settled + 1]
               PROVE  IF result' = "parsing" THEN Verdict = F[Settled' + 1]
                      ELSE Verdict = "good" <=> (result' = "0" /\ state' = "NORMAL")
  BY <1>0, <1>f, <1>r DEF AcceptInv, AcceptsWellFormed, Accepted
<1> HIDE DEF n, F
<1>1. CASE Normal
  <2> DEFINE end == Find("%", pos)
  <2>1. result' = "parsing" /\ pos <= n /\ state = "NORMAL"
    BY <1>1, <1>r DEF Normal, InLoop, n
  <2>2. end \in pos .. n + 1 /\ F[pos] = F[end]
    <3>1. pos \in 1 .. Len(pattern) + 1
      BY <1>n, <2>1 DEF n
    <3>2. QED
      BY <1>n, <3>1, FindFacts, LiteralGoesOn DEF n, F
  <2> HIDE DEF end
  <2>3. state' = (IF end > n THEN "NORMAL" ELSE "PATTERN") /\ pos' = end + 1
    BY <1>1 DEF Normal, end, n
  <2>4. Settled + 1 = pos
    BY <1>n, <2>1 DEF Settled, n
  <2>5. Settled' + 1 = end
    BY <1>n, <1>p, <2>2, <2>3 DEF Settled, n
  <2>6. QED
    BY <1>g, <2>1, <2>2, <2>4, <2>5
<1>2. CASE PatternKey
  <2>1. pos <= n /\ state = "PATTERN" /\ ~ (pos < n /\ pattern[pos + 1] = "{")
    BY <1>2 DEF PatternKey, BraceFollows, InLoop, n
  <2>2. /\ AddKey(pattern[pos], << >>)
        /\ state' = "NORMAL" /\ pos' = pos + 1
    BY <1>2 DEF PatternKey
  <2>3. pos \in 2 .. n + 1 /\ pattern[pos - 1] = "%"
    BY <1>0, <2>1 DEF ParserInv, PercentBefore, n
  <2>4. n \in Nat /\ pos \in Nat /\ 2 <= pos /\ pos <= n
    <3>1. n \in Nat /\ pos \in 2 .. n + 1 /\ pos <= n
      BY <1>n, <2>1, <2>3, Zenon
    <3>2. QED
      BY <3>1
  <2>5. Settled + 1 = pos - 1 /\ Settled' + 1 = pos + 1
    <3>1. state = "PATTERN" /\ state' = "NORMAL" /\ pos' = pos + 1
      BY <2>1, <2>2
    <3>2. QED
      BY <1>p, <2>4, <3>1 DEF Settled, n
  <2>6. F[pos - 1] = VerdictAt(F, pos - 1)
    <3>1. pos - 1 \in 1 .. n + 1
      BY <2>4
    <3>2. QED
      BY <1>u, <3>1, Zenon
  <2>7. F[pos - 1] = IF pattern[pos] \notin Directives THEN "bad"
                     ELSE IF pattern[pos] \notin Keys THEN "disputed" ELSE F[pos + 1]
    <3>1. pos <= n + 1
      BY <2>4
    <3>2. QED
      BY <2>1, <2>3, <2>4, <2>6, <3>1, KeyFrom, Zenon DEF n
  <2>v. Verdict = F[pos - 1]
    BY <1>g, <2>5, Zenon
  <2>8. CASE pattern[pos] \in Keys
    <3>1. result' = "parsing"
      BY <1>r, <2>2, <2>8 DEF AddKey
    <3>2. F[pos - 1] = F[pos + 1]
      BY <1>k, <2>7, <2>8, Zenon
    <3>3. QED
      BY <2>v, <2>5, <3>1, <3>2
  <2>9. CASE pattern[pos] \notin Keys
    <3>1. result' = "undefined"
      BY <2>2, <2>9 DEF AddKey
    <3>2. Verdict = "bad"
      BY <1>g, <2>v, <2>7, <2>9, Zenon
    <3>3. QED
      BY <3>1, <3>2
  <2>10. QED
    BY <2>8, <2>9
<1>3. CASE PatternBrace
  <2>1. pos < n /\ state = "PATTERN"
    BY <1>3 DEF PatternBrace, BraceFollows, InLoop, n
  <2>2. state' = "SUBPATTERN" /\ pos' = pos + 2 /\ result' = "parsing"
    BY <1>3, <1>r DEF PatternBrace
  <2>3. Settled' = Settled
    BY <1>n, <1>p, <2>1, <2>2 DEF Settled, n
  <2>4. QED
    BY <1>g, <2>2, <2>3
<1>4. CASE Subpattern
  <2> DEFINE end  == Find("}", pos)
             text == SubSeq(pattern, pos, end - 1)
  <2>1. pos <= n /\ state = "SUBPATTERN"
    BY <1>4 DEF Subpattern, InLoop, n
  <2>2. end \in pos .. n + 1
    <3>1. pos \in 1 .. Len(pattern) + 1
      BY <1>n, <2>1 DEF n
    <3>2. QED
      BY <1>n, <3>1, FindFacts DEF n
  <2> HIDE DEF end
  <2>3. pos \in 4 .. n + 1 /\ pattern[pos - 3] = "%" /\ pattern[pos - 1] = "{"
    BY <1>0, <2>1 DEF ParserInv, EscapeInPattern, n
  <2>4. n \in Nat /\ pos \in Nat /\ 4 <= pos /\ pos <= n /\ pos <= n + 1 /\ end \in pos .. n + 1
    <3>1. n \in Nat /\ pos \in 4 .. n + 1 /\ end \in pos .. n + 1 /\ pos <= n
      BY <1>n, <2>1, <2>2, <2>3, Zenon
    <3>2. QED
      BY <3>1
  <2>5. Settled + 1 = pos - 3
    BY <2>1, <2>4 DEF Settled, n
  <2>6. F[pos - 3] = VerdictAt(F, pos - 3)
    <3>1. pos - 3 \in 1 .. n + 1
      BY <2>4
    <3>2. QED
      BY <1>u, <3>1, Zenon
  <2>7. F[pos - 3] = IF pattern[pos - 2] \notin Directives THEN "bad"
                     ELSE IF pattern[pos - 2] \notin Keys \/ pattern[pos - 2] # "d" THEN "disputed"
                     ELSE IF end > n THEN "bad" ELSE F[end + 1]
    BY <2>3, <2>4, <2>6, BraceFrom, Zenon DEF n, end
  <2>v. Verdict = F[pos - 3]
    BY <1>g, <2>5, Zenon
  <2>8. CASE end > n
    <3>1. result' = "-1"
      BY <1>4, <2>8 DEF Subpattern, end, n
    <3>2. Verdict = "bad"
      BY <1>g, <2>v, <2>7, <2>8, Zenon
    <3>3. QED
      BY <3>1, <3>2
  <2>9. CASE ~ (end > n)
    <3>1. AddKey(pattern[pos - 2], text) /\ state' = "NORMAL" /\ pos' = end + 1
      BY <1>4, <2>9 DEF Subpattern, end, n
    <3>2. end <= n
      BY <2>4, <2>9
    <3>3. Settled' + 1 = end + 1
      BY <1>p, <2>4, <3>1, <3>2 DEF Settled, n
    <3>4. CASE pattern[pos - 2] \in Keys
      <4>1. result' = "parsing"
        BY <1>r, <3>1, <3>4 DEF AddKey
      <4>2. Verdict = F[end + 1]
        BY <1>g, <1>k, <2>v, <2>7, <2>9, <3>4, Zenon
      <4>3. QED
        BY <3>3, <4>1, <4>2
    <3>5. CASE pattern[pos - 2] \notin Keys
      <4>1. result' = "undefined"
        BY <3>1, <3>5 DEF AddKey
      <4>2. Verdict = "bad"
        BY <1>g, <2>v, <2>7, <3>5, Zenon
      <4>3. QED
        BY <4>1, <4>2
    <3>6. QED
      BY <3>4, <3>5
  <2>10. QED
    BY <2>8, <2>9
<1>5. CASE Finish
  <2>1. /\ pos > n /\ UNCHANGED <<pattern, pos, state, items>>
        /\ result' = IF asserts /\ state # "NORMAL" THEN "abort" ELSE "0"
    BY <1>5 DEF Finish, n
  <2>2. result' # "parsing" /\ (state = "NORMAL" => result' = "0") /\ state' = state
    BY <2>1
  <2>3. CASE state = "NORMAL"
    <3>1. Settled + 1 = n + 1
      BY <1>n, <2>1, <2>3 DEF Settled, n
    <3>2. n + 1 \in 1 .. n + 1 /\ n + 1 > n
      BY <1>n
    <3>3. F[n + 1] = VerdictAt(F, n + 1)
      BY <1>u, <3>2, Zenon
    <3>4. VerdictAt(F, n + 1) = "good"
      BY <3>2, Zenon DEF VerdictAt, n
    <3>5. Verdict = "good"
      BY <1>g, <3>1, <3>3, <3>4, Zenon
    <3>6. QED
      BY <2>2, <2>3, <3>5
  <2>4. CASE state = "PATTERN"
    <3>1. pos \in 2 .. n + 1 /\ pattern[pos - 1] = "%"
      BY <1>0, <2>4 DEF ParserInv, PercentBefore, n
    <3>2. pos = n + 1 /\ n \in Nat /\ pos \in Nat /\ 2 <= pos /\ pos <= n + 1 /\ ~ (pos < n) /\ ~ (pos <= n)
          /\ pos - 1 \in 1 .. n + 1
      <4>1. n \in Nat /\ pos \in 2 .. n + 1 /\ pos > n
        BY <1>n, <2>1, <3>1, Zenon
      <4>2. QED
        BY <4>1
    <3>3. VerdictAt(F, pos - 1) = "bad"
      BY <3>1, <3>2, KeyFrom, Zenon DEF n
    <3>4. Settled + 1 = pos - 1
      BY <2>4, <3>2 DEF Settled, n
    <3>5. Verdict = "bad"
      BY <1>g, <1>u, <3>2, <3>3, <3>4, Zenon
    <3>6. QED
      BY <2>2, <2>4, <3>5
  <2>5. CASE state = "SUBPATTERN"
    <3>1. pos \in 4 .. n + 1 /\ pattern[pos - 3] = "%" /\ pattern[pos - 1] = "{"
      BY <1>0, <2>5 DEF ParserInv, EscapeInPattern, n
    <3>2. pos = n + 1 /\ n \in Nat /\ pos \in Nat /\ 4 <= pos /\ pos <= n + 1 /\ pos > n
          /\ pos - 3 \in 1 .. n + 1 /\ pos \in 1 .. n + 1
      <4>1. n \in Nat /\ pos \in 4 .. n + 1 /\ pos > n
        BY <1>n, <2>1, <3>1, Zenon
      <4>2. QED
        BY <4>1
    <3>e. Find("}", pos) > n
      <4> DEFINE end == Find("}", pos)
      <4>1. end \in pos .. n + 1
        BY <1>n, <3>2, FindFacts, Zenon DEF n
      <4> HIDE DEF end
      <4>2. end > n
        BY <3>2, <4>1
      <4>3. QED
        BY <4>2 DEF end
    <3>3. VerdictAt(F, pos - 3) =
            IF pattern[pos - 2] \notin Directives THEN "bad"
            ELSE IF pattern[pos - 2] \notin Keys \/ pattern[pos - 2] # "d" THEN "disputed"
            ELSE IF Find("}", pos) > n THEN "bad" ELSE F[Find("}", pos) + 1]
      BY <3>1, <3>2, BraceFrom, Zenon DEF n
    <3>4. Settled + 1 = pos - 3
      BY <2>5, <3>2 DEF Settled, n
    <3>v. Verdict = VerdictAt(F, pos - 3)
      BY <1>g, <1>u, <3>2, <3>4, Zenon
    <3>5. Verdict = "bad"
      BY <1>g, <3>v, <3>e, <3>3, Zenon
    <3>6. QED
      BY <2>2, <2>5, <3>5
  <2>6. QED
    BY <1>0, <2>3, <2>4, <2>5 DEF ParserInv, ParserTypeOK
<1>6. QED
  BY <1>1, <1>2, <1>3, <1>4, <1>5 DEF Parse

LEMMA InitAcceptInv == Init => AcceptInv
<1> SUFFICES ASSUME Init PROVE AcceptInv
  OBVIOUS
<1>1. ParserInv
  BY InitParserInv DEF Init
<1>2. pos = 1 /\ state = "NORMAL" /\ result = "parsing"
  BY DEF Init, ParserInit
<1>3. Settled + 1 = 1
  BY <1>1, <1>2, ParserNumbers DEF Settled
<1>4. QED
  BY <1>1, <1>2, <1>3 DEF AcceptInv, AcceptsWellFormed, Verdict

LEMMA StepAcceptInv ==
  ASSUME AcceptInv, [Next]_vars
  PROVE  AcceptInv'
<1>1. CASE UNCHANGED parser
  <2>1. ParserInv'
    BY StepParserInv DEF AcceptInv
  <2>2. UNCHANGED <<pattern, pos, state, result>>
    BY <1>1 DEF parser
  <2>3. VerdictFrom' = VerdictFrom /\ Verdict' = Verdict /\ Settled' = Settled
    BY <2>2 DEF Verdict, VerdictFrom, VerdictAt, Find, Settled
  <2>4. QED
    BY <2>1, <2>2, <2>3 DEF AcceptInv, AcceptsWellFormed, Accepted
<1>2. QED
  BY <1>1, ParseAccept DEF Next, Constructor, FormatCall, FormatPlain, FormatDate, vars

(* parsePattern_ accepts exactly the patterns that are good by the comment *)
(* of LogFormatter.h, unless there is a place before the first error where *)
(* code and comment differ, whatever the pattern and the keys of the       *)
(* factory; without assertions also one that breaks off, and then in       *)
(* another state than NORMAL.                                              *)
THEOREM AcceptsWellFormedHolds == Spec => []AcceptsWellFormed
<1>1. AcceptInv => AcceptsWellFormed
  BY DEF AcceptInv
<1>2. AcceptInv /\ [Next]_vars => AcceptInv'
  BY StepAcceptInv
<1>3. QED
  BY <1>1, <1>2, InitAcceptInv, PTL DEF Spec
-----------------------------------------------------------------------------
(* What is printed, and OutputAsPattern.                                   *)

(* What an item adds to what the items before it have printed.             *)
Printed(item, rec) == [s \in Seq(Tokens) |-> s \o Expected(item, rec)]

(* A date is a token, and what an item stands for is a sequence of tokens. *)
LEMMA DateType ==
  ASSUME NEW item \in Items, NEW rec \in Records
  PROVE  << Date(rec.sec, dateFormat(item)) >> \in Seq(Tokens)
<1>1. dateFormat(item) \in Seq(Characters)
  <2>1. item.text \in Seq(Characters)
    BY DEF Items
  <2>2. << "%", "Y" >> \in Seq(Characters)
    BY ConstantsAssumption
  <2>3. QED
    BY <2>1, <2>2 DEF dateFormat, DEFAULT_DATE_FORMAT
<1>2. rec.sec \in Nat
  BY ConstantsAssumption DEF Records
<1>3. QED
  BY <1>1, <1>2 DEF Date, Tokens

LEMMA PrintedType ==
  ASSUME NEW item \in Items, NEW rec \in Records
  PROVE  Printed(item, rec) \in [Seq(Tokens) -> Seq(Tokens)]
<1>1. Expected(item, rec) \in Seq(Tokens)
  BY DateType, PlainType DEF Expected
<1>2. QED
  BY <1>1 DEF Printed

(* The recursive function of ExpectedOf, in the same way as that of        *)
(* SpellingsOf.                                                            *)
Prints(of, seq, rec) ==
  /\ Iterates(of, << >>, [k \in 1 .. Len(seq) |-> Printed(seq[k], rec)], Len(seq))
  /\ \A k \in 0 .. Len(seq) : of[k] \in Seq(Tokens)

LEMMA ExpectedSteps ==
  ASSUME NEW seq \in Seq(Items), NEW rec \in Records
  PROVE  \E of : Prints(of, seq, rec) /\ ExpectedOf(seq, rec) = of[Len(seq)]
<1> DEFINE n == Len(seq)
           X == Seq(Tokens)
           g == [k \in 1 .. n |-> Printed(seq[k], rec)]
           Body(of, k) == IF k = 0 THEN << >> ELSE of[k - 1] \o Expected(seq[k], rec)
           P(of) == of = [k \in 0 .. n |-> Body(of, k)]
           chosen == CHOOSE of : P(of)
<1>1. n \in Nat /\ << >> \in X /\ \A k \in 1 .. n : k \in 0 .. n /\ k # 0
  OBVIOUS
<1>2. g \in [1 .. n -> [X -> X]]
  <2>1. \A k \in 1 .. n : seq[k] \in Items
    OBVIOUS
  <2>2. QED
    BY <2>1, PrintedType
<1>3. PICK f \in [0 .. n -> X] : Iterates(f, << >>, g, n)
  <2> HIDE DEF g, n, X
  <2>1. QED
    BY <1>1, <1>2, IterateExists
<1>4. P(f)
  <2>1. ASSUME NEW k \in 1 .. n PROVE f[k] = Body(f, k)
    <3>1. f[k - 1] \in Seq(Tokens) /\ k # 0
      BY <1>1, <1>3
    <3>2. f[k] = Printed(seq[k], rec)[f[k - 1]]
      BY <1>3 DEF Iterates
    <3>3. QED
      BY <3>1, <3>2 DEF Printed
  <2>2. f[0] = Body(f, 0)
    BY <1>3 DEF Iterates
  <2>3. \A k \in 0 .. n : f[k] = Body(f, k)
    <3> HIDE DEF Body
    <3>1. \A k \in 0 .. n : k = 0 \/ k \in 1 .. n
      BY <1>1
    <3>2. QED
      BY <2>1, <2>2, <3>1
  <2>4. QED
    <3> HIDE DEF Body
    <3>1. QED
      BY <2>3
<1>5. P(chosen)
  <2> HIDE DEF P
  <2>1. QED
    BY <1>4
<1>6. ExpectedOf(seq, rec) = chosen[n]
  BY DEF ExpectedOf
<1>7. PICK of : P(of) /\ ExpectedOf(seq, rec) = of[n]
  <2> HIDE DEF P, chosen, n
  <2>1. QED
    BY <1>5, <1>6
<1>8. \A k \in 0 .. n : of[k] = Body(of, k)
  <2> HIDE DEF Body
  <2>1. QED
    BY <1>7, Zenon
<1>9. of[0] = << >>
  <2>1. of[0] = Body(of, 0)
    <3> HIDE DEF Body
    <3>1. 0 \in 0 .. n
      BY <1>1
    <3>2. QED
      BY <1>8, <3>1, Zenon
  <2>2. QED
    BY <2>1
<1>10. ASSUME NEW k \in 1 .. n, of[k - 1] \in X
       PROVE  of[k] = g[k][of[k - 1]]
  <2>1. of[k] = Body(of, k)
    <3> HIDE DEF Body
    <3>1. QED
      BY <1>1, <1>8, Zenon
  <2>2. g[k][of[k - 1]] = Printed(seq[k], rec)[of[k - 1]]
    OBVIOUS
  <2>3. QED
    BY <1>1, <1>10, <2>1, <2>2 DEF Printed
<1>11. Iterates(of, << >>, g, n) /\ \A k \in 0 .. n : of[k] \in X
  <2> HIDE DEF g, n, X, Body, P
  <2>1. QED
    BY <1>1, <1>2, <1>9, <1>10, IteratesAre
<1>12. QED
  BY <1>7, <1>11 DEF Prints

(* What a list of items stands for, item by item.                          *)
LEMMA ExpectedNone ==
  ASSUME NEW rec \in Records
  PROVE  ExpectedOf(<< >>, rec) = << >>
<1>1. << >> \in Seq(Items) /\ Len(<< >>) = 0
  OBVIOUS
<1>2. PICK of : Prints(of, << >>, rec) /\ ExpectedOf(<< >>, rec) = of[Len(<< >>)]
  BY <1>1, ExpectedSteps
<1>3. of[0] = << >>
  BY <1>2 DEF Prints, Iterates
<1>4. QED
  BY <1>1, <1>2, <1>3

LEMMA ExpectedAppend ==
  ASSUME NEW seq \in Seq(Items), NEW item \in Items, NEW rec \in Records
  PROVE  ExpectedOf(Append(seq, item), rec) = ExpectedOf(seq, rec) \o Expected(item, rec)
<1> DEFINE n == Len(seq)
           more == Append(seq, item)
           g == [k \in 1 .. n |-> Printed(seq[k], rec)]
           d == [k \in 1 .. n + 1 |-> Printed(more[k], rec)]
<1>1. /\ n \in Nat /\ more \in Seq(Items) /\ Len(more) = n + 1 /\ more[n + 1] = item
      /\ \A k \in 1 .. n : more[k] = seq[k]
  OBVIOUS
<1>2. PICK f : Prints(f, seq, rec) /\ ExpectedOf(seq, rec) = f[n]
  BY ExpectedSteps
<1>3. PICK h : Prints(h, more, rec) /\ ExpectedOf(more, rec) = h[n + 1]
  <2> HIDE DEF more
  <2>1. PICK h : Prints(h, more, rec) /\ ExpectedOf(more, rec) = h[Len(more)]
    BY <1>1, ExpectedSteps
  <2>2. QED
    BY <1>1, <2>1
<1>a. Iterates(f, << >>, g, n) /\ f[n] \in Seq(Tokens)
  BY <1>1, <1>2 DEF Prints
<1>b. Iterates(h, << >>, d, n + 1)
  <2> HIDE DEF more
  <2>1. QED
    BY <1>1, <1>3 DEF Prints
<1>4. \A k \in 1 .. n : g[k] = d[k]
  BY <1>1
<1>5. Iterates(h, << >>, d, n)
  BY <1>1, <1>b DEF Iterates
<1>6. f[n] = h[n]
  <2>1. \A k \in 0 .. n : f[k] = h[k]
    <3> HIDE DEF g, d, n, more
    <3>1. QED
      BY <1>1, <1>a, <1>4, <1>5, IteratesAgree, SMT
  <2>2. QED
    BY <1>1, <2>1
<1>7. h[n + 1] = Printed(item, rec)[f[n]]
  <2>1. n + 1 \in 1 .. n + 1 /\ (n + 1) - 1 = n
    BY <1>1
  <2>2. h[n + 1] = d[n + 1][h[n]] /\ d[n + 1] = Printed(item, rec)
    BY <1>1, <1>b, <2>1 DEF Iterates
  <2>3. QED
    BY <1>6, <2>2
<1>8. QED
  BY <1>2, <1>a, <1>3, <1>7 DEF Printed

(* The next item of a record.                                              *)
LEMMA PrintingTypes ==
  ASSUME DateInv, Printing
  PROVE  /\ items \in Seq(Items) /\ items[printed + 1] \in Items
         /\ record \in Records /\ record # NoRecord /\ record.sec \in 1 .. MaxSecond
         /\ Len(items) \in Nat /\ printed \in Nat /\ printed + 1 \in DOMAIN items
<1>1. items \in Seq(Items) /\ Len(items) \in Nat
  BY DEF DateInv, ParserInv, ParserTypeOK
<1>2. printed \in Nat /\ printed < Len(items)
  BY <1>1 DEF Printing, DateInv, TypeOK
<1>3. record \in Records /\ record # NoRecord
  BY DEF Printing, DateInv, TypeOK
<1>4. QED
  BY <1>1, <1>2, <1>3 DEF Records

(* Printing what an item stands for behind what the items before it do.    *)
LEMMA PrintNext ==
  ASSUME DateInv, Printing, Buf!view(buf) = ExpectedOf(SubSeq(items, 1, printed), record),
         NEW s \in Seq(Tokens), s = Expected(items[printed + 1], record),
         buf' = Buf!append(buf, s), printed' = printed + 1, UNCHANGED <<record, items>>
  PROVE  Buf!view(buf') = ExpectedOf(SubSeq(items', 1, printed'), record')
<1> DEFINE item == items[printed + 1]
           before == SubSeq(items, 1, printed)
<1>1. /\ items \in Seq(Items) /\ item \in Items /\ record \in Records
      /\ printed + 1 \in 1 .. Len(items) /\ 1 \in 1 .. Len(items) /\ (printed + 1) - 1 = printed
      /\ Len(items) \in Nat /\ printed \in Nat
  <2>1. /\ items \in Seq(Items) /\ item \in Items /\ record \in Records
        /\ Len(items) \in Nat /\ printed \in Nat /\ printed + 1 \in DOMAIN items
    BY PrintingTypes
  <2>2. DOMAIN items = 1 .. Len(items)
    BY <2>1
  <2>3. QED
    BY <2>1, <2>2
<1>2. SubSeq(items, 1, printed + 1) = Append(before, item)
  <2>1. SubSeq(items, 1, printed + 1) = SubSeq(items, 1, (printed + 1) - 1) \o << items[printed + 1] >>
    BY <1>1, SubSeqRecursiveSecond, Zenon
  <2>2. before \in Seq(Items)
    BY <1>1
  <2>3. Append(before, item) = before \o << item >>
    <3> HIDE DEF before, item
    <3>1. QED
      BY <1>1, <2>2, AppendIsConcat, Zenon
  <2>4. QED
    BY <1>1, <2>1, <2>3, Zenon
<1>3. before \in Seq(Items)
  BY <1>1
<1>4. Buf!view(buf') = Buf!view(buf) \o s
  BY AppendToBuffer DEF DateInv, TypeOK
<1>5. ExpectedOf(Append(before, item), record) = ExpectedOf(before, record) \o Expected(item, record)
  <2> HIDE DEF before, item
  <2>1. QED
    BY <1>1, <1>3, ExpectedAppend
<1>6. ExpectedOf(SubSeq(items', 1, printed'), record') = ExpectedOf(SubSeq(items, 1, printed + 1), record)
  OBVIOUS
<1>7. QED
  <2> HIDE DEF before, item
  <2>1. ExpectedOf(SubSeq(items, 1, printed + 1), record) = Buf!view(buf) \o s
    BY <1>2, <1>5, Zenon DEF before, item
  <2>2. QED
    BY <1>4, <1>6, <2>1

(* With one date format the cache is the date of every item, so the item   *)
(* that is next prints what it stands for, whoever filled the cache.       *)
LEMMA StepOutputInv ==
  ASSUME OutputInv, [Next]_vars
  PROVE  OutputInv'
<1> DEFINE CacheOK == OneDateFormat /\ lastSec # 0 =>
                        \A j \in DOMAIN items :
                          IsDate(items[j]) => cached = << Date(lastSec, dateFormat(items[j])) >>
<1>1. DateInv /\ DateInv'
  BY StepDateInv DEF OutputInv
<1>2. CASE UNCHANGED vars
  <2>1. UNCHANGED <<pattern, pos, state, items, asserts, result, record, printed, buf, lastSec, cached>>
    BY <1>2 DEF vars, parser
  <2>2. CacheOK'
    BY <2>1 DEF OutputInv, OneDateFormat
  <2>3. OutputAsPattern'
    BY <2>1 DEF OutputInv, OutputAsPattern, OneDateFormat, Buf!view, Buf!data
  <2>4. QED
    BY <1>1, <2>1, <2>2, <2>3 DEF OutputInv
<1>3. CASE Constructor
  <2>1. result = "parsing" /\ UNCHANGED <<record, printed, buf, lastSec, cached>>
    BY <1>3 DEF Constructor, Parse, Normal, PatternKey, PatternBrace, Subpattern, Finish, InLoop
  <2>2. record' = NoRecord /\ lastSec' = 0
    BY <2>1 DEF OutputInv
  <2>3. QED
    BY <1>1, <2>2 DEF OutputInv, OutputAsPattern
<1>4. CASE FormatCall
  <2>1. /\ result # "parsing" /\ record' \in Records /\ printed' = 0 /\ buf' = Buf!EmptyBuffer
        /\ UNCHANGED <<items, result, lastSec, cached>>
    BY <1>4 DEF FormatCall, parser
  <2>2. CacheOK'
    BY <2>1 DEF OutputInv, OneDateFormat
  <2>3. OutputAsPattern'
    <3>1. SubSeq(items', 1, printed') = << >>
      BY <2>1, SubSeqEmpty
    <3>2. Buf!view(buf') = << >>
      BY <2>1, NewBuffer, ConstantsAssumption
    <3>3. ExpectedOf(<< >>, record') = << >>
      BY <2>1, ExpectedNone
    <3>4. QED
      BY <3>1, <3>2, <3>3 DEF OutputAsPattern
  <2>4. QED
    BY <1>1, <2>1, <2>2, <2>3 DEF OutputInv
<1>5. ASSUME Printing
      PROVE  result # "parsing" /\ record # NoRecord
  BY <1>5 DEF Printing, OutputInv
<1>6. CASE FormatPlain
  <2> DEFINE item == items[printed + 1]
  <2>1. /\ Printing /\ ~ IsDate(item) /\ buf' = Buf!append(buf, Plain(item, record))
        /\ printed' = printed + 1 /\ UNCHANGED <<items, result, record, lastSec, cached>>
    BY <1>6 DEF FormatPlain, parser
  <2>2. CacheOK'
    BY <2>1 DEF OutputInv, OneDateFormat
  <2>3. OutputAsPattern'
    <3> SUFFICES ASSUME OneDateFormat'
                 PROVE  Buf!view(buf') = ExpectedOf(SubSeq(items', 1, printed'), record')
      BY DEF OutputAsPattern
    <3>1. OneDateFormat
      BY <2>1 DEF OneDateFormat
    <3>2. Buf!view(buf) = ExpectedOf(SubSeq(items, 1, printed), record)
      BY <1>5, <2>1, <3>1 DEF OutputInv, OutputAsPattern
    <3>3. Plain(item, record) = Expected(item, record) /\ Plain(item, record) \in Seq(Tokens)
      BY <1>1, <2>1, PrintingTypes, PlainType DEF Expected
    <3>4. QED
      BY <1>1, <2>1, <3>2, <3>3, PrintNext
  <2>4. QED
    BY <1>1, <1>5, <2>1, <2>2, <2>3 DEF OutputInv
<1>7. CASE FormatDate
  <2> DEFINE item == items[printed + 1]
             format == dateFormat(item)
             date == << Date(record.sec, format) >>
  <2>1. /\ Printing /\ IsDate(item) /\ buf' = Buf!append(buf, cached')
        /\ cached' = (IF record.sec = lastSec THEN cached
                      ELSE IF Len(format) <= DateCapacity THEN date
                      ELSE << Unspecified >>)
        /\ lastSec' = record.sec /\ printed' = printed + 1
        /\ UNCHANGED <<items, result, record>>
    BY <1>7 DEF FormatDate, parser
  <2>2. item \in Items /\ record \in Records /\ record.sec # 0 /\ printed + 1 \in DOMAIN items
    BY <1>1, <2>1, PrintingTypes
  <2>3. ASSUME OneDateFormat
        PROVE  cached' = date
    <3>1. Len(format) <= DateCapacity
      BY <2>1, <2>2, <2>3 DEF OneDateFormat
    <3>2. CASE record.sec = lastSec
      BY <2>1, <2>2, <2>3, <3>2 DEF OutputInv
    <3>3. CASE record.sec # lastSec
      BY <2>1, <3>1, <3>3
    <3>4. QED
      BY <3>2, <3>3
  <2>4. CacheOK'
    <3> SUFFICES ASSUME OneDateFormat', NEW j \in DOMAIN items', IsDate(items'[j])
                 PROVE  cached' = << Date(lastSec', dateFormat(items'[j])) >>
      OBVIOUS
    <3>1. OneDateFormat
      BY <2>1 DEF OneDateFormat
    <3>2. dateFormat(items[j]) = format
      BY <2>1, <2>2, <3>1 DEF OneDateFormat
    <3>3. QED
      BY <2>1, <2>3, <3>1, <3>2
  <2>5. OutputAsPattern'
    <3> SUFFICES ASSUME OneDateFormat'
                 PROVE  Buf!view(buf') = ExpectedOf(SubSeq(items', 1, printed'), record')
      BY DEF OutputAsPattern
    <3>1. OneDateFormat
      BY <2>1 DEF OneDateFormat
    <3>2. Buf!view(buf) = ExpectedOf(SubSeq(items, 1, printed), record)
      BY <1>5, <2>1, <3>1 DEF OutputInv, OutputAsPattern
    <3>3. date = Expected(item, record) /\ date \in Seq(Tokens)
      BY <2>1, <2>2, DateType DEF Expected
    <3>4. buf' = Buf!append(buf, date)
      BY <2>1, <2>3, <3>1
    <3>5. QED
      BY <1>1, <2>1, <3>2, <3>3, <3>4, PrintNext
  <2>6. QED
    BY <1>1, <1>5, <2>1, <2>4, <2>5 DEF OutputInv
<1>8. QED
  BY <1>2, <1>3, <1>4, <1>6, <1>7 DEF Next

LEMMA InitOutputInv == Init => OutputInv
<1> SUFFICES ASSUME Init PROVE OutputInv
  OBVIOUS
<1>1. DateInv
  BY InitDateInv
<1>2. record = NoRecord /\ lastSec = 0
  BY DEF Init
<1>3. QED
  BY <1>1, <1>2 DEF OutputInv, OutputAsPattern

(* With one date format every record is printed as the pattern says, in    *)
(* order and in full, whatever the capacities of the buffer and the cache  *)
(* and whatever was formatted before.                                      *)
THEOREM OutputAsPatternHolds == Spec => []OutputAsPattern
<1>1. OutputInv => OutputAsPattern
  BY DEF OutputInv
<1>2. OutputInv /\ [Next]_vars => OutputInv'
  BY StepOutputInv
<1>3. QED
  BY <1>1, <1>2, InitOutputInv, PTL DEF Spec
=============================================================================
