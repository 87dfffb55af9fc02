------------------------------- MODULE Extraction -------------------------------
(******************************************************************************)
(* The values an application takes from a document, in the callback for a     *)
(* value: numbers, booleans, times and dates.  (extract_nullable and the      *)
(* json_parser__extract_ functions over it, src/streaming-parser.c.)          *)
(*                                                                            *)
(* A text is a sequence of characters; where it ends, the buffer has a NUL.   *)
(******************************************************************************)
EXTENDS Integers, Sequences, SequencesExt

CONSTANTS
  Values,       \* what the parser reports: the value_type, value_start, the characters
                \* from there to value_close, and those behind
  Texts,        \* what extract_nullable is given directly
  IntTypes,     \* the nullable integers: signed or not, with the bits of value
  CharCode,     \* the codes of the characters
  AccumulatorBits,  \* the bits of uint64_t acc
  ReturnWidth,  \* the modulus of the uint8_t returned
  AutoLength    \* the length assumed when there is none given, 128

VARIABLES
  request,  \* the function called last, and its arguments
  answer    \* what it returned (ret) and left in out

extraction == <<request, answer>>

Accumulator == 2^AccumulatorBits

DigitOf == [c \in {"0", "1", "2", "3", "4", "5", "6", "7", "8", "9"} |->
              CharCode[c] - CharCode["0"]]
Signs == {"+", "-"}
Quotes == {"\"", "'"}

At(t, i) == IF i <= Len(t) THEN t[i] ELSE "NUL"
From(t, i) == SubSeq(t, i, Len(t))
StartsWith(t, word) == Len(word) <= Len(t) /\ SubSeq(t, 1, Len(word)) = word

Null  == <<"n", "u", "l", "l">>
True  == <<"t", "r", "u", "e">>
False == <<"f", "a", "l", "s", "e">>

\* How many digits there are from i on, if no more than most are looked at.
Digits(t, i, most) ==
  CHOOSE n \in 0..Len(t) :
    /\ \A j \in 0..(n - 1) : At(t, i + j) \in DOMAIN DigitOf
    /\ n = most \/ At(t, i + n) \notin DOMAIN DigitOf

Magnitude(t, i, n) ==
  FoldLeft(LAMBDA acc, c : (acc * 10 + DigitOf[c]) % Accumulator, 0, SubSeq(t, i, i + n - 1))

Sign(t) == IF At(t, 1) \in Signs THEN 1 ELSE 0

\* Mutant: has one value less below zero.
Narrow_Symmetric(type, v) ==
  LET m == v % 2^type.bits
  IN  IF type.signed /\ m > 2^(type.bits - 1) THEN m - 2^type.bits ELSE m

\* The assignment to a field of so many bits.
Narrow(type, v) ==
  LET m == v % 2^type.bits
  IN  IF type.signed /\ m >= 2^(type.bits - 1) THEN m - 2^type.bits ELSE m

\* The digits looked at; a length used up by the sign wraps round, and is none.
Limit(len, sign) == IF len = sign THEN 2^16 ELSE len - sign

\* A value is the fraction that is assigned to a float, or a whole number.
Zero == [negative |-> FALSE, whole |-> 0, part |-> 0, divisor |-> 1]
Integer(n) == [Zero EXCEPT !.whole = n]

\* FLOAT_TYPE and DOUBLE_TYPE have a sign, and no bits of an integer.
Decimal == [signed |-> TRUE, bits |-> 0]

ReadInt(t, len, type) ==
  LET s        == Sign(t)
      n        == Digits(t, s + 1, Limit(len, s))
      negative == At(t, 1) = "-"
      acc      == Magnitude(t, s + 1, n)
      there    == n > 0 /\ (negative => type.signed)
  IN  CASE StartsWith(t, Null) -> [ret |-> 3, null |-> TRUE, value |-> Zero]
        [] ~StartsWith(t, Null) /\ there ->
             [ret |-> (s + n) % ReturnWidth, null |-> FALSE,
              value |-> Integer(Narrow(type, IF negative THEN -acc ELSE acc))]
        [] OTHER -> [ret |-> 0, null |-> TRUE, value |-> Zero]

ReadDecimal(t, len) ==
  LET s   == Sign(t)
      w   == Digits(t, s + 1, Limit(len, s) + 1)
      dot == w <= Limit(len, s) /\ At(t, s + w + 1) = "."
      d   == IF dot THEN Digits(t, s + w + 2, 2^16) ELSE 0
  IN  CASE StartsWith(t, Null) -> [ret |-> 3, null |-> TRUE, value |-> Zero]
        [] ~StartsWith(t, Null) /\ (w > 0 \/ d > 0) ->
             [ret |-> (s + w + IF dot THEN 1 + d ELSE 0) % ReturnWidth, null |-> FALSE,
              value |-> [negative |-> At(t, 1) = "-",
                         whole |-> Magnitude(t, s + 1, w),
                         part |-> IF dot THEN Magnitude(t, s + w + 2, d) ELSE 0,
                         divisor |-> 10^d % Accumulator]]
        [] OTHER -> [ret |-> 0, null |-> TRUE, value |-> Zero]

ReadNumber(t, len, type) ==
  IF type = Decimal THEN ReadDecimal(t, len) ELSE ReadInt(t, len, type)

Cleared == [ret |-> 0, null |-> TRUE, value |-> Zero]

\* json_parser__extract_nullable of a number.
Chars(v) == v.text \o v.after
Close(v) == v.start + Len(v.text) - 1

\* Mutant: does not look where the number ends.
EndsAtQuote_Any(t, ret) == TRUE

EndsAtQuote(t, ret) == At(t, 2 + ret) = At(t, 1)

NumberOf(v, type) ==
  LET quoted == ReadNumber(From(Chars(v), 2), Len(v.text) - 1, type) IN
  CASE v.type = "JSON_NUMERIC_VALUE" /\ Close(v) > 0 -> ReadNumber(Chars(v), Len(v.text), type)
    [] v.type = "JSON_NULL_VALUE" -> [Cleared EXCEPT !.ret = 1]
    [] v.type \in {"JSON_QUOTE_VALUE", "JSON_DOUBLE_QUOTE_VALUE"}
       /\ quoted.ret > 0 /\ EndsAtQuote(Chars(v), quoted.ret) -> [quoted EXCEPT !.ret = 1]
    [] OTHER -> Cleared

--------------------------------------------------------------------------------
\* os_strncmp of a text and a word of that length is 1.  Some libraries return the
\* difference of the first characters that differ, some only its sign.
StrncmpIsOne(t, word, signOnly) ==
  \E k \in DOMAIN word :
    /\ \A j \in 1..(k - 1) : At(t, j) = word[j]
    /\ LET difference == CharCode[At(t, k)] - CharCode[word[k]]
       IN  difference = 1 \/ (signOnly /\ difference > 0)

Truth(ret, null, truth) == [ret |-> ret, null |-> null, truth |-> truth]

ReadDigits(t) ==
  LET number == ReadInt(t, AutoLength, [signed |-> TRUE, bits |-> AccumulatorBits])
  IN  Truth(number.ret, number.ret = 0, number.ret > 0 /\ number.value # Zero)

\* Mutant: looks for the other quote where digits, but no words, end.
InQuotes_Digits(t, i, inner) ==
  CASE inner.ret = 0 -> Truth(4, FALSE, FALSE)
    [] inner.ret > 0 /\ At(t, i + 1 + inner.ret) = At(t, i) -> [inner EXCEPT !.ret = 0]
    [] OTHER -> Truth(0, TRUE, FALSE)

\* A quote at i, and what is read behind it, which stays if the other quote is where
\* it ends; it returns 0 even then.
InQuotes(t, i, inner) ==
  CASE inner.ret = 0 -> Truth(4, FALSE, FALSE)
    [] inner.ret > 0 /\ At(t, i + 2 + inner.ret) = At(t, i) -> [inner EXCEPT !.ret = 0]
    [] OTHER -> Truth(0, TRUE, FALSE)

ReadBool(t, signOnly) ==
  LET read[i \in 1..(Len(t) + 1)] ==
        LET u == From(t, i) IN
        CASE StrncmpIsOne(u, Null, signOnly) -> Truth(3, TRUE, FALSE)
          [] StartsWith(u, True) /\ ~StrncmpIsOne(u, Null, signOnly) -> Truth(3, FALSE, TRUE)
          [] StartsWith(u, False) -> Truth(4, FALSE, FALSE)
          [] At(u, 1) \in DOMAIN DigitOf -> ReadDigits(u)
          [] At(u, 1) \in Quotes -> InQuotes(t, i, read[i + 1])
          [] OTHER -> Truth(0, TRUE, FALSE)
  IN  read[1]

BoolOf(v, signOnly) ==
  IF v.type \in {"JSON_NULL_VALUE", "JSON_TRUE_VALUE", "JSON_FALSE_VALUE"}
  THEN Truth(1, v.type = "JSON_NULL_VALUE", v.type = "JSON_TRUE_VALUE")
  ELSE ReadBool(Chars(v), signOnly)

--------------------------------------------------------------------------------
Unquoted(t) == IF At(t, 1) \in Quotes THEN From(t, 2) ELSE t

Time(ret, null, hour, minute) == [ret |-> ret, null |-> null, hour |-> hour, minute |-> minute]

\* Mutant: reads one digit of the minutes.
MinuteDigits_One == 1

MinuteDigits == 2

\* hour and minute have six bits each.
ReadTime(t) ==
  LET u == Unquoted(t)
      h == Digits(u, 1, 2)
      m == Digits(u, h + 2, MinuteDigits)
  IN  CASE StartsWith(t, Null) -> Time(3, TRUE, 0, 0)
        [] h > 0 /\ At(u, h + 1) \in {":", "|"} /\ m = 2 ->
             Time(Len(t) - Len(u) + h + 3, FALSE,
                  Magnitude(u, 1, h) % 64, Magnitude(u, h + 2, m) % 64)
        [] OTHER -> Time(0, TRUE, 0, 0)

\* JSON_QUOTE_VALUE is 4, which json_parser__extract_time compares value_close with.
LooksQuoted(v) == v.type = "JSON_DOUBLE_QUOTE_VALUE" \/ Close(v) = 4

TimeOf(v) ==
  LET time == ReadTime(Chars(v)) IN
  CASE v.type = "JSON_NULL_VALUE" -> Time(1, TRUE, 0, 0)
    [] v.type # "JSON_NULL_VALUE" /\ LooksQuoted(v) -> [time EXCEPT !.ret = IF @ > 0 THEN 1 ELSE 0]
    [] OTHER -> Time(0, TRUE, 0, 0)

--------------------------------------------------------------------------------
SINT15 == [signed |-> TRUE, bits |-> 15]

NoDate == [year |-> 0, month |-> 0, day |-> 0, hour |-> 0, minute |-> 0, second |-> 0,
           offset_sign |-> 0, offset_hour |-> 0, offset_minute |-> 0]

\* What may follow each of the numbers of a date and time, for the next to be read.
Separators ==
  <<{"-"}, {"-"}, {"T", " "}, {":"}, {":"}, Signs, {":"}>>

Remainder(v, n) == IF v < 0 THEN -((-v) % n) ELSE v % n

\* Mutant: takes an offset of hours for one of hours and minutes.
OffsetDigits_Any(ret) == ret > 0

OffsetDigits(ret) == ret = 4

\* The fields are read one behind the other; place[k] is where the k-th begins, 0 if the
\* loop has ended before.  An offset is only known as four digits: of hh:mm the second
\* number is read, but not said to be there.
ReadDateTime(t) ==
  LET u         == Unquoted(t)
      number(i) == ReadInt(From(u, i), AutoLength, SINT15)
      place[k \in 1..7] ==
        IF k = 1 THEN (IF At(u, 1) # "NUL" THEN 1 ELSE 0)
        ELSE LET i == place[k - 1] + number(place[k - 1]).ret
             IN  IF /\ place[k - 1] > 0 /\ number(place[k - 1]).ret > 0
                    /\ At(u, i) \in Separators[k - 1] /\ At(u, i + 1) # "NUL"
                 THEN i + 1 ELSE 0
      field(k)  == IF place[k] > 0 THEN number(place[k]).value.whole ELSE 0
      behind    == place[6] + number(place[6]).ret
      complete  == place[6] > 0 /\ At(u, behind) \in Quotes \cup {"Z"}
      offset    == place[7] > 0 /\ OffsetDigits(number(place[7]).ret)
      minutes   == Remainder(field(7), 100)
      date      == [year |-> field(1) % 2^12, month |-> field(2) % 2^4, day |-> field(3) % 2^5,
                    hour |-> field(4) % 2^6, minute |-> field(5) % 2^6, second |-> field(6) % 2^6,
                    offset_sign |-> IF offset /\ At(u, behind) = "-" THEN 1 ELSE 0,
                    offset_hour |-> IF offset THEN ((field(7) - minutes) \div 100) % 2^7 ELSE 0,
                    offset_minute |-> IF offset THEN minutes % 2^8 ELSE 0]
  IN  IF complete \/ offset THEN [null |-> FALSE, date |-> date] ELSE [null |-> TRUE, date |-> NoDate]

\* A date is never said to have been read: return_code stays 0.
DateTimeOf(v) ==
  LET read == IF LooksQuoted(v) THEN ReadDateTime(Chars(v)) ELSE [null |-> TRUE, date |-> NoDate] IN
  IF v.type = "JSON_NULL_VALUE" THEN [ret |-> 1, null |-> TRUE, date |-> NoDate]
  ELSE [ret |-> 0, null |-> read.null, date |-> read.date]

--------------------------------------------------------------------------------
Idle == [call |-> "none"]

ExtractionInit == request = Idle /\ answer = Cleared

ExtractNumber(v, type) ==
  /\ request' = [call |-> "number", value |-> v, type |-> type]
  /\ answer' = NumberOf(v, type)

\* extract_nullable itself, given a text and no length.
ExtractFromText(t, type) ==
  /\ request' = [call |-> "text", text |-> t, type |-> type]
  /\ answer' = ReadNumber(t, AutoLength, type)

ExtractBool(v, signOnly) ==
  /\ request' = [call |-> "bool", value |-> v, signOnly |-> signOnly]
  /\ answer' = BoolOf(v, signOnly)

ExtractTime(v) ==
  /\ request' = [call |-> "time", value |-> v]
  /\ answer' = TimeOf(v)

ExtractDateTime(v) ==
  /\ request' = [call |-> "date_time", value |-> v]
  /\ answer' = DateTimeOf(v)

\* The callback returns.
Return == request # Idle /\ request' = Idle /\ answer' = Cleared

Extract ==
  \/ \E v \in Values :
       \/ \E type \in IntTypes \cup {Decimal} : ExtractNumber(v, type)
       \/ \E signOnly \in BOOLEAN : ExtractBool(v, signOnly)
       \/ ExtractTime(v)
       \/ ExtractDateTime(v)
  \/ \E t \in Texts, type \in IntTypes \cup {Decimal} : ExtractFromText(t, type)

ExtractionNext == (request = Idle /\ Extract) \/ Return

ExtractionSpec == ExtractionInit /\ [][ExtractionNext]_extraction

--------------------------------------------------------------------------------
\* What digits are worth, by their places.
Worth(digits) ==
  FoldLeft(LAMBDA sum, i : sum + DigitOf[digits[i]] * 10^(Len(digits) - i), 0,
           [i \in DOMAIN digits |-> i])

AreDigits(t) == Range(t) \subseteq DOMAIN DigitOf

\* A number as JSON has it, without exponent: its digits before and behind the point.
Body(t) == IF At(t, 1) = "-" THEN From(t, 2) ELSE t
Whole(t) == SubSeq(Body(t), 1, Digits(Body(t), 1, Len(t)))
Part(t)  == From(Body(t), Len(Whole(t)) + 2)
IsNumber(t) ==
  /\ Len(Whole(t)) > 0 /\ AreDigits(Part(t))
  /\ Len(Body(t)) > Len(Whole(t)) => /\ Body(t)[Len(Whole(t)) + 1] = "." /\ Len(Part(t)) > 0

Signed(t, n) == IF At(t, 1) = "-" THEN -n ELSE n

\* Can the type hold the number, and the accumulators the digits?
Fits(t, type) ==
  LET n == Signed(t, Worth(Whole(t))) IN
  IF type = Decimal
  THEN {Worth(Whole(t)), Worth(Part(t)), 10^Len(Part(t))} \subseteq 0..(Accumulator - 1)
  ELSE IF type.signed THEN n \in -(2^(type.bits - 1))..(2^(type.bits - 1) - 1)
       ELSE At(t, 1) # "-" /\ n < 2^type.bits

IsExactly(out, t, type) ==
  /\ ~out.null
  /\ IF type = Decimal
     THEN /\ out.value.negative = (At(t, 1) = "-")
          /\ out.value.divisor = 10^Len(Part(t))
          /\ out.value.whole = Worth(Whole(t)) /\ out.value.part = Worth(Part(t))
     ELSE out.value = Integer(Signed(t, Worth(Whole(t))))

\* A number of a document is extracted as exactly the number it is (an integer as its
\* whole part), if its type can hold it and its length fits in the value returned.
NumbersExact ==
  request.call = "number" /\ request.value.type = "JSON_NUMERIC_VALUE" =>
    LET t == request.value.text IN
    IsNumber(t) /\ Fits(t, request.type) /\ Len(t) < ReturnWidth =>
      answer.ret > 0 /\ IsExactly(answer, t, request.type)

\* So is a number in quotes, as an integer only if it has no point; and a text in quotes
\* that has digits and no point and is not, from quote to quote, a number with or without
\* a sign is null: nothing is made of the digits it begins with.  Of texts with a point
\* that are no number nothing is said: "12." is read as 12 into a decimal.
Inner(v) == SubSeq(v.text, 2, Len(v.text) - 1)
InQuoteMarks(v) == v.type \in {"JSON_QUOTE_VALUE", "JSON_DOUBLE_QUOTE_VALUE"}
Bare(t) == IF At(t, 1) = "+" /\ At(t, 2) \notin Signs THEN From(t, 2) ELSE t
QuotedNumbersWhole ==
  request.call = "number" /\ InQuoteMarks(request.value) =>
    LET t == Bare(Inner(request.value)) IN
    /\ answer.ret = 0 => answer.null
    /\ IsNumber(t) /\ Fits(t, request.type) /\ Len(Inner(request.value)) < ReturnWidth
       /\ (request.type = Decimal \/ Part(t) = <<>>) =>
         answer.ret = 1 /\ IsExactly(answer, t, request.type)
    /\ ~IsNumber(t) /\ Range(t) \cap DOMAIN DigitOf # {} /\ "." \notin Range(t) => answer.null

\* true, false, null and 0 or more are extracted as the boolean they are; true and false
\* in quotes too, where strncmp returns the difference.  Of a text in quotes that begins
\* with digits, what is not null is the boolean the digits are, and they reach up to the
\* closing quote or to the character in front of it.  (The comment at 1465 has it that such
\* an entry must terminate; the code looks one character too far: "1" is null, "1x" is not.)
BoolsAsWritten ==
  request.call = "bool" =>
    LET v == request.value
        t == IF v.type = "JSON_NUMERIC_VALUE" THEN v.text ELSE Inner(v)
        digits == SubSeq(t, 1, Digits(t, 1, Len(t)))
        counted == digits # <<>> /\ Worth(digits) < Accumulator /\ Len(digits) < ReturnWidth
        asWritten == ~answer.null /\ answer.truth = (Worth(digits) > 0)
    IN  /\ v.type = "JSON_NULL_VALUE" => answer.null
        /\ v.type = "JSON_TRUE_VALUE" => ~answer.null /\ answer.truth
        /\ v.type = "JSON_FALSE_VALUE" => ~answer.null /\ ~answer.truth
        /\ v.type = "JSON_NUMERIC_VALUE" /\ AreDigits(t) /\ counted => asWritten
        /\ InQuoteMarks(v) /\ counted => answer.null \/ (asWritten /\ Len(t) <= Len(digits) + 1)
        /\ ~request.signOnly /\ t \in {True, False} => ~answer.null /\ answer.truth = (t = True)

\* A time of day in double quotes is extracted as the hour and the minute it is printed
\* from.  In either quotes, what is extracted is null, with the answer 0 and nothing in the
\* fields, or the two numbers the text begins with, each in the six bits of its field:
\* 99:99 is no time of day and comes out as 35:35, and no text comes out as anything else.
\* (json_parser__extract_time compares value_close, where it means value_type, with
\* JSON_QUOTE_VALUE: in single quotes a time is null.)
Two(n) == <<CHOOSE c \in DOMAIN DigitOf : DigitOf[c] = n \div 10,
            CHOOSE c \in DOMAIN DigitOf : DigitOf[c] = n % 10>>
One(n) == IF n < 10 THEN Tail(Two(n)) ELSE Two(n)
Clock(hour, bar, minute) == hour \o <<bar>> \o Two(minute)
IsTime(t, h, m) ==
  \E bar \in {":", "|"} : t \in {Clock(Two(h), bar, m), Clock(One(h), bar, m)}
TimesAsWritten ==
  request.call = "time" /\ InQuoteMarks(request.value) =>
    LET t == Inner(request.value)
    IN  /\ answer.null <=> answer.ret = 0
        /\ answer.null => answer.hour = 0 /\ answer.minute = 0
        /\ request.value.type = "JSON_DOUBLE_QUOTE_VALUE" =>
             \A h \in 0..23, m \in 0..59 :
               IsTime(t, h, m) => ~answer.null /\ answer.hour = h /\ answer.minute = m
        /\ ~answer.null => \E n, m \in 0..99, bar \in {":", "|"} :
             /\ \E hour \in {Two(n), One(n)} : StartsWith(t, Clock(hour, bar, m))
             /\ answer.hour = n % 64 /\ answer.minute = m % 64

\* A date and time in double quotes with an offset of four digits, with Z, or with neither,
\* is extracted as what its text is printed from.  In either quotes, one that is cut off
\* before the seconds is null; one with a sign behind the seconds is null, or the whole
\* rest is the offset it is extracted with, +hhmm or +hh:mm: no part of it is taken for a
\* time zone.  What is null has 0 in every field.
Printed(d) ==
  Two(d.year \div 100) \o Two(d.year % 100) \o <<"-">> \o Two(d.month) \o <<"-">> \o Two(d.day)
    \o <<"T">> \o Two(d.hour) \o <<":">> \o Two(d.minute) \o <<":">> \o Two(d.second)
Offset(d) == <<IF d.offset_sign = 1 THEN "-" ELSE "+">> \o Two(d.offset_hour) \o Two(d.offset_minute)
IsDate(t) ==
  /\ Len(t) \in {19, 20, 24}
  /\ \A i \in 1..Len(t) :
       CASE i \in {5, 8} -> t[i] = "-"
         [] i = 11 -> t[i] = "T"
         [] i \in {14, 17} -> t[i] = ":"
         [] i = 20 -> t[i] \in IF Len(t) = 20 THEN {"Z"} ELSE Signs
         [] OTHER -> t[i] \in DOMAIN DigitOf
  /\ Worth(SubSeq(t, 1, 4)) < 2^12 /\ Worth(SubSeq(t, 6, 7)) < 13 /\ Worth(SubSeq(t, 9, 10)) < 32
  /\ \A i \in {12, 15, 18} : Worth(SubSeq(t, i, i + 1)) < 60
DatesAsWritten ==
  request.call = "date_time" /\ InQuoteMarks(request.value) =>
    LET t == Inner(request.value)
        d == answer.date
        hours == Printed(d) \o <<IF d.offset_sign = 1 THEN "-" ELSE "+">> \o Two(d.offset_hour)
    IN  /\ answer.null => d = NoDate
        /\ Len(SelectSeq(t, LAMBDA c : c = ":")) < 2 => answer.null
        /\ request.value.type = "JSON_DOUBLE_QUOTE_VALUE" /\ IsDate(t) =>
             ~answer.null /\ t \in {Printed(d), Printed(d) \o <<"Z">>, Printed(d) \o Offset(d)}
        /\ Len(t) > 19 /\ At(t, 20) \in Signs /\ IsDate(SubSeq(t, 1, 19)) /\ ~answer.null =>
             t \in {hours \o Two(d.offset_minute), hours \o <<":">> \o Two(d.offset_minute)}
================================================================================
