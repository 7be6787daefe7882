------------------------------ MODULE Strings ------------------------------
(* The string functions of src/util, with the copies that xplist, luninfo,   *)
(* vvinfo and memconf carry: strele (the n-th field of a string), stredit    *)
(* (a list of edits) and trim.  A string is a sequence of characters.        *)
EXTENDS Integers, Sequences, SequencesExt

Quotes == {"\"", "'"}
Blank == {" ", "tab"}            \* isspace
Control == {"ctl"}               \* below 32 and not isspace

-----------------------------------------------------------------------------
(* strele.                                                                   *)

(* Delimiter d stands at position i of s.                                    *)
Matches(d, s, i) == i + Len(d) - 1 <= Len(s) /\ SubSeq(s, i, i + Len(d) - 1) = d

(* The scan of the copies: stop is where it broke off at the delimiter that  *)
(* ends field num, from is where the field begins.                           *)
Scan(num, d, s) ==
  LET At(c, i) ==
        IF c.stop # 0 \/ i < c.next \/ ~Matches(d, s, i) THEN c
        ELSE IF c.count = num THEN [c EXCEPT !.stop = i]
        ELSE [c EXCEPT !.count = @ + 1, !.from = i + Len(d), !.next = i + Len(d)]
  IN  FoldLeft(At, [count |-> 0, from |-> 1, next |-> 1, stop |-> 0],
               [i \in 1..Len(s) |-> i])

ScanEnd(c, s) == IF c.stop = 0 THEN Len(s) ELSE c.stop - 1

(* Seeded fault: the scan starts to count at the second field.               *)
StreleLast(num, d, s) ==
  LET c == Scan(num, d, s) IN SubSeq(s, c.from, ScanEnd(c, s))

Strele(num, d, s) ==
  LET c == Scan(num, d, s)
  IN  IF c.count = num THEN SubSeq(s, c.from, ScanEnd(c, s)) ELSE <<>>

(* In luninfo, -1 asks for the last field.                                   *)
LuninfoStrele(num, d, s) ==
  LET c == Scan(num, d, s)
  IN  IF c.count = num \/ num = -1 THEN SubSeq(s, c.from, ScanEnd(c, s)) ELSE <<>>

(* util's strele skips what is quoted, turns white space into blanks while   *)
(* it goes (in the caller's string), skips a quote at the beginning of every *)
(* field but the first, and ends a field at the next quote.                  *)
UtilStrele(num, d, s) ==
  LET At(c, i) ==
        IF c.stop # 0 \/ i < c.next THEN c
        ELSE IF c.quote # "" THEN [c EXCEPT !.quote = IF s[i] = @ THEN "" ELSE @]
        ELSE LET here == [c EXCEPT !.quote = IF s[i] \in Quotes THEN s[i] ELSE "",
                                   !.s[i] = IF s[i] \in Blank THEN " " ELSE s[i]]
                 after == i + Len(d)
                 opens == after <= Len(s) /\ s[after] \in Quotes
             IN  IF ~Matches(d, here.s, i) THEN here
                 ELSE IF c.count = num THEN [here EXCEPT !.stop = i]
                 ELSE [here EXCEPT !.count = @ + 1, !.next = after,
                                   !.from = IF opens THEN after + 1 ELSE after]
      c == FoldLeft(At, [count |-> 0, from |-> 1, next |-> 1, stop |-> 0,
                         quote |-> "", s |-> s], [i \in 1..Len(s) |-> i])
      field == SubSeq(c.s, c.from, ScanEnd(c, s))
      quotes == {k \in DOMAIN field : field[k] \in Quotes}
      first == CHOOSE k \in quotes : \A m \in quotes : k <= m
  IN  IF c.count # num THEN <<>>
      ELSE IF quotes = {} THEN field ELSE SubSeq(field, 1, first - 1)

-----------------------------------------------------------------------------
(* trim.                                                                     *)

TrimWith(front, back, s) ==
  LET kept == {i \in 1..Len(s) : s[i] \notin front}
      start == CHOOSE i \in kept : \A j \in kept : i <= j
      ends == {i \in start..Len(s) : s[i] \notin back}
      last == CHOOSE i \in ends : \A j \in ends : j <= i
  IN  IF kept = {} \/ ends = {} THEN <<>> ELSE SubSeq(s, start, last)

UtilTrim(s) == TrimWith(Blank \cup Control, Blank, s)
LuninfoTrim(s) == TrimWith(Blank \cup Control, Blank \cup Control, s)
XplistTrim(s) == TrimWith(Blank \cup Control, Blank \cup Control, s)
VvinfoTrim(s) == TrimWith(Blank \cup Control, Blank \cup Control, s)
MemconfTrim(s) == TrimWith({" "}, Blank, s)      \* a leading tab stays

-----------------------------------------------------------------------------
(* stredit.                                                                  *)

Edit == {"COLLAPSE", "COMPRESS", "LOWERCASE", "TRIM", "UNCOMMENT", "UPCASE"}

(* The edits in a list of words, up to an empty one; unknown words are       *)
(* skipped.  Only util knows two more words for UPCASE.                      *)
EditsIn(words) ==
  {words[i] : i \in {k \in DOMAIN words : \A m \in 1..k : words[m] # ""}} \cap Edit
UtilEditsIn(words) ==
  EditsIn([i \in DOMAIN words |->
             IF words[i] \in {"UPPERCASE", "UPPER"} THEN "UPCASE" ELSE words[i]])

NotBlank(ch) == ch \notin Blank
Collapse(s) == SelectSeq(s, NotBlank)

(* A run of white space becomes one blank.                                   *)
Compress(s) ==
  LET Keep(i) == i = 1 \/ NotBlank(s[i]) \/ NotBlank(s[i - 1])
      One(i) == IF ~Keep(i) THEN <<>> ELSE IF NotBlank(s[i]) THEN <<s[i]>> ELSE <<" ">>
  IN  FlattenSeq([i \in 1..Len(s) |-> One(i)])

(* Cut at the first "!".  Without one the loop does not stop at the end of   *)
(* the string (it compares its pointer with zero, not the character), but at *)
(* a "!" somewhere behind it, which it overwrites, or at a fault: wild.      *)
Wild == <<"wild">>
Uncomment(s) ==
  LET marks == {i \in 1..Len(s) : s[i] = "!"}
  IN  IF marks = {} THEN Wild
      ELSE SubSeq(s, 1, (CHOOSE i \in marks : \A j \in marks : i <= j) - 1)

Map(f, s) == [i \in DOMAIN s |-> IF s[i] \in DOMAIN f THEN f[s[i]] ELSE s[i]]
Upper == [a |-> "A"]
Lower == [A |-> "a"]

(* COLLAPSE before COMPRESS, UPCASE before LOWERCASE, TRIM before UNCOMMENT. *)
(* An empty string is returned at once.                                      *)
Stredit(edits, s) ==
  LET spaced == IF "COLLAPSE" \in edits THEN Collapse(s)
                ELSE IF "COMPRESS" \in edits THEN Compress(s) ELSE s
      trimmed == IF "TRIM" \in edits THEN TrimWith({" "}, Blank, spaced) ELSE spaced
      uncommented == IF "UNCOMMENT" \in edits THEN Uncomment(trimmed) ELSE trimmed
  IN  IF s = <<>> THEN s
      ELSE IF "UPCASE" \in edits THEN Map(Upper, uncommented)
      ELSE IF "LOWERCASE" \in edits THEN Map(Lower, uncommented) ELSE uncommented
UtilStredit(words, s) == Stredit(UtilEditsIn(words), s)
XplistStredit(words, s) == Stredit(EditsIn(words), s)
LuninfoStredit(words, s) == Stredit(EditsIn(words), s)

-----------------------------------------------------------------------------
(* bindump: lines of 16 bytes, each with its offset, the bytes in hex and    *)
(* the characters, with a dot for what cannot be printed.                    *)

Printable(ch, low) == ch > low /\ ch < 127
DumpLines(offset, bytes, low) ==
  [k \in 1..(Len(bytes) + 15) \div 16 |->
     LET row == SubSeq(bytes, 16 * k - 15, IF 16 * k > Len(bytes) THEN Len(bytes) ELSE 16 * k)
     IN  [offset |-> offset + 16 * (k - 1), hex |-> row,
          text |-> [i \in DOMAIN row |-> IF Printable(row[i], low) THEN row[i] ELSE 46]]]

UtilBindumpData(offset, bytes) == DumpLines(offset, bytes, 31)

(* The copies print a line as a format: from the first "%" (37) in a text on *)
(* nothing is certain, and what is printed for certain is the lines before.  *)
AsFormats(lines) ==
  LET wild == {k \in DOMAIN lines : 37 \in ToSet(lines[k].text)}
  IN  SubSeq(lines, 1, IF wild = {} THEN Len(lines)
                       ELSE (CHOOSE k \in wild : \A m \in wild : k <= m) - 1)
XplistBindump(bytes) == AsFormats(DumpLines(0, bytes, 32))
LuninfoBindump(bytes) == AsFormats(DumpLines(0, bytes, 32))

(* The dump of a file, read in blocks.                                       *)
UtilBindump(block, bytes) ==
  FlattenSeq([k \in 1..(Len(bytes) + block - 1) \div block |->
                UtilBindumpData(block * (k - 1),
                                SubSeq(bytes, block * (k - 1) + 1,
                                       IF block * k > Len(bytes) THEN Len(bytes) ELSE block * k))])

-----------------------------------------------------------------------------
(* What the functions are for.                                               *)

(* The fields between single-character delimiters: field n lies between the  *)
(* n-th and the next delimiter that Splits counts.                           *)
Between(splits, n, s) ==
  LET Rank(i) == Cardinality({j \in splits : j < i})
      stop == {i \in splits : Rank(i) = n}
      start == {i \in splits : Rank(i) = n - 1}
  IN  IF n > Cardinality(splits) THEN <<>>
      ELSE SubSeq(s, IF n = 0 THEN 1 ELSE 1 + CHOOSE i \in start : TRUE,
                     IF stop = {} THEN Len(s) ELSE (CHOOSE i \in stop : TRUE) - 1)

(* strele returns the n-th of the fields that the delimiter separates, with  *)
(* -1 (luninfo) the last one; the three programs agree on it as long as      *)
(* nothing is quoted, and the parsers of device lists rest on that.          *)
StreleIsField(s) ==
  \A n \in 0..2 :
    LET splits == {i \in 1..Len(s) : s[i] = ","}
    IN  /\ Strele(n, <<",">>, s) = Between(splits, n, s)
        /\ LuninfoStrele(n, <<",">>, s) = Strele(n, <<",">>, s)
        /\ LuninfoStrele(-1, <<",">>, s) = Between(splits, Cardinality(splits), s)
        /\ ToSet(s) \cap Quotes = {} =>
              UtilStrele(n, <<",">>, s) = Map([tab |-> " "], Strele(n, <<",">>, s))

(* A field but the first that is quoted as a whole is returned without its   *)
(* quotes, delimiters and all (util); two delimiter characters in a row work *)
(* like one.                                                                 *)
QuotedFieldIsWhole(s) ==
  ToSet(s) \cap Quotes = {} =>
    /\ UtilStrele(1, <<",">>, <<"a", ",", "'">> \o s \o <<"'", ",", "a">>) = s
    /\ UtilStrele(2, <<",">>, <<",", "\"">> \o s \o <<"\"", ",", "a">>) = <<"a">>
    /\ Strele(1, <<"a", "a">>, <<",", "a", "a">> \o Map([a |-> "A"], s)) = Map(Upper, s)

(* Edits lose blanks and comments and nothing else, in whatever combination, *)
(* and each keeps its promise whatever the others do.  (A blank in front of  *)
(* a comment outlives TRIM, which is done first.)  Only UNCOMMENT leaves the *)
(* string, and only where there is no comment.                               *)
EditsKeepText(s) ==
  \A edits \in SUBSET Edit :
    LET r == Stredit(edits, s)
        front == {i \in DOMAIN s : \A j \in 1..i : s[j] # "!"}
        text == Collapse(IF "UNCOMMENT" \in edits THEN SubSeq(s, 1, Cardinality(front)) ELSE s)
        cased == IF "UPCASE" \in edits THEN Map(Upper, text)
                 ELSE IF "LOWERCASE" \in edits THEN Map(Lower, text) ELSE text
        commented == "UNCOMMENT" \in edits /\ "!" \in ToSet(s)
        uncommentable == "UNCOMMENT" \in edits /\ s # <<>> /\ "!" \notin ToSet(s)
    IN  \/ uncommentable
        \/ /\ Collapse(r) = cased
           /\ "COLLAPSE" \in edits => ToSet(r) \cap Blank = {}
           /\ "COMPRESS" \in edits => \A i \in 1..Len(r) - 1 : r[i] # " " \/ NotBlank(r[i + 1])
           /\ "TRIM" \in edits /\ r # <<>> /\ ~commented =>
                r[1] # " " /\ NotBlank(r[Len(r)])

(* All trims agree on strings without control characters and leading tabs,   *)
(* and change nothing the second time.                                       *)
TrimsAgree(s) ==
  LET trims == {UtilTrim(s), LuninfoTrim(s), XplistTrim(s), VvinfoTrim(s), MemconfTrim(s)}
  IN  /\ (ToSet(s) \cap {"tab", "ctl"} = {} => Cardinality(trims) = 1)
      /\ \A t \in trims : MemconfTrim(t) = t /\ (t # <<>> => NotBlank(t[Len(t)]))

(* The dump of a file holds all its bytes, each at its offset, also when the *)
(* file is longer than a block; the copies dump alike what holds no "%".     *)
DumpIsWhole(bytes) ==
  LET lines == UtilBindump(32, bytes)
  IN  /\ FlattenSeq([k \in DOMAIN lines |-> lines[k].hex]) = bytes
      /\ \A k \in DOMAIN lines : lines[k].offset = 16 * (k - 1)
      /\ \A dump \in {XplistBindump(bytes), LuninfoBindump(bytes)} :
           /\ \A k \in DOMAIN dump : dump[k].hex = lines[k].hex
           /\ 37 \notin ToSet(bytes) => Len(dump) = Len(lines)
=============================================================================
