---------------------------- MODULE PinYinMatch ----------------------------
(***************************************************************************)
(* How the search core (SearchCore.mm) matches a search text with a name   *)
(* and with a telephone number.  A name is a sequence of characters.  A    *)
(* Chinese character has readings, each a sequence of letters, and matches *)
(* by any beginning of a reading; every other character has none and       *)
(* matches itself.  The letters are case-insensitive in the code: one      *)
(* letter stands for both cases.  Characters are model values.             *)
(***************************************************************************)
EXTENDS SequencesExt, FiniteSetsExt

CONSTANTS Hanzi, Letter, Digit,
          Symbol,         \* wide characters without a reading
          Space, Separator,
          PinYin,         \* the readings of each Chinese character
          Keypad,         \* the digit of each letter, where one is in use
          POS_SIGN        \* 128: the weight of a match further on is negative

Wide == Hanzi \union Symbol

Char == Wide \union Letter \union Digit \union {Space, Separator}

ASSUME PinYinAssumption ==
  /\ PinYin \in [Hanzi -> Seq(Seq(Letter) \ {<<>>}) \ {<<>>}]
  /\ Keypad \in [Letter -> Digit]
  /\ POS_SIGN \in Nat \ {0}

\* A character is of one kind only.
ASSUME CharAssumption ==
  /\ Hanzi \intersect Symbol = {}
  /\ Wide \intersect (Letter \union Digit) = {}
  /\ Letter \intersect Digit = {}
  /\ {Space, Separator} \intersect (Wide \union Letter \union Digit) = {}
  /\ Space # Separator

(* The elements of a list that are in a set, in the order of the list.     *)
Kept(list, S) ==
  LET Keep[n \in 0 .. Len(list)] ==
        IF n = 0 THEN <<>>
        ELSE IF list[n] \in S THEN Append(Keep[n - 1], list[n])
        ELSE Keep[n - 1]
  IN Keep[Len(list)]

(* Text2SearchData: what is matched has no spaces.                         *)
Text2SearchData(text) == Kept(text, ToSet(text) \ {Space})

(* Word2Code: the readings of a character, in the order of the tables.     *)
Readings(c) == IF c \in Hanzi THEN PinYin[c] ELSE <<>>

(* keypad: whether letters are taken for digits (tree->iMatchFunc).        *)
ChangeWordToDigit(keypad, c) ==
  IF keypad /\ c \in Letter THEN Keypad[c] ELSE c

CompareWord(keypad, word, input) ==
  ChangeWordToDigit(keypad, word) = ChangeWordToDigit(keypad, input)

(* Letter number char of reading number py of a word, against the input.   *)
IsMatch(keypad, word, py, char, input) ==
  \/ input \in Wide /\ CompareWord(keypad, word, input)
  \/ /\ input \notin Wide /\ Readings(word) = <<>>
     /\ py = 1 /\ char = 1
     /\ CompareWord(keypad, word, input)
  \/ /\ input \notin Wide
     /\ py \in DOMAIN Readings(word) /\ char \in DOMAIN Readings(word)[py]
     /\ CompareWord(keypad, Readings(word)[py][char], input)

-----------------------------------------------------------------------------
(***************************************************************************)
(* IsHit is a depth-first search.  A SearchPos is a word, a reading and a  *)
(* letter; with its fathers it is a path, one position for each character  *)
(* of the search text so far.                                              *)
(***************************************************************************)
SearchPos == [word : Nat \ {0}, py : Nat \ {0}, char : Nat \ {0}]

\* The readings of a word that begin with the input.
FirstLetters(keypad, name, word, input) ==
  {[word |-> word, py |-> py, char |-> 1] :
     py \in {p \in {1} \union DOMAIN Readings(name[word]) :
               IsMatch(keypad, name[word], p, 1, input)}}

\* A text of one character takes the first such reading only.
Starts(keypad, name, query) ==
  {p \in UNION {FirstLetters(keypad, name, word, query[1]) : word \in DOMAIN name} :
     Len(query) = 1 =>
       \A q \in FirstLetters(keypad, name, p.word, query[1]) : p.py <= q.py}

NextLetters(keypad, name, at, input) ==
  {p \in {[at EXCEPT !.char = @ + 1]} :
     Readings(input) = <<>> /\ IsMatch(keypad, name[p.word], p.py, p.char, input)}

NextWords(keypad, name, at, input) ==
  IF at.word < Len(name) THEN FirstLetters(keypad, name, at.word + 1, input) ELSE {}

NextPos(keypad, name, query, path) ==
  IF path = <<>> THEN Starts(keypad, name, query)
  ELSE LET input == query[Len(path) + 1]
       IN NextLetters(keypad, name, Last(path), input)
            \union NextWords(keypad, name, Last(path), input)

(* The last position on the stack is tried first: the first words, then a  *)
(* next word before the next letter, a later reading before an earlier one.*)
TriedBefore(path, p, q) ==
  \/ IF path = <<>> THEN p.word < q.word ELSE p.word > q.word
  \/ p.word = q.word /\ p.py > q.py

Paths(query) == {path \in Seq(SearchPos) : Len(path) <= Len(query)}

\* For each path the first match found by going on from it, or no path.
MatchThrough(keypad, name, query) ==
  LET Try[path \in Paths(query)] ==
        IF Len(path) = Len(query) THEN path
        ELSE LET found == {p \in NextPos(keypad, name, query, path) :
                             Try[Append(path, p)] # <<>>}
             IN IF found = {} THEN <<>>
                ELSE Try[Append(path, CHOOSE p \in found :
                                        \A q \in found : ~TriedBefore(path, q, p))]
  IN Try

(* The path of the first match found, or no path.                          *)
MatchPath(keypad, name, query) == MatchThrough(keypad, name, query)[<<>>]

\* IsHit returns the weight as a signed integer, and what is negative is no
\* match: that a match begins far on in the name makes it negative too.
IsHit(keypad, name, query) ==
  LET path == MatchPath(keypad, name, query)
  IN path # <<>> /\ path[1].word <= POS_SIGN

(***************************************************************************)
(* The weight of a match, from its path: where it starts and ends, whether *)
(* it covers the name, and whether it spells every reading to its end.     *)
(***************************************************************************)
SpellsReadings(name, path) == \A i \in DOMAIN path :
  (i = Len(path) \/ path[i + 1].word # path[i].word) =>
    \/ Readings(name[path[i].word]) = <<>>
    \/ path[i].char = Len(Readings(name[path[i].word])[path[i].py])

\* The end is packed into a byte: 0xFF stands for any word further on.
EndByte(word) == IF word > 2 * POS_SIGN THEN 2 * POS_SIGN ELSE word

(* Mutant: whether the readings are spelled to their end is not looked at. *)
WeightOfCoverage(keypad, name, query) ==
  LET path == MatchPath(keypad, name, query)
      all == path[1].word = 1 /\ Last(path).word = Len(name)
  IN [matchAllInPy |-> all, matchAllInWord |-> all,
      matchStart |-> path[1].word, matchEnd |-> EndByte(Last(path).word)]

Weight(keypad, name, query) ==
  LET path == MatchPath(keypad, name, query)
      all == path[1].word = 1 /\ Last(path).word = Len(name)
  IN [matchAllInPy |-> all /\ SpellsReadings(name, path), matchAllInWord |-> all,
      matchStart |-> path[1].word, matchEnd |-> EndByte(Last(path).word)]

(* SearchSortCmp: v is listed before w, whatever their names.              *)
ListedBefore(v, w) ==
  \/ v.matchAllInPy /\ ~w.matchAllInPy
  \/ /\ v.matchAllInPy = w.matchAllInPy
     /\ \/ v.matchAllInWord /\ ~w.matchAllInWord
        \/ /\ v.matchAllInWord = w.matchAllInWord
           /\ \/ v.matchStart < w.matchStart
              \/ v.matchStart = w.matchStart /\ v.matchEnd > w.matchEnd

-----------------------------------------------------------------------------
(***************************************************************************)
(* IsMatchByKmp: iKmpBuf[i] is how much of the input is matched again at   *)
(* its character i; Fall goes back through it on a character that does not *)
(* continue the match.                                                     *)
(***************************************************************************)
Fall(iKmpBuf, input, j, c) ==
  LET F[i \in 0 .. j] == IF i > 0 /\ input[i + 1] # c THEN F[iKmpBuf[i]] ELSE i
  IN F[j]

Advance(iKmpBuf, input, j, c) ==
  LET i == Fall(iKmpBuf, input, j, c)
  IN IF input[i + 1] = c THEN i + 1 ELSE i

(* Mutant: the table restarts the match from its beginning.                *)
KmpBufRestart(input) == [i \in DOMAIN input |-> 0]

KmpBuf(input) ==
  LET Buf[n \in DOMAIN input] ==
        IF n = 1 THEN <<0>>
        ELSE LET buf == Buf[n - 1]
             IN Append(buf, Advance(buf, input, Last(buf), input[n]))
  IN Buf[Len(input)]

(* The number of characters read when the input is complete for the first  *)
(* time, or 0.  The empty input is complete after one character.           *)
KmpEnd(text, input) ==
  LET iKmpBuf == KmpBuf(input)
      Matched[i \in 0 .. Len(text)] ==
        IF i = 0 \/ input = <<>> THEN 0
        ELSE LET j == Matched[i - 1]
             IN IF j = Len(input) THEN j ELSE Advance(iKmpBuf, input, j, text[i])
      ends == {i \in DOMAIN text : Matched[i] = Len(input)}
  IN IF ends = {} THEN 0 ELSE Min(ends)

IsMatchByKmp(text, input) == KmpEnd(text, input) > 0

\* The places of the match, counted from 1.
KmpPlaces(text, input) ==
  LET end == KmpEnd(text, input)
  IN IF end = 0 THEN <<>>
     ELSE [i \in 1 .. Len(input) |-> end - Len(input) + i]

-----------------------------------------------------------------------------
(***************************************************************************)
(* What a match is, without a search: the text is cut into pieces for      *)
(* consecutive words, and each piece is the word itself or a beginning of  *)
(* one of its readings, whose first letter the word may stand for.         *)
(***************************************************************************)
Beginning(keypad, word, reading, piece) ==
  /\ Len(piece) <= Len(reading)
  /\ \A i \in DOMAIN piece : \/ CompareWord(keypad, reading[i], piece[i])
                             \/ i = 1 /\ piece[1] = word

Piece(keypad, word, piece) ==
  \/ Len(piece) = 1 /\ Readings(word) = <<>> /\ CompareWord(keypad, word, piece[1])
  \/ \E reading \in ToSet(Readings(word)) : Beginning(keypad, word, reading, piece)

FullPiece(keypad, word, piece) ==
  \/ Readings(word) = <<>> /\ Piece(keypad, word, piece)
  \/ \E reading \in ToSet(Readings(word)) :
       Len(piece) = Len(reading) /\ Beginning(keypad, word, reading, piece)

\* The ends of the pieces that a text can be cut into.
Cuts(query) ==
  {ends \in UNION {[1 .. n -> DOMAIN query] : n \in DOMAIN query} :
     /\ \A k \in 2 .. Len(ends) : ends[k - 1] < ends[k]
     /\ Last(ends) = Len(query)}

PieceOf(query, ends, k) ==
  SubSeq(query, IF k = 1 THEN 1 ELSE ends[k - 1] + 1, ends[k])

\* The pieces are for consecutive words, the first one for word j.
Matches(keypad, name, query) ==
  \E ends \in Cuts(query), j \in 1 .. POS_SIGN :
    /\ j + Len(ends) - 1 <= Len(name)
    /\ \A k \in DOMAIN ends : Piece(keypad, name[j + k - 1], PieceOf(query, ends, k))

\* The text spells the whole name.
Spells(keypad, name, query) ==
  \E ends \in Cuts(query) :
    /\ Len(ends) = Len(name)
    /\ \A k \in DOMAIN ends : FullPiece(keypad, name[k], PieceOf(query, ends, k))

\* What a character typed in the middle of a word may not do: IsHit takes a
\* wide character without a reading for the next letter of itself.
RepeatsSymbol(query) == \E i \in 1 .. Len(query) - 1 :
  query[i] \in Symbol /\ query[i + 1] = query[i]
=============================================================================
