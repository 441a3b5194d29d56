----------------------------- MODULE SearchCore -----------------------------
(***************************************************************************)
(* The contact search (SearchCoreManager.mm over SearchCore.mm): contacts  *)
(* are added, replaced and deleted, searched for by pinyin, by keypad or   *)
(* by telephone number, and asked for what a match highlights.             *)
(*                                                                         *)
(* The tree keeps the contacts sorted by id, and for each first letter or  *)
(* digit the contacts of which some word begins with it (iCachedHits).     *)
(* The lists are the sequences that Array implements below one block.      *)
(***************************************************************************)
EXTENDS PinYinMatch

CONSTANTS NonAlpha, Full,   \* the two lists of iCachedHits that are no letter's
          Contact,          \* what a contact can be: id, name and phones
          Text,             \* what is searched for
          Nil

\* No telephone number and no search text holds the mark between numbers.
ASSUME SearchAssumption ==
  /\ Contact \subseteq [id : Int, name : Seq(Char), phones : Seq(Seq(Char \ {Separator}))]
  /\ Text \subseteq Seq(Char \ {Separator})
  /\ Nil \notin Seq(Char)

Id == {c.id : c \in Contact}

(* KCachedHitNum: the keys of iCachedHits.                                 *)
Key == Letter \union Digit \union {NonAlpha, Full}

VARIABLES
  SearchDataArray,    \* the contacts, sorted by id
  iCachedHits,        \* for each key the contacts to look through
  iMatchFunc,         \* whether a keypad is set in the tree
  matchFunction,      \* the manager's note of the keypad, Nil at first
  iCurSeachData,      \* the last search text without spaces, Nil at first
  iMatchTrace,        \* the path of the last match asked for
  shown,              \* the last search and its results, until contacts change
  marks               \* the last answer of GetPinYin or GetPhoneNum

treeVars == <<SearchDataArray, iCachedHits>>
searchVars == <<iMatchFunc, matchFunction, iCurSeachData>>
vars == <<treeVars, searchVars, iMatchTrace, shown, marks>>

SearchData == [id : Id, name : Seq(Char), phone : Seq(Char)]

Shown == [text : Text, names : Seq(Id), phones : Seq(Id)]

Marks == [id : Id, kind : {"name", "phone"}, text : Seq(Char), places : Seq(Nat \ {0})]

TypeOK ==
  /\ SearchDataArray \in Seq(SearchData)
  /\ iCachedHits \in [Key -> Seq(SearchData)]
  /\ iMatchFunc \in BOOLEAN
  /\ matchFunction \in {Nil, "", "keypad"}
  /\ iCurSeachData \in Seq(Char) \union {Nil}
  /\ iMatchTrace \in Seq(SearchPos)
  /\ shown \in Shown \union {Nil}
  /\ marks \in Marks \union {Nil}

SearchTreeInit ==
  /\ SearchDataArray = <<>>
  /\ iCachedHits = [key \in Key |-> <<>>]
  /\ iMatchFunc = FALSE
  /\ matchFunction = Nil
  /\ iCurSeachData = Nil
  /\ iMatchTrace = <<>>
  /\ shown = Nil
  /\ marks = Nil

-----------------------------------------------------------------------------
(* Lists of contacts sorted by id *)

(* The index of the contact, from 0, or -(low + 1) where it would be.      *)
FindSearchDataIndex(array, id) ==
  LET Find[range \in (0 .. Len(array)) \X (-1 .. Len(array) - 1)] ==
        LET low == range[1]
            high == range[2]
            mid == (low + high) \div 2
        IN IF low > high THEN -(low + 1)
           ELSE IF array[mid + 1].id < id THEN Find[<<mid + 1, high>>]
           ELSE IF array[mid + 1].id > id THEN Find[<<low, mid - 1>>]
           ELSE mid
  IN Find[<<0, Len(array) - 1>>]

Has(array, id) == FindSearchDataIndex(array, id) >= 0

DataOf(id) == SearchDataArray[FindSearchDataIndex(SearchDataArray, id) + 1]

\* A contact enters where the search for its id ended, once.
Entered(array, data) ==
  LET index == FindSearchDataIndex(array, data.id)
  IN IF index >= 0 THEN array ELSE InsertAt(array, -index, data)

Left(array, id) ==
  LET index == FindSearchDataIndex(array, id)
  IN IF index >= 0 THEN RemoveAt(array, index + 1) ELSE array

(* The keys a character is found under: AddToCachedHit.                    *)
KeysOf(c) ==
  IF Readings(c) # <<>> THEN {reading[1] : reading \in ToSet(Readings(c))}
  ELSE IF c \in Letter \union Digit THEN {c} ELSE {NonAlpha}

AddToCachedHit(hits, data) ==
  LET keys == {Full} \union UNION {KeysOf(c) : c \in ToSet(data.name)}
  IN [key \in Key |-> IF key \in keys THEN Entered(hits[key], data) ELSE hits[key]]

(* The phones are joined, a separator after each (AddContact).             *)
NewData(contact) ==
  [id |-> contact.id, name |-> Text2SearchData(contact.name),
   phone |-> FlattenSeq([i \in DOMAIN contact.phones |->
                           Append(contact.phones[i], Separator)])]

-----------------------------------------------------------------------------
(* Contacts *)

\* A tree is a record of its two parts here: replacing composes two steps.
Tree == [data |-> SearchDataArray, hits |-> iCachedHits]

Added(tree, contact) ==
  LET data == NewData(contact)
  IN IF Has(tree.data, contact.id) THEN tree
     ELSE [data |-> Entered(tree.data, data), hits |-> AddToCachedHit(tree.hits, data)]

(* Mutant: only the lists of the first readings are looked through.        *)
DeletedFromFirstReadings(tree, id) ==
  LET data == {d \in ToSet(tree.data) : d.id = id}
      keys == {Full} \union UNION {IF Readings(c) # <<>> THEN {Readings(c)[1][1]}
                                   ELSE KeysOf(c) :
                                   c \in UNION {ToSet(d.name) : d \in data}}
  IN [data |-> Left(tree.data, id),
      hits |-> [key \in Key |-> IF key \in keys THEN Left(tree.hits[key], id)
                                ELSE tree.hits[key]]]

Deleted(tree, id) ==
  [data |-> Left(tree.data, id), hits |-> [key \in Key |-> Left(tree.hits[key], id)]]

Becomes(tree) ==
  /\ SearchDataArray' = tree.data
  /\ iCachedHits' = tree.hits
  /\ shown' = Nil /\ marks' = Nil
  /\ UNCHANGED <<searchVars, iMatchTrace>>

AddContact(contact) == Becomes(Added(Tree, contact))

ReplaceContact(contact) == Becomes(Added(Deleted(Tree, contact.id), contact))

DeleteContact(id) == Becomes(Deleted(Tree, id))

-----------------------------------------------------------------------------
(* Searching *)

(* The keypad of a search.  The manager notes "" for whatever it was given,*)
(* and does nothing when it is given "" again.                             *)
KeypadAfter(keypad) == IF matchFunction = "" /\ ~keypad THEN iMatchFunc ELSE keypad

SetMatchFunction(keypad) == matchFunction' = "" /\ iMatchFunc' = KeypadAfter(keypad)

(* Mutant: a digit is looked up among the digits, keypad or not.           *)
CachedHitOfDigit(keypad, c) ==
  iCachedHits[IF Readings(c) # <<>> THEN Readings(c)[1][1]
              ELSE IF c \in Letter \union Digit THEN c ELSE NonAlpha]

SearchCachedHit(keypad, c) ==
  iCachedHits[IF Readings(c) # <<>> THEN Readings(c)[1][1]
              ELSE IF c \in Digit /\ keypad THEN Full
              ELSE IF c \in Letter \union Digit THEN c ELSE NonAlpha]

NameHits(keypad, query) ==
  IF query = <<>> THEN iCachedHits[Full]
  ELSE LET list == SearchCachedHit(keypad, query[1])
       IN Kept(list, {d \in ToSet(list) : IsHit(keypad, d.name, query)})

\* The numbers are compared with the text as it was typed.
TypedDigits(keypad, text) ==
  [i \in DOMAIN text |-> ChangeWordToDigit(keypad, text[i])]

PhoneHits(keypad, text, names) ==
  Kept(iCachedHits[Full],
       {d \in ToSet(iCachedHits[Full]) :
          /\ d.phone # <<>> /\ Len(d.phone) >= Len(text)
          /\ ~Has(names, d.id)
          /\ IsMatchByKmp(d.phone, TypedDigits(keypad, text))})

Ids(array) == [i \in DOMAIN array |-> array[i].id]

(* Contacts of the same weight are listed by name: in any order here.      *)
Sorted(keypad, array, query) ==
  LET weight == [d \in ToSet(array) |-> Weight(keypad, d.name, query)]
  IN {order \in SetToSeqs(ToSet(array)) :
        query # <<>> => \A i, j \in DOMAIN order :
          ListedBefore(weight[order[i]], weight[order[j]]) => i < j}

(* Nothing is searched for when the text is nothing but spaces.            *)
TreeSearch(text, keypad) ==
  LET query == Text2SearchData(text)
  IN /\ iCurSeachData' = query
     /\ IF query = <<>> /\ text # <<>>
        THEN shown' = [text |-> text, names |-> <<>>, phones |-> <<>>]
        ELSE LET names == NameHits(keypad, query)
                 phones == Ids(PhoneHits(keypad, text, names))
             IN \E order \in Sorted(keypad, names, query) :
                  shown' = [text |-> text, names |-> Ids(order), phones |-> phones]

Search(text, keypad) ==
  /\ SetMatchFunction(keypad)
  /\ TreeSearch(text, KeypadAfter(keypad))
  /\ marks' = Nil
  /\ UNCHANGED <<treeVars, iMatchTrace>>

-----------------------------------------------------------------------------
(* What is highlighted *)

(* The letters GetPinYin returns for a name: of each word the reading that *)
(* the path takes, or its first, and the place of its first letter.        *)
ReadingOf(name, path, word) ==
  IF Readings(name[word]) = <<>> THEN <<name[word]>>
  ELSE LET at == {i \in DOMAIN path : path[i].word = word
                                   /\ path[i].py \in DOMAIN Readings(name[word])}
       IN Readings(name[word])[IF at = {} THEN 1 ELSE path[Max(at)].py]

PinYinOf(name, path) == FlattenSeq([w \in DOMAIN name |-> ReadingOf(name, path, w)])

(* Mutant: the place before that of the letter.                            *)
PlaceBefore(name, path, p) ==
  Len(FlattenSeq([w \in 1 .. p.word - 1 |-> ReadingOf(name, path, w)])) + p.char - 1

PlaceOf(name, path, p) ==
  Len(FlattenSeq([w \in 1 .. p.word - 1 |-> ReadingOf(name, path, w)])) + p.char

(* Mutant: the trace of the last match that was asked for is used.         *)
TraceKept(path) == IF iMatchTrace # <<>> THEN iMatchTrace ELSE path

\* A contact that does not match leaves the trace of an earlier one.
Trace(path) == IF path # <<>> THEN path ELSE iMatchTrace

\* Words are passed over in order; a position of an earlier word, or of a
\* reading the word has not, stops all the later ones.
Marked(name, path) ==
  LET Fits(i) ==
        /\ path[i].word \in DOMAIN name
        /\ IF Readings(name[path[i].word]) = <<>>
           THEN path[i].py = 1 /\ (i = 1 \/ path[i - 1].word # path[i].word)
           ELSE path[i].py \in DOMAIN Readings(name[path[i].word])
      fitting == {n \in 0 .. Len(path) : \A i \in 1 .. n : Fits(i)}
  IN SubSeq(path, 1, Max(fitting))

(* Reset: the tree is freed and initialised, the manager's note dropped.   *)
(* A program that ends and starts again has the same state.                *)
Reset ==
  /\ SearchDataArray' = <<>>
  /\ iCachedHits' = [key \in Key |-> <<>>]
  /\ iMatchFunc' = FALSE
  /\ matchFunction' = Nil
  /\ iCurSeachData' = Nil
  /\ iMatchTrace' = <<>>
  /\ shown' = Nil
  /\ marks' = Nil

MarksName(id, query) ==
  LET name == DataOf(id).name
      trace == Trace(MatchPath(iMatchFunc, name, query))
      path == Marked(name, trace)
  IN /\ iMatchTrace' = trace
     /\ marks' = [id |-> id, kind |-> "name", text |-> PinYinOf(name, path),
                  places |-> [i \in DOMAIN path |-> PlaceOf(name, path, path[i])]]
     /\ UNCHANGED <<treeVars, searchVars, shown>>

(* Whether there is a text to match with is not looked at.  Without a      *)
(* search there is no text, which ends the program; of a text of spaces,   *)
(* which is empty, what the memory holds is read for a first character.    *)
GetPinYin(id) ==
  /\ Has(SearchDataArray, id)
  /\ \/ iCurSeachData \notin {Nil, <<>>} /\ MarksName(id, iCurSeachData)
     \/ iCurSeachData = <<>> /\ \E c \in Char : MarksName(id, <<c>>)
     \/ iCurSeachData \in {Nil, <<>>} /\ Reset

(* ChangeToOranagePhones: the number around the first and last place, and  *)
(* the places in that number.                                              *)
AroundPlaces(phone, places) ==
  {i \in DOMAIN phone : \A j \in DOMAIN phone :
     (j \in i .. places[1] \/ j \in Last(places) .. i) => phone[j] # Separator}

NumberAround(phone, places) ==
  LET kept == AroundPlaces(phone, places) IN SubSeq(phone, Min(kept), Max(kept))

PlacesInNumber(phone, places) ==
  [i \in DOMAIN places |-> places[i] - Min(AroundPlaces(phone, places)) + 1]

(* Mutant: letters are not changed to the digits of the keypad.            *)
CurrentText(text) == text

\* The digits of the text without its spaces.
CurrentDigits(text) == TypedDigits(iMatchFunc, text)

PhonePlaces(id) ==
  IF iCurSeachData # Nil /\ Has(SearchDataArray, id)
  THEN KmpPlaces(DataOf(id).phone, CurrentDigits(iCurSeachData)) ELSE <<>>

(* The first place is taken whether there is one or not: without a match, a*)
(* search or a contact to match with, objectAtIndex: ends the program.     *)
GetPhoneNum(id) ==
  LET phone == DataOf(id).phone
      places == PhonePlaces(id)
  IN \/ places = <<>> /\ Reset
     \/ /\ places # <<>>
        /\ marks' = [id |-> id, kind |-> "phone", text |-> NumberAround(phone, places),
                     places |-> PlacesInNumber(phone, places)]
        /\ UNCHANGED <<treeVars, searchVars, iMatchTrace, shown>>

SearchNext ==
  \/ \E contact \in Contact : AddContact(contact) \/ ReplaceContact(contact)
  \/ \E id \in Id : DeleteContact(id)
  \/ \E text \in Text, keypad \in BOOLEAN : Search(text, keypad)
  \/ \E id \in Id : GetPinYin(id)
  \/ \E id \in Id : GetPhoneNum(id)
  \/ Reset

SearchSpec == SearchTreeInit /\ [][SearchNext]_vars

-----------------------------------------------------------------------------
Query == Text2SearchData(shown.text)

\* Under a keypad a letter is looked up among the words that begin with it.
LetterUnderKeypad(query) == iMatchFunc /\ query[1] \in Letter

SortedById(array) == \A i, j \in DOMAIN array : i < j => array[i].id < array[j].id

(* The lists that searches start from (iCachedHits) never disagree with    *)
(* the contacts: every list is sorted by id, without duplicates, and holds *)
(* exactly the contacts with a word of that first letter, whatever was     *)
(* added, replaced and deleted, many readings or one.                      *)
CachesAreExact ==
  /\ SortedById(SearchDataArray)
  /\ \A key \in Key :
       /\ SortedById(iCachedHits[key])
       /\ ToSet(iCachedHits[key]) =
            {d \in ToSet(SearchDataArray) :
               key = Full \/ \E c \in ToSet(d.name) : key \in KeysOf(c)}

(* A search shows exactly the contacts whose names match the text: the     *)
(* list it starts from hides none and the search by position (IsHit) finds *)
(* a match wherever there is one.  Not so for a letter typed under a       *)
(* keypad, nor for a repeated symbol.                                      *)
SearchFindsMatches ==
  (/\ shown # Nil /\ Query # <<>>
   /\ ~LetterUnderKeypad(Query) /\ ~RepeatsSymbol(Query)) =>
    ToSet(shown.names) = {d.id : d \in {e \in ToSet(SearchDataArray) :
                                          Matches(iMatchFunc, e.name, Query)}}

(* A contact whose whole name the text spells is listed before those whose *)
(* names it only begins (SearchSortCmp), if its words have one reading     *)
(* each: of two readings the search may settle for the wrong one.          *)
FullSpellingFirst ==
  (shown # Nil /\ Query # <<>> /\ ~RepeatsSymbol(Query)) =>
    \A i, j \in DOMAIN shown.names :
      LET a == DataOf(shown.names[i]).name
          b == DataOf(shown.names[j]).name
      IN (/\ Spells(iMatchFunc, a, Query) /\ ~Spells(iMatchFunc, b, Query)
          /\ \A c \in ToSet(a) : Len(Readings(c)) <= 1) => i < j

(* What is highlighted for a contact that matches spells the text, letter  *)
(* by letter and in order (Tree_GetPinYin), whatever was asked before.     *)
HighlightSpellsQuery ==
  (/\ marks # Nil /\ marks.kind = "name"
   /\ Matches(iMatchFunc, DataOf(marks.id).name, iCurSeachData)
   /\ ~RepeatsSymbol(iCurSeachData)) =>
    /\ Len(marks.places) = Len(iCurSeachData)
    /\ \A i \in DOMAIN marks.places :
         /\ marks.places[i] \in DOMAIN marks.text
         /\ i > 1 => marks.places[i - 1] < marks.places[i]
         /\ iCurSeachData[i] \notin Hanzi =>
              CompareWord(iMatchFunc, marks.text[marks.places[i]], iCurSeachData[i])

(* A search lists under phones exactly the contacts that it does not list  *)
(* under names and one of whose numbers contains the text.                 *)
PhonesFound ==
  (shown # Nil /\ Query # <<>>) =>
    ToSet(shown.phones) =
      {d.id : d \in {e \in ToSet(SearchDataArray) :
                       TypedDigits(iMatchFunc, shown.text) \in SubSeqs(e.phone)}}
        \ ToSet(shown.names)

(* A number that a search without spaces found can be shown afterwards:    *)
(* GetPhoneNum finds a place, where else it would end the program, and     *)
(* returns one number, and the places in it of the digits.                 *)
PhoneCanBeShown ==
  (shown # Nil /\ Space \notin ToSet(shown.text)) =>
    /\ \A id \in ToSet(shown.phones) : PhonePlaces(id) # <<>>
    /\ (marks # Nil /\ marks.kind = "phone" /\ marks.id \in ToSet(shown.phones)) =>
         /\ Separator \notin ToSet(marks.text)
         /\ Len(marks.places) = Len(iCurSeachData)
         /\ \A i \in DOMAIN marks.places :
              /\ marks.places[i] = marks.places[1] + i - 1
              /\ marks.places[i] \in DOMAIN marks.text
              /\ marks.text[marks.places[i]] = CurrentDigits(iCurSeachData)[i]
=============================================================================
