CONSTANTS
  an = an
  na = na
  la = la
  lb = lb
  ln = ln
  d2 = d2
  d6 = d6
  no = no
  Hanzi = {an, na}
  Letter = {la, lb, ln}
  Digit = {d2, d6}
  Symbol = {no}
  Space = space
  Separator = separator
  NonAlpha = nonAlpha
  Full = full
  Nil = nil
  POS_SIGN = 2
  PinYin <- MCPinYin
  Keypad <- MCKeypad
  Contact <- MCContact
  Text <- MCText
SPECIFICATION SearchSpec
INVARIANTS TypeOK CachesAreExact SearchFindsMatches FullSpellingFirst
           HighlightSpellsQuery PhonesFound PhoneCanBeShown
