----------------------------- MODULE SpellCheck -----------------------------
(***************************************************************************)
(* What POST /spellcheck and POST /spellcheck/positions compute: the       *)
(* tokenizer of src/src/engine.rs, the validation of their body            *)
(* (src/src/models.rs) and the results the two handlers build from one     *)
(* input (src/src/handlers.rs).                                            *)
(*                                                                         *)
(* A text is a sequence of characters, of which the code looks at three    *)
(* things: white space, punctuation and the bytes of their encoding.  The  *)
(* dictionary is external: a set of valid words, and suggestions, of which *)
(* some invalid words have none.  Left out: the byte offsets of a token,   *)
(* which no response holds.                                                *)
(***************************************************************************)
EXTENDS Naturals, Sequences, FiniteSets, FiniteSetsExt, Functions

CONSTANTS
  Letters,      \* characters that are neither of the next two
  Punctuation,  \* .,;:!?"'()[]{}
  Spaces,       \* Unicode white space
  Utf8,         \* the bytes of each character
  Valid,        \* words the dictionary knows
  Hopeless,     \* words it has no suggestion for
  Languages,    \* language codes
  Absent,       \* a field the body does not have
  MaxText,      \* characters of a text, 10 000
  MaxWords,     \* words of a list, 1 000
  Texts,        \* texts to look at
  WordLists     \* lists of words to look at

Chars == Letters \union Punctuation \union Spaces

ASSUME SpellCheckAssumption ==
  /\ Letters \cap Punctuation = {} /\ Spaces \cap (Letters \union Punctuation) = {}
  /\ Utf8 \in [Chars -> 1..4]
  /\ MaxText \in Nat /\ MaxWords \in Nat
  /\ Texts \subseteq Seq(Chars)
  /\ WordLists \subseteq Seq(Seq(Chars))
  /\ Absent \notin Texts \union WordLists \union Languages

check(word) == word \in Valid

suggest(word) == IF word \in Hopeless THEN <<>> ELSE << <<"near", word>> >>

-----------------------------------------------------------------------------
\* The bytes before each character and after the last: what char_indices counts.
Offsets(s) ==
  LET before[i \in 1..(Len(s) + 1)] == IF i = 1 THEN 0 ELSE before[i - 1] + Utf8[s[i - 1]]
  IN before

Offset(s, i) == Offsets(s)[i]

Bytes(s) == Offset(s, Len(s) + 1)

Boundaries(s) == {Offset(s, i) : i \in 1..(Len(s) + 1)}

\* &s[from..to] panics unless both ends are inside s and between characters.
Sliceable(s, from, to) == from <= to /\ {from, to} \subseteq Boundaries(s)

Slice(s, from, to) ==
  LET inside == {i \in DOMAIN s : from <= Offset(s, i) /\ Offset(s, i) < to}
  IN IF inside = {} THEN <<>> ELSE SubSeq(s, Min(inside), Max(inside))

\* The regular expression \S+: maximal runs, in order.
Runs(text) ==
  LET IsRun(i, j) ==
        /\ i <= j /\ \A k \in i..j : text[k] \notin Spaces
        /\ i = 1 \/ text[i - 1] \in Spaces
        /\ j = Len(text) \/ text[j + 1] \in Spaces
  IN {m \in (DOMAIN text) \X (DOMAIN text) : IsRun(m[1], m[2])}

\* Spans of a text from left to right: the k-th begins where k of them have.
InOrder(spans) ==
  [k \in 1..Cardinality(spans) |->
     CHOOSE m \in spans : Cardinality({n \in spans : n[1] <= m[1]}) = k]

(***************************************************************************)
(* strip_surrounding_punctuation.  start is a byte offset into s, end one  *)
(* into what follows start; without a character to keep, both are the      *)
(* length of s.                                                            *)
(***************************************************************************)
Kept(s) == {i \in DOMAIN s : s[i] \notin Punctuation}

StripStart(s) == IF Kept(s) = {} THEN Bytes(s) ELSE Offset(s, Min(Kept(s)))

\* Mutant: the last character is taken to be one byte long.
StripEndOneByte(s) ==
  LET rest == SubSeq(s, Min(Kept(s)), Len(s))
  IN IF Kept(s) = {} THEN StripStart(s) ELSE Offset(rest, Max(Kept(rest))) + 1

StripEnd(s) ==
  LET rest == SubSeq(s, Min(Kept(s)), Len(s))
      last == Max(Kept(rest))
  IN IF Kept(s) = {} THEN StripStart(s) ELSE Offset(rest, last) + Utf8[rest[last]]

strip(s) == Slice(s, StripStart(s), StripStart(s) + StripEnd(s))

StripPanics(s) == ~Sliceable(s, StripStart(s), StripStart(s) + StripEnd(s))

Raw(text, match) == SubSeq(text, match[1], match[2])

TokenizePanics(text) == \E match \in Runs(text) : StripPanics(Raw(text, match))

Token(text, match) == [token |-> strip(Raw(text, match)), start_char |-> match[1] - 1]

\* find_iter, without the matches that are left out as nothing is left of them.
Matches(text) == {match \in Runs(text) : strip(Raw(text, match)) # <<>>}

\* The tokens of a text that does not panic, with the place of their match.
tokenize(text) ==
  LET matches == InOrder(Matches(text))
  IN [k \in DOMAIN matches |-> Token(text, matches[k])]

-----------------------------------------------------------------------------
(***************************************************************************)
(* The body: text, words and language, each of which may be absent.        *)
(***************************************************************************)
Body == [text: Texts \union {Absent}, words: WordLists \union {Absent},
         language: Languages \union {Absent}]

\* The codes is_valid_language_code lets through are the ones in Languages.
validate(body) ==
  /\ body.text # Absent => Len(body.text) <= MaxText
  /\ body.words # Absent => Len(body.words) <= MaxWords
  /\ body.text # Absent \/ body.words # Absent

Given(field) == IF field = Absent THEN <<>> ELSE field

Panics(body) == TokenizePanics(Given(body.text))

token_result(word) ==
  [token |-> word, valid |-> check(word), suggestions |-> IF check(word) THEN <<>> ELSE suggest(word)]

\* Mutant: the words are answered before the text.
spellcheck_words_first(body) ==
  LET tokens == tokenize(Given(body.text))
      words == Given(body.words)
  IN [k \in DOMAIN words |-> token_result(words[k])]
     \o [k \in DOMAIN tokens |-> token_result(tokens[k].token)]

spellcheck(body) ==
  LET tokens == tokenize(Given(body.text))
      words == Given(body.words)
  IN [k \in DOMAIN tokens |-> token_result(tokens[k].token)]
     \o [k \in DOMAIN words |-> token_result(words[k])]

Misspelled(words) == {w \in Range(words) : ~check(w)}

\* A map from misspelled words to their entry; a word of the list has no place.
spellcheck_positions(body) ==
  LET text == Given(body.text)
      tokens == tokenize(text)
      at(w) == InOrder({match \in Matches(text) : Token(text, match).token = w})
  IN {[token |-> w,
       positions |-> [k \in DOMAIN at(w) |-> Token(text, at(w)[k]).start_char],
       suggestions |-> suggest(w)]
      : w \in Misspelled([k \in DOMAIN tokens |-> tokens[k].token] \o Given(body.words))}

-----------------------------------------------------------------------------
(***************************************************************************)
(* The reference, without runs, bytes or slices: text[i..j] is a token     *)
(* when it is as long as it can be between white space with punctuation    *)
(* taken off on both sides.                                                *)
(***************************************************************************)
Edge(text, i) == i \notin DOMAIN text \/ text[i] \in Spaces

OnlyPunctuation(text, from, to) == \A k \in from..to : text[k] \in Punctuation

Occurrence(text, i, j) ==
  /\ i <= j /\ \A k \in i..j : text[k] \notin Spaces
  /\ text[i] \notin Punctuation /\ text[j] \notin Punctuation
  /\ \E b \in 0..(i - 1) : Edge(text, b) /\ OnlyPunctuation(text, b + 1, i - 1)
  /\ \E e \in (j + 1)..(Len(text) + 1) : Edge(text, e) /\ OnlyPunctuation(text, j + 1, e - 1)

\* Punctuation that stands alone between white space.
HasBareRun(text) ==
  \E i, j \in DOMAIN text :
    i <= j /\ OnlyPunctuation(text, i, j) /\ Edge(text, i - 1) /\ Edge(text, j + 1)

Occurrences(text) == {p \in (DOMAIN text) \X (DOMAIN text) : Occurrence(text, p[1], p[2])}

Places(text) == InOrder(Occurrences(text))

(***************************************************************************)
(* F06a and F09a: of a text without bare punctuation, the tokens are its   *)
(* occurrences, all of them and in order, each placed at the white space   *)
(* or punctuation before it; no other text panics (see TextsAreAnswered).  *)
(***************************************************************************)
TokensMatch(text) ==
  /\ TokenizePanics(text) => HasBareRun(text)
  /\ ~HasBareRun(text) =>
       LET tokens == tokenize(text)
           places == Places(text)
       IN /\ Len(tokens) = Len(places)
          /\ \A k \in DOMAIN places :
               LET at == tokens[k].start_char
               IN /\ tokens[k].token = SubSeq(text, places[k][1], places[k][2])
                  /\ Edge(text, at) /\ OnlyPunctuation(text, at + 1, places[k][1] - 1)

(***************************************************************************)
(* F06, F06a and F06b: the two endpoints say the same of one input.  The   *)
(* words with an entry in /spellcheck/positions are those with an invalid  *)
(* result in /spellcheck, with the same suggestions, one place for each    *)
(* result that comes from the text and in the order of the results; the    *)
(* results of the text come first.                                         *)
(***************************************************************************)
EndpointsMatch(text, words) ==
  ~HasBareRun(text) =>
    LET body == [text |-> text, words |-> words, language |-> Absent]
        results == spellcheck(body)
        entries == spellcheck_positions(body)
        places == Places(text)
        Invalid(w) == {k \in DOMAIN results : results[k].token = w /\ ~results[k].valid}
        InText(w) == {k \in Invalid(w) : k <= Len(places)}
    IN /\ Len(results) = Len(places) + Len(words)
       /\ \A k \in DOMAIN words : results[Len(places) + k].token = words[k]
       /\ {e.token : e \in entries} = {results[k].token : k \in {l \in DOMAIN results : ~results[l].valid}}
       /\ \A e \in entries :
            /\ \A f \in entries : f.token = e.token => f = e
            /\ \A k \in Invalid(e.token) : results[k].suggestions = e.suggestions
            /\ Len(e.positions) = Cardinality(InText(e.token))
            /\ \A k \in DOMAIN e.positions : \E l \in InText(e.token) :
                 /\ k = Cardinality({m \in InText(e.token) : m <= l})
                 /\ Edge(text, e.positions[k])
                 /\ OnlyPunctuation(text, e.positions[k] + 1, places[l][1] - 1)
=============================================================================
