----------------------------- MODULE Identifier -----------------------------
(***************************************************************************)
(* Product identifiers of the model crate: how one is built, written and   *)
(* read.  A text is the sequence of what stands between its plus signs,    *)
(* and each of these the sequence of what stands between colons; so        *)
(* "local:a:k+10+l" is << <<"local","a","k">>, <<"10">>, <<"l">> >>.       *)
(* Trimming and the character set of keys are left out.                    *)
(***************************************************************************)
EXTENDS Integers, Sequences, FiniteSetsExt, Functions

CONSTANTS
  None,       \* Option::None
  Invalid,    \* ModelError
  DigitKeys   \* the keys that consist of ASCII digits

\* IdScheme: a scheme is its token, or the tag of an issuer-local one.
Tokens == {"gtin", "sgtin", "gsrn", "gln", "cpid", "ssn", "upu", "vin",
           "handle", "doi", "uri"}
Scheme(token) == [token |-> token, tag |-> None]
Local(tag) == [token |-> "local", tag |-> tag]
requires_digits(scheme) == scheme.token \in {"gtin", "sgtin", "gsrn", "gln"}
default_granularity(scheme) ==
  IF scheme.token \in {"gtin", "gln", "handle", "doi", "uri", "local"} THEN "model" ELSE "item"

\* normalization::squash and normalize_token, on the spellings in use: a token in
\* capitals and one with another separator are the lower-case one.
squash(word) ==
  CASE word = "GTIN" -> "gtin" [] word = "SGTIN" -> "sgtin" [] word = "LOCAL" -> "local"
    [] word = "GB_T" -> "gb-t" [] OTHER -> word

granularity(scheme, lot, serial) ==
  CASE serial # None -> "item"
    [] serial = None /\ lot # None -> "batch"
    [] OTHER -> default_granularity(scheme)

\* ProductIdentifier::build; a key is the sequence of its colon-separated parts.
build(scheme, key, lot, serial) ==
  IF \/ key \in {<< >>, <<"">>}
     \/ requires_digits(scheme) /\ ~(Len(key) = 1 /\ key[1] \in DigitKeys /\ Len(key[1]) <= 14)
    THEN Invalid
    ELSE [scheme |-> scheme, key |-> key, lot |-> lot, serial |-> serial,
          granularity |-> granularity(scheme, lot, serial)]

new(scheme, key) == build(scheme, key, None, None)
\* Neither looks for a plus sign: a lot or serial is a sequence of words.
with_lot(id, lot) ==
  IF lot = << >> THEN Invalid
  ELSE [id EXCEPT !.lot = lot, !.granularity = granularity(id.scheme, lot, id.serial)]
with_serial(id, serial) ==
  IF serial = << >> THEN Invalid
  ELSE [id EXCEPT !.serial = serial, !.granularity = granularity(id.scheme, id.lot, serial)]

\* Display.
Words(extension) == [i \in 1..Len(extension) |-> <<extension[i]>>]
Extension(ai, value) == IF value = None THEN << >> ELSE << <<ai>> >> \o Words(value)
Head1(id) ==
  CASE id.scheme.token \in {"gtin", "sgtin"} -> << <<"01">>, id.key >>
    [] id.scheme.token = "local" -> << <<"local", id.scheme.tag>> \o id.key >>
    [] OTHER -> << <<id.scheme.token>> \o id.key >>
display(id) == Head1(id) \o Extension("10", id.lot) \o Extension("21", id.serial)

-----------------------------------------------------------------------------
(* Reading.  The pairs of a text are its words 2i-1 and 2i.                *)

\* The value of the last pair of a list whose application identifier is ai.
LastOf(pairs, ai) ==
  LET hits == {i \in 1..Len(pairs) : pairs[i].ai = ai}
  IN  IF hits = {} THEN None
      ELSE pairs[CHOOSE i \in hits : \A j \in hits : j <= i].value
PairsFrom(text, first) ==
  [i \in 1..((Len(text) - first + 1) \div 2) |->
     [ai |-> text[first + 2*i - 2], value |-> text[first + 2*i - 1]]]

\* Deviation: the scheme stays a gtin.
element_string_gtin(text) ==
  LET pairs == PairsFrom(text, 1)
  IN  build(Scheme("gtin"), LastOf(pairs, <<"01">>), LastOf(pairs, <<"10">>),
            LastOf(pairs, <<"21">>))

\* parse_element_string.
element_string(text) ==
  LET pairs  == PairsFrom(text, 1)
      serial == LastOf(pairs, <<"21">>)
  IN  IF \/ Len(text) % 2 # 0
         \/ \E i \in 1..Len(pairs) : \/ pairs[i].value = <<"">>
                                     \/ pairs[i].ai \notin {<<"01">>, <<"10">>, <<"21">>,
                                                            <<"11">>, <<"17">>, <<"240">>}
        THEN Invalid
        ELSE build(Scheme(IF serial = None THEN "gtin" ELSE "sgtin"),
                   LastOf(pairs, <<"01">>), LastOf(pairs, <<"10">>), serial)

\* split_key_extensions: it stops at the first other application identifier.
extensions(text) ==
  LET pairs == PairsFrom(text, 2)
      known == CHOOSE n \in 0..Len(pairs) :
                 /\ \A i \in 1..n : pairs[i].ai \in {<<"10">>, <<"21">>}
                 /\ n < Len(pairs) => pairs[n+1].ai \notin {<<"10">>, <<"21">>}
  IN  SubSeq(pairs, 1, known)

prefixed(text) ==
  LET head   == squash(text[1][1])
      lot    == LastOf(extensions(text), <<"10">>)
      serial == LastOf(extensions(text), <<"21">>)
      key    == Tail(text[1])
  IN  CASE head = "local" -> IF Len(key) < 2 THEN Invalid
                             ELSE build(Local(squash(key[1])), Tail(key), lot, serial)
        [] head = "gtin"  -> build(Scheme(IF serial = None THEN "gtin" ELSE "sgtin"),
                                   key, lot, serial)
        [] head \in Tokens \ {"gtin"} -> build(Scheme(head), key, lot, serial)
        [] OTHER -> Invalid

\* ProductIdentifier::parse.
parse(text) ==
  CASE Len(text) > 1 /\ text[1] = <<"01">> -> element_string(text)
    [] text[1][1] \in {"http", "https"} /\ Len(text[1]) > 1 ->
         IF Len(text) > 1 THEN Invalid ELSE build(Scheme("uri"), text[1], None, None)
    [] text[1][1] \notin {"http", "https"} /\ Len(text[1]) > 1 -> prefixed(text)
    [] Len(text) = 1 /\ Len(text[1]) = 1 /\ text[1][1] \in DigitKeys
         /\ Len(text[1][1]) \in 4..14 -> build(Scheme("gtin"), text[1], None, None)
    [] OTHER -> Invalid

\* gs1_check_digit_ok on the digits of a key; the weights count from the right.
Weighted(digits) ==
  [i \in 1..Len(digits)-1 |-> digits[i] * IF (Len(digits) - i) % 2 = 1 THEN 3 ELSE 1]
gs1_check_digit_ok(digits) ==
  (10 - (SumFunction(Weighted(digits)) % 10)) % 10 = digits[Len(digits)]
=============================================================================
