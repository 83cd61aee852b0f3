----------------------------- MODULE MCCarrier -----------------------------
(* A small instance of Carrier, and the questions it is asked.             *)
EXTENDS Carrier

Digits == {"123", "4006381333931", "40063813339314", "400638133393140"}
Gtin == "4006381333931"
Item == build(Scheme("sgtin"), <<Gtin>>, <<"L">>, <<"S">>)
LocalId == build(Local("gb-t"), <<"X", "9">>, None, None)

FlagPayloads ==
  {[type |-> "recall.campaign"], [type |-> "flag.security"],
   [type |-> "status.change", from |-> "issued", to |-> "suspended"]}

\* Cards without and with signatures, on symbols that are large enough, too small
\* for the signatures, and too small for all of them; valid from a moment in 1970 on,
\* to a day in 1970, the last second of 9999, the first of 10000, or without an end.
At(day, sec) == Cal!Instant(day, sec, 0)
LastDay == 2932896
Order(id, to, slots, ec, max_version) ==
  [id |-> id, validity |-> [from |-> Cal!Instant(0, 3599, 500000000), to |-> to], slots |-> slots,
   packer |-> [ec |-> ec, max_version |-> max_version]]
One == <<placeholder("EcdsaP256", "k1")>>
Two == <<placeholder("MlDsa44", "k2"), placeholder("EcdsaP256", "k1")>>
Listed ==
  {Order(Item, None, << >>, "m", 12), Order(LocalId, At(LastDay + 1, 0), One, "q", 40),
   Order(Item, At(9, 0), One, "m", 11), Order(Item, At(9, 0), One, "m", 9),
   Order(Item, At(LastDay, 86399), Two, "l", 40), Order(Item, None, Two, "q", 40)}
\* Events of 1970 and of the year before 0000.
Dates == {0, -719529}

\* One GTIN and one issuer-local key, each with its lots and serials.
Products ==
  [about : {"identifier"}, scheme : {Scheme("gtin")}, tags : {{}}, key : {<<Gtin>>},
   lot : {None, <<"L">>}, serial : {None, <<"S">>}]
    \cup [about : {"identifier"}, scheme : {Local("gb-t")}, tags : {{"gb-t", "GB_T"}},
          key : {<<"X", "9">>}, lot : {None, <<"L">>}, serial : {None, <<"S">>}]

\* Identifiers put together by hand.
Keys(token) == IF token \in {"gtin", "sgtin", "gln"} THEN {<<Gtin>>, <<"123">>}
               ELSE {<<"10.1000/182">>, <<"https", "//id.example/x">>}
Built == {new(Scheme(token), key) : token \in {"gtin", "sgtin", "gln"}, key \in Keys("gtin")}
           \cup {new(Scheme(token), key) : token \in {"doi", "uri", "vin"}, key \in Keys("doi")}
           \cup {new(Local("gb-t"), <<"X", "9">>)}
Plus == {None, <<"S">>, <<"S", "10", "L2">>}
Lotted == Built \cup {with_lot(id, lot) : id \in Built,
                                          lot \in {<<"L">>, <<"L", "21", "S">>}}

\* Days around the ends of February and of years: 0000, 1900, 1970, 2000, 2100, 9999.
Days == UNION {d-2..d+3 : d \in {-719528, -719469, -25567, -25509, 0, 11016, 47540, 2932896}}

AllQuestions ==
  Products
  \cup [about : {"built"}, lotted : Lotted, serial : Plus]
  \cup [about : {"time"}, day : Days, sec : {0, 3599, 86399}, nanos : {0, 500000000, 1},
        zone : {0, 3600, -19800}]
  \cup [about : {"check digit"}, digits : {<<4,0,0,6,3,8,1,3,3,3,9,3,1>>},
        at : 1..13, digit : 0..9]
=============================================================================
