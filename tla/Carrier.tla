------------------------------- MODULE Carrier -------------------------------
(***************************************************************************)
(* The data carrier of a passport: while authors keep recording events in  *)
(* the log, the operator prints Tier-A cards from it and has their         *)
(* signature slots filled one by one.  A card is a projection of the log   *)
(* at the time it was made and is not touched by later events.  Beside the *)
(* life of a card there are questions asked of the texts it carries        *)
(* (identifiers and timestamps): an initial state holds one, or none.      *)
(***************************************************************************)
EXTENDS EventLog, TierA

CONSTANTS
  Orders,     \* what cards are ordered: [id, validity, slots, packer]
  Questions   \* see MCCarrier

Resolver == "https://r.example/t"
Texts == {Resolver, "p-1", "eo-1"} \cup Status
           \cup {"none", "security-flagged", "recall-active"}

\* The dates of events are whole days; what a card is stamped with is an instant.
Stamp(at) == Cal!Instant(at, 0, 0)
Stamps == {Stamp(at) : at \in Times} \cup {o.validity.from : o \in Orders}
            \cup ({o.validity.to : o \in Orders} \ {None})

\* Slots are ordered unsigned, and every text has a length.
ASSUME CarrierConstantsOK ==
  /\ \A o \in Orders :
       /\ o.packer.ec \in DOMAIN Capacity /\ o.packer.max_version \in 1..40
       /\ o.slots \in Seq([suite : DOMAIN signature_len, key_id : STRING, signature : {None}])
       /\ \A i \in DOMAIN o.slots : Len(o.slots[i].key_id) \in Nat
       /\ TextLen(display(o.id)) \in Nat
  /\ \A text \in Texts : Len(text) \in Nat
  /\ \A p \in Payloads : p.type = "status.change" => p.to \in Status
  /\ \A t \in Stamps :
       /\ t = Cal!Instant(t.day, t.sec, t.nanos) /\ t.day \in Int /\ t.sec \in Nat
       /\ t.sec < Cal!DayLength /\ t.nanos \in Nat /\ t.nanos < Cal!TenTo(9)
       /\ Cal!display_timestamp(t) # None
  /\ None \notin Stamps \cup Nat \cup {Invalid} /\ Invalid \notin Stamps

\* The product an "identifier" question is about, and how its text may begin: a GTIN
\* bare, prefixed in any casing or as an element string, which may carry more than
\* the identity, and an issuer-local key with its tag in any spelling.
Product(q) ==
  build(IF q.scheme = Scheme("gtin") /\ q.serial # None THEN Scheme("sgtin") ELSE q.scheme,
        q.key, q.lot, q.serial)
GtinHeads(q) ==
  {<< <<prefix, q.key[1]>> >> :
      prefix \in {"gtin", "GTIN"} \cup (IF q.serial = None THEN {} ELSE {"SGTIN"})}
    \cup {<< <<"01">>, q.key >>, << <<"01">>, q.key, <<"17">>, <<"261118">> >>}
    \cup (IF q.lot = None /\ q.serial = None /\ Len(q.key[1]) \in 4..14 THEN {<<q.key>>} ELSE {})
LocalHeads(q) == {<< <<word, tag>> \o q.key >> : word \in {"local", "LOCAL"}, tag \in q.tags}
Spellings(q) ==
  {start \o Extension("10", q.lot) \o Extension("21", q.serial) :
      start \in IF q.scheme.token = "local" THEN LocalHeads(q) ELSE GtinHeads(q)}

\* The identifier a "built" question is about.
Serialled(q) == IF q.serial = None THEN q.lotted ELSE with_serial(q.lotted, q.serial)

Short(value) == value = None \/ (value = <<value[1]>> /\ value # <<"">>)
Long(value) == value = None \/ value \in Seq(STRING) \ {<< >>, <<"">>}
Known(scheme) == \/ \E token \in Tokens : scheme = Scheme(token)
                 \/ scheme = Local(scheme.tag) /\ squash(scheme.tag) = scheme.tag

\* A question is about a GTIN or an issuer-local key with a lot and a serial of one
\* word each, an identifier that was built with a lot or serial of any length, an
\* instant and the offset of a zone, or one digit of a key that ends in its check digit.
ProductAsked(q) ==
  /\ Short(q.lot) /\ Short(q.serial) /\ q.key \in Seq(STRING) /\ Product(q) # Invalid
  /\ Known(q.scheme) /\ q.scheme.token \in {"gtin", "local"}
  /\ q.scheme.token = "local" => \A tag \in q.tags : squash(tag) = q.scheme.tag
BuiltAsked(q) ==
  /\ q.lotted # Invalid /\ q.lotted = build(q.lotted.scheme, q.lotted.key, q.lotted.lot, None)
  /\ Known(q.lotted.scheme) /\ q.lotted.key \in Seq(STRING)
  /\ Long(q.lotted.lot) /\ Long(q.serial) /\ Serialled(q) # Invalid
TimeAsked(q) ==
  /\ q.day \in Int /\ q.sec \in Nat /\ q.sec < Cal!DayLength
  /\ q.nanos \in Nat /\ q.nanos < Cal!TenTo(9) /\ q.zone \in Int /\ Cal!Zone(q.zone)
DigitAsked(q) ==
  /\ q.digits \in Seq(0..9) /\ gs1_check_digit_ok(q.digits)
  /\ q.at \in DOMAIN q.digits /\ q.digit \in 0..9

ASSUME QuestionsOK ==
  \A q \in Questions :
    /\ q.about = "identifier" => ProductAsked(q)
    /\ q.about = "built" => BuiltAsked(q)
    /\ q.about = "time" => TimeAsked(q)
    /\ q.about = "check digit" => DigitAsked(q)

VARIABLES
  card,   \* the last card: [packer, payload, first, packed], None before the first
  asked   \* the question asked, None in the life of a card

cvars == <<vars, card, asked>>

CInit == Init /\ card = None /\ asked \in Questions \cup {None}

last_event(l) == l[Len(l)].event

\* TierAPayload::from_log; an empty log is stamped with the time of the call.
\* Deviation: the safety flag is that of the last event.
Payload(l, safety, at, order) ==
  [product_id |-> order.id, resolver_uri |-> Resolver, passport_id |-> "p-1",
   eo_id |-> "eo-1", status |-> current_status(l), safety |-> safety,
   validity |-> order.validity, as_of |-> Stamp(IF l = << >> THEN at ELSE last_event(l).at),
   log_head |-> IF l = << >> THEN None ELSE head(l), signatures |-> order.slots]
from_last_event(l, at, order) ==
  Payload(l, safety_flag(SubSeq(l, Max({1, Len(l)}), Len(l))), at, order)
from_log(l, at, order) == Payload(l, safety_flag(l), at, order)

\* The operator prints a card; one that is over budget is not printed and the last
\* card stays in use.
PackCard(at, order) ==
  LET payload == from_log(log, at, order)
      packed  == pack(order.packer, payload)
  IN  /\ packed # Invalid
      /\ card' = [packer |-> order.packer, payload |-> payload, first |-> packed, packed |-> packed]
      /\ UNCHANGED vars

\* The signature layer fills one slot of the payload with a signature of the
\* canonical length of its suite, and the payload is packed again.
SignSlot(i) ==
  /\ is_framed_only(card.payload.signatures[i])
  /\ LET suite   == card.payload.signatures[i].suite
         payload == [card.payload EXCEPT
                       !.signatures[i].signature = signature_len[suite]]
     IN  card' = [card EXCEPT !.payload = payload, !.packed = pack(card.packer, payload)]
  /\ UNCHANGED vars

CNext ==
  /\ asked = None /\ UNCHANGED asked
  /\ \/ Next /\ UNCHANGED card
     \/ \E at \in Times, order \in Orders : PackCard(at, order)
     \/ card # None /\ \E i \in DOMAIN card.payload.signatures : SignSlot(i)

CSpec == CInit /\ [][CNext]_cvars

-----------------------------------------------------------------------------
(* Properties.                                                             *)

\* A card that was printed reads back as the payload it was made of, its identity,
\* its placeholders and its open validity included, however many of its slots are
\* signed, exactly when every date on it has a year of four digits; any other card is
\* printed and signed all the same, and never reads (packer.rs:79, :133, time.rs:58).
Dated(p) ==
  \A t \in {p.validity.from, p.validity.to, p.as_of} \ {None} :
    Cal!FourDigits(Cal!display_timestamp(t).date.year)
CardReadsBack ==
  card # None =>
    decode(card.packed.bytes) = IF Dated(card.payload) THEN card.payload ELSE Invalid

\* Filling the slots never makes a card outgrow the symbol chosen for it before it
\* was signed, and that symbol is the smallest that will do: every partly signed
\* form fits, the signed form needs it (packer.rs:119, :229).
SignedFits ==
  card # None =>
    LET packed == card.packed
        signed == \A i \in DOMAIN card.payload.signatures :
                    ~is_framed_only(card.payload.signatures[i])
    IN  /\ packed # Invalid
        /\ packed.version = card.first.version /\ packed.projected = card.first.projected
        /\ packed.used <= packed.projected /\ packed.projected <= packed.capacity
        /\ packed.version <= card.packer.max_version
        /\ signed => /\ packed.used = packed.projected
                     /\ packed.version > 1 =>
                          byte_capacity(packed.version - 1, packed.ec) < packed.used

\* However the log has grown, a card that names a head shows what the log up to
\* that head says, and a card that is behind may miss a recall and never shows one
\* that is not in the log (payload.rs:33).
CardProvesLog ==
  card # None =>
    /\ card.payload.log_head # None =>
         \E n \in 1..Len(log) :
           LET upto == SubSeq(log, 1, n)
           IN  /\ verify_against_anchor(upto, card.payload.log_head)
               /\ card.payload.status = current_status(upto)
               /\ card.payload.safety = safety_flag(upto)
               /\ card.payload.as_of = Stamp(last_event(upto).at)
    /\ Severity(card.payload.safety) <= Severity(safety_flag(log))

About(topic) == asked # None /\ asked.about = topic

\* The accepted spellings of one product, bare, prefixed in any casing and as an
\* element string, are one identity, and reading what is printed for it gives it
\* back (identifier.rs:10, :20, :253).
OneIdentity ==
  About("identifier") =>
    LET ids == {parse(text) : text \in Spellings(asked)}
    IN  \A id \in ids : /\ id # Invalid /\ ids = {id}
                        /\ parse(display(id)) = id
                        /\ id.serial # None => id.granularity = "item"

\* An identifier reads back from its text exactly when its scheme agrees with its
\* serial and no lot or serial contains a plus sign: an SGTIN without a serial, a
\* GTIN that was given one, and a lot that looks like an extension do not
\* (identifier.rs:169, :178, :332).
ReadsBack(id) ==
  /\ id.scheme.token \in {"gtin", "sgtin"} =>
       (id.scheme.token = "sgtin" <=> id.serial # None)
  /\ \A value \in {id.lot, id.serial} \ {None} : Len(value) = 1
RoundTripExact ==
  About("built") =>
    (parse(display(Serialled(asked))) = Serialled(asked) <=> ReadsBack(Serialled(asked)))

\* An instant reads back from its text, and from its local text in every zone, as
\* long as the year that is printed has four digits; the day after has the date the
\* calendar gives it (time.rs:58, :148, :270).
NextDate(d) ==
  CASE d.day < Cal!days_in_month(d.year, d.month) -> [d EXCEPT !.day = @ + 1]
    [] d.day = Cal!days_in_month(d.year, d.month) /\ d.month < 12
         -> [d EXCEPT !.day = 1, !.month = @ + 1]
    [] OTHER -> [year |-> d.year + 1, month |-> 1, day |-> 1]
TimesReadBack ==
  About("time") =>
    LET t     == Cal!Instant(asked.day, asked.sec, asked.nanos)
        local == [Cal!display_timestamp(Cal!At(t.day, t.sec + asked.zone, t.nanos))
                    EXCEPT !.zone = asked.zone]
    IN  /\ Cal!civil_from_days(t.day + 1) = NextDate(Cal!civil_from_days(t.day))
        /\ \A text \in {Cal!display_timestamp(t), local} :
             Cal!parse_timestamp(text) =
               IF Cal!FourDigits(text.date.year) THEN t ELSE Invalid

\* One wrong digit is always noticed, and padding a 13-digit key to 14 digits
\* changes nothing (identifier.rs:315).
WrongDigitNoticed ==
  About("check digit") =>
    LET wrong == [asked.digits EXCEPT ![asked.at] = asked.digit]
    IN  /\ gs1_check_digit_ok(asked.digits)
        /\ gs1_check_digit_ok(<<0>> \o asked.digits)
        /\ wrong # asked.digits => ~gs1_check_digit_ok(wrong)

\* The texts on a card read back as the values they were printed from, in every
\* accepted spelling, and exactly then.
TextsReadBack == OneIdentity /\ RoundTripExact /\ TimesReadBack /\ WrongDigitNoticed
=============================================================================
