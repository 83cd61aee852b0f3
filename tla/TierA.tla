-------------------------------- MODULE TierA --------------------------------
(***************************************************************************)
(* The Tier-A card: the payload that travels on the data carrier itself,   *)
(* its canonical encoding, the capacity tables of QR codes and the packer. *)
(* Bytes are kept as the sequence of fields they frame, each with the      *)
(* number of bytes it takes.                                               *)
(***************************************************************************)
EXTENDS Identifier

\* The timestamps of the model crate.
Cal == INSTANCE Calendar WITH Unreadable <- Invalid

\* SignatureSuite::signature_len.
signature_len ==
  [EcdsaP256 |-> 64, Sm2 |-> 64, MlDsa44 |-> 2420, MlDsa65 |-> 3309, MlDsa87 |-> 4627]

\* SigSlot: the signature is given by its length, None in a placeholder.
Slot(suite, key_id, signature) ==
  [suite |-> suite, key_id |-> key_id, signature |-> signature]
placeholder(suite, key_id) == Slot(suite, key_id, None)
is_framed_only(slot) == slot.signature = None

\* Byte-mode capacity by error correction and version (ISO/IEC 18004).
Capacity ==
  [l |-> <<17, 32, 53, 78, 106, 134, 154, 192, 230, 271, 321, 367, 425, 458, 520, 586,
           644, 718, 792, 858, 929, 1003, 1091, 1171, 1273, 1367, 1465, 1528, 1628, 1732,
           1840, 1952, 2068, 2188, 2303, 2431, 2563, 2699, 2809, 2953>>,
   m |-> <<14, 26, 42, 62, 84, 106, 122, 152, 180, 213, 251, 287, 331, 362, 412, 450,
           504, 560, 624, 666, 711, 779, 857, 911, 997, 1059, 1125, 1190, 1264, 1370,
           1452, 1538, 1628, 1722, 1809, 1911, 1989, 2099, 2213, 2331>>,
   q |-> <<11, 20, 32, 46, 60, 74, 86, 108, 130, 151, 177, 203, 241, 258, 292, 322, 364,
           394, 442, 482, 509, 565, 611, 661, 715, 751, 805, 868, 908, 982, 1030, 1112,
           1168, 1228, 1283, 1351, 1423, 1499, 1579, 1663>>,
   h |-> <<7, 14, 24, 34, 44, 58, 64, 84, 98, 119, 137, 155, 177, 194, 220, 250, 280,
           310, 338, 382, 403, 439, 461, 511, 535, 593, 625, 658, 698, 742, 790, 842,
           898, 958, 983, 1051, 1093, 1139, 1219, 1273>>]
byte_capacity(version, ec) == Capacity[ec][version]
Holding(len, ec) == {v \in 1..40 : byte_capacity(v, ec) >= len}
min_version_for(len, ec) == IF Holding(len, ec) = {} THEN None ELSE Min(Holding(len, ec))

-----------------------------------------------------------------------------
(* Encoding: a tag of one byte before every field, four bytes of length    *)
(* before a string, one byte before an optional value.                     *)

Field(tag, value, len) == [tag |-> tag, value |-> value, len |-> 1 + len]
Str(tag, text) == Field(tag, text, 4 + Len(text))
TextLen(text) == MapThenSumSet(LAMBDA i : MapThenSumSet(LAMBDA j : Len(text[i][j]) + 1,
                                 1..Len(text[i])), 1..Len(text)) - 1

\* Timestamps travel as text.  A year is printed with four digits or as many as it
\* needs, a sign included (years of at most nine digits are told apart); month, day,
\* time and marks take 16 bytes, a fraction its digits and the point.
YearLen(y) ==
  4 + Cardinality({w \in 4..8 : y >= Cal!TenTo(w) \/ y <= -Cal!TenTo(w - 1)})
TimeLen(t) ==
  LET text == Cal!display_timestamp(t)
  IN  16 + YearLen(text.date.year) + (IF text.frac.width = 0 THEN 0 ELSE 1 + text.frac.width)
TimeField(tag, t) == Field(tag, Cal!display_timestamp(t), 4 + TimeLen(t))
OptTimeField(tag, t) ==
  IF t = None THEN Field(tag, None, 1)
  ELSE Field(tag, Cal!display_timestamp(t), 1 + 4 + TimeLen(t))

Sentinel == 65535
Slots == 255

\* A signature slot: tag, suite, length-prefixed key id, u16 length, raw bytes.
SlotField(slot) ==
  [tag |-> "sig_slot", suite |-> slot.suite, key_id |-> slot.key_id,
   framed |-> IF is_framed_only(slot) THEN Sentinel ELSE slot.signature,
   raw    |-> IF is_framed_only(slot) THEN 0 ELSE slot.signature,
   len    |-> 2 + 4 + Len(slot.key_id) + 2 +
                (IF is_framed_only(slot) THEN 0 ELSE slot.signature)]

Bytes(fields) == SumFunctionOnSet([i \in DOMAIN fields |-> fields[i].len], DOMAIN fields)

\* The bytes an unsigned slot reserves and does not emit.
\* Deviation: nothing is reserved for slots that are only framed.
reserve_nothing(slots) == 0
reserved(slot) == IF is_framed_only(slot) THEN signature_len[slot.suite] ELSE 0
Reserved(slots) == SumFunctionOnSet([i \in DOMAIN slots |-> reserved(slots[i])], DOMAIN slots)

\* TierAPacker::encode: at most 255 slots, behind their number; a longer signature
\* than two bytes of length can frame is refused.
Taken(p) == SubSeq(p.signatures, 1, Min({Len(p.signatures), Slots}))
Fixed(p) ==
  <<Field("product_id", display(p.product_id), 4 + TextLen(display(p.product_id))),
    Str("resolver_uri", p.resolver_uri), Str("passport_id", p.passport_id),
    Str("eo_id", p.eo_id), Str("status", p.status), Str("safety", p.safety),
    TimeField("validity_from", p.validity.from), OptTimeField("validity_to", p.validity.to),
    TimeField("as_of", p.as_of),
    Field("log_head", p.log_head, 1 + (IF p.log_head = None THEN 0 ELSE 32)),
    Field("sig_count", Len(Taken(p)), 1)>>
fields(p) == Fixed(p) \o [i \in 1..Len(Taken(p)) |-> SlotField(Taken(p)[i])]
encode(p) ==
  IF \E i \in 1..Len(Taken(p)) :
       ~is_framed_only(Taken(p)[i]) /\ Taken(p)[i].signature > Sentinel
    THEN Invalid
    ELSE [bytes |-> fields(p), projected |-> Bytes(fields(p)) + Reserved(Taken(p))]

\* TierAPacker::decode.  Fields come in any order and all but three are required; of
\* several with the same tag the last counts.  The slots follow their number.
Required == {"product_id", "resolver_uri", "passport_id", "eo_id", "status", "safety",
             "validity_from", "as_of"}
Tagged(bytes, tag) == {i \in DOMAIN bytes : bytes[i].tag = tag}
Value(bytes, tag) ==
  IF Tagged(bytes, tag) = {} THEN None ELSE bytes[Max(Tagged(bytes, tag))].value
SlotCount(bytes) == IF Tagged(bytes, "sig_count") = {} THEN 0 ELSE Value(bytes, "sig_count")
SlotPlace(bytes, i) == Max(Tagged(bytes, "sig_count")) + i
ReadTime(text) == IF text = None THEN None ELSE Cal!parse_timestamp(text)

\* A slot that stands elsewhere, or holds raw bytes behind the sentinel, throws the
\* reader off.
Readable(bytes) ==
  /\ \A tag \in Required : Tagged(bytes, tag) # {}
  /\ parse(Value(bytes, "product_id")) # Invalid
  /\ \A tag \in {"validity_from", "validity_to", "as_of"} : ReadTime(Value(bytes, tag)) # Invalid
  /\ Tagged(bytes, "sig_slot") = {SlotPlace(bytes, i) : i \in 1..SlotCount(bytes)}
  /\ \A i \in Tagged(bytes, "sig_slot") : bytes[i].framed = Sentinel => bytes[i].raw = 0

\* Deviation: an unsigned slot is read as a signature of no bytes.
framed_as_read(field) == field.raw
Framed(field) == IF field.framed = Sentinel THEN None ELSE field.raw
SlotOf(field) == Slot(field.suite, field.key_id, Framed(field))

decode(bytes) ==
  IF ~Readable(bytes) THEN Invalid ELSE
    [product_id   |-> parse(Value(bytes, "product_id")),
     resolver_uri |-> Value(bytes, "resolver_uri"),
     passport_id  |-> Value(bytes, "passport_id"), eo_id |-> Value(bytes, "eo_id"),
     status |-> Value(bytes, "status"), safety |-> Value(bytes, "safety"),
     validity |-> [from |-> ReadTime(Value(bytes, "validity_from")),
                   to   |-> ReadTime(Value(bytes, "validity_to"))],
     as_of |-> ReadTime(Value(bytes, "as_of")), log_head |-> Value(bytes, "log_head"),
     signatures |-> [i \in 1..SlotCount(bytes) |-> SlotOf(bytes[SlotPlace(bytes, i)])]]

-----------------------------------------------------------------------------
(* TierAPacker::pack: what a carrier is printed from, or OverBudget.       *)

pack(packer, p) ==
  LET e == encode(p)
  IN  IF e = Invalid \/ e.projected > byte_capacity(packer.max_version, packer.ec) THEN Invalid
      ELSE LET v == Min({min_version_for(e.projected, packer.ec), packer.max_version})
           IN  [bytes |-> e.bytes, version |-> v, ec |-> packer.ec, used |-> Bytes(e.bytes),
                projected |-> e.projected, capacity |-> byte_capacity(v, packer.ec)]
=============================================================================
