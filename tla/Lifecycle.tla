------------------------------ MODULE Lifecycle ------------------------------
(***************************************************************************)
(* The end of a subject's record, as functions: erasure by destroying keys,*)
(* minimization, the clock assumption, the archival package, and the       *)
(* re-entry of waste into commerce.  A hash is the value that was hashed.  *)
(***************************************************************************)
EXTENDS Grid, FiniteSetsExt, SequencesExt

\* erase_by_shredding: what becomes of the keys, and the outcome.
erase_by_shredding(id, sealed, keys, owner_held) ==
  IF owner_held
    THEN [keys |-> FALSE,
          outcome |-> [outcome |-> "shredded", segment |-> id,
                       commitment |-> commit_state(sealed)]]
    ELSE [keys |-> keys, outcome |-> [outcome |-> "refused"]]

minimization_ok(personal_data, owner_push) == ~personal_data \/ owner_push

\* freshness_under.  Drifts are above the lowest i64, whose absolute value overflows
\* (the code takes it unchecked, and one that wraps would pass).
freshness_under(max_drift, drift) == Max({drift, -drift}) <= max_drift

\* ArchivalPackage.
export(subject, core_state, at) ==
  [subject |-> subject, core_state |-> core_state, integrity_manifest |-> core_state,
   archived_at |-> at]
render(package) == <<package.subject, package.core_state>>
verify_manifest(package) == package.core_state = package.integrity_manifest

\* Deviation: the refresh exports the package again.
refresh_exports(package, at) == export(package.subject, package.core_state, at)
refresh_media(package, at) == [package EXCEPT !.archived_at = at]

-----------------------------------------------------------------------------
(* Productness.                                                            *)

ProductnessRecord(regime, at, is_product) ==
  [regime |-> regime, at |-> at, is_product |-> is_product]

\* ProductnessLedger: a sequence of records per regime.
record(ledger, r) == [ledger EXCEPT ![r.regime] = Append(@, r)]

\* The current standing is the record that was appended last, whatever its date.
product_regimes(ledger) ==
  {regime \in DOMAIN ledger : ledger[regime] # << >> /\ Last(ledger[regime]).is_product}

\* classify_re_entry.
classify_re_entry(mode, subject, regime, at, derived) ==
  CASE mode = "end-of-waste" ->
         [re_entry |-> "same-identity", record |-> ProductnessRecord(regime, at, TRUE)]
    [] mode = "scrap" /\ derived # None ->
         [re_entry |-> "derived-identity", derived_passport |-> derived, parent |-> subject]
    [] OTHER -> [re_entry |-> "refused"]
=============================================================================
