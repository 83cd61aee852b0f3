-------------------------------- MODULE Lookup --------------------------------
(***************************************************************************)
(* Lookups that fall back: the localized values of an element by language  *)
(* tag, and the linksets of a subject by context.  A tag is a sequence of  *)
(* subtags, a subtag the name it has in lower case and the case it is      *)
(* written in; the limits on lengths and characters are left out.  What is *)
(* found is returned as the set of it, which is empty for None.            *)
(***************************************************************************)
EXTENDS Sequences, SequencesExt

TwoLetters  == {"zh", "en", "el", "cn", "gb", "gr"}
FourLetters == {"hans", "hant"}
Cases == {"lower", "Title", "UPPER"}
Subtags == [name : TwoLetters \cup FourLetters, written : Cases]

\* validate: the subtag after the language is a script in any case or a region in
\* upper case.
validate(tag) ==
  /\ tag # << >> /\ tag[1].name \in TwoLetters
  /\ Len(tag) > 1 => tag[2].name \in FourLetters \/ tag[2].written = "UPPER"

\* canonical_case: a region in upper case only after a script.
\* Deviation: the script keeps the case it is written in.
case_of_language(tag) ==
  [i \in DOMAIN tag |->
     IF i = 1 THEN [tag[i] EXCEPT !.written = "lower"] ELSE tag[i]]

canonical_case(tag) ==
  [i \in DOMAIN tag |->
     [tag[i] EXCEPT !.written =
        CASE i = 2 /\ tag[i].name \in FourLetters -> "Title"
          [] i = 3 /\ tag[i].name \in TwoLetters -> "UPPER"
          [] OTHER -> "lower"]]

\* LocalizedSet::add and get; a refused tag changes nothing.  Which of several
\* extending or arbitrary values is returned is the order of the map.
add(values, tag, value) ==
  IF validate(tag)
    THEN [key \in DOMAIN values \cup {canonical_case(tag)} |->
            IF key = canonical_case(tag) THEN value ELSE values[key]]
    ELSE values

English == <<[name |-> "en", written |-> "lower"]>>
get(values, tag) ==
  LET want      == canonical_case(tag)
      extending == {kept \in DOMAIN values : IsStrictPrefix(want, kept)}
  IN  CASE DOMAIN values = {} -> {}
        [] want \in DOMAIN values -> {values[want]}
        [] want \notin DOMAIN values /\ extending # {} ->
             {values[CHOOSE kept \in extending : TRUE]}
        [] want \notin DOMAIN values /\ extending = {} /\ English \in DOMAIN values ->
             {values[English]}
        [] OTHER -> {values[CHOOSE kept \in DOMAIN values : TRUE]}

-----------------------------------------------------------------------------
(* SubjectLinksets::resolve.                                               *)

Star == "*"
AnyContext == [profile |-> Star, role |-> Star, language |-> Star, region |-> Star]

\* The keys tried, from the exact one to the general one; the region is widened
\* only together with role and language.
Candidates(request) ==
  <<request,
    [request EXCEPT !.language = Star],
    [request EXCEPT !.role = Star],
    [request EXCEPT !.role = Star, !.language = Star],
    [request EXCEPT !.role = Star, !.language = Star, !.region = Star],
    AnyContext>>

resolve(linksets, request) ==
  LET keys == Candidates(request)
      held == {i \in DOMAIN keys : keys[i] \in DOMAIN linksets.contexts}
  IN  IF linksets.dark \/ held = {} THEN {} ELSE {linksets.contexts[keys[Min(held)]]}
=============================================================================
