----------------------------- MODULE Templates -----------------------------
(***************************************************************************)
(* The parameters of user credentials (paths_creds_user.go): the text      *)
(* key=value,key2=value2 is parsed, the template's variables are looked    *)
(* for in its text, and the placeholders of one parameter after the other  *)
(* are replaced, in the order in which Go happens to go through a map.     *)
(*                                                                         *)
(* Texts are sequences of tokens: a pair of braces, a blank, an equals     *)
(* sign, or something else without structure.  A comma only separates the  *)
(* pairs of the input, which is a sequence of texts.                       *)
(***************************************************************************)
EXTENDS Naturals, SequencesExt

CONSTANTS Pieces,       \* what templates are put together of
          Pairs,        \* what the input is put together of
          MaxPieces,    \* bound: pieces of a template
          MaxPairs,     \* bound: pairs of an input
          blank         \* the token of a blank

VARIABLES input,        \* the pairs that clients give
          template,     \* the pieces of the template
          parameters,   \* the parameters parsed so far, by name
          left,         \* pairs to parse, then keys to replace
          text,         \* the template's text as far as it is replaced
          at            \* "parse", "check", "replace", "done" or "failed"

vars == <<input, template, parameters, left, text, at>>

-----------------------------------------------------------------------------
(* Functions on texts.                                                     *)

\* strings.TrimSpace
TrimSpace(s) ==
    LET black == {i \in DOMAIN s : s[i] # blank}
    IN  IF black = {} THEN <<>> ELSE SubSeq(s, Min(black), Max(black))

\* mutant: the last equals sign separates key and value
lastEquals(s) == Max({i \in DOMAIN s : s[i] = "="})
\* strings.SplitN(pair, "=", 2)
splitAt(s) == Min({i \in DOMAIN s : s[i] = "="})

\* what stands between braces and the next closing ones, blanks trimmed
findTemplateVariables(s) ==
    LET from[i \in 1..(Len(s) + 1)] ==
            IF i >= Len(s) THEN {}
            ELSE LET ends == {j \in (i + 1)..Len(s) : s[j] = "}}"}
                 IN  IF s[i] # "{{" \/ ends = {} THEN from[i + 1]
                     ELSE {TrimSpace(SubSeq(s, i + 1, Min(ends) - 1))}
                          \cup from[Min(ends) + 1]
    IN  from[1] \ {<<>>}

Placeholder(key) == <<"{{">> \o key \o <<"}}">>

\* strings.ReplaceAll
Replaced(s, old, new) ==
    LET from[i \in 1..(Len(s) + 1)] ==
            IF i > Len(s) THEN <<>>
            ELSE IF i + Len(old) - 1 <= Len(s)
                    /\ SubSeq(s, i, i + Len(old) - 1) = old
                 THEN new \o from[i + Len(old)]
                 ELSE <<s[i]>> \o from[i + 1]
    IN  from[1]

-----------------------------------------------------------------------------
(* parseKeyValueString.                                                    *)

ParsePair ==
    /\ at = "parse" /\ left # <<>>
    /\ LET pair   == TrimSpace(Head(left))
           key    == TrimSpace(SubSeq(pair, 1, splitAt(pair) - 1))
           value  == TrimSpace(SubSeq(pair, splitAt(pair) + 1, Len(pair)))
           isPair == "=" \in Range(pair) /\ key # <<>>
       IN
       \/ /\ ~isPair
          /\ at' = "failed"
          /\ UNCHANGED <<parameters, left>>
       \/ /\ isPair
          /\ parameters' = (key :> value) @@ parameters
          /\ left' = Tail(left)
          /\ at' = at
    /\ UNCHANGED <<input, template, text>>

ParseDone ==
    /\ at = "parse" /\ left = <<>>
    /\ at' = "check"
    /\ UNCHANGED <<input, template, parameters, left, text>>

-----------------------------------------------------------------------------
(* applyTemplateParameters.                                                *)

\* a variable without a parameter is an error
CheckRequired ==
    /\ at = "check"
    /\ at' = IF findTemplateVariables(text) \subseteq DOMAIN parameters
             THEN "replace" ELSE "failed"
    /\ left' = SetToSeq(DOMAIN parameters)
    /\ UNCHANGED <<input, template, parameters, text>>

\* the map is gone through in any order
ReplaceKey ==
    /\ at = "replace"
    /\ \E i \in DOMAIN left :
          /\ text' = Replaced(text, Placeholder(left[i]),
                                parameters[left[i]])
          /\ left' = RemoveAt(left, i)
    /\ UNCHANGED <<input, template, parameters, at>>

Return ==
    /\ at = "replace" /\ left = <<>>
    /\ at' = "done"
    /\ UNCHANGED <<input, template, parameters, left, text>>

Init == /\ input \in BoundedSeq(Pairs, MaxPairs)
        /\ template \in BoundedSeq(Pieces, MaxPieces)
        /\ parameters = <<>>
        /\ left = input
        /\ text = FlattenSeq(template)
        /\ at = "parse"

Ended == at \in {"done", "failed"} /\ UNCHANGED vars
Next == \/ ParsePair \/ ParseDone \/ CheckRequired \/ ReplaceKey \/ Return
        \/ Ended
Spec == Init /\ [][Next]_vars

-----------------------------------------------------------------------------

\* the value the input gives a name: the last one, whatever blanks there are
Given(key) ==
    LET end(p)   == Min({j \in DOMAIN p : p[j] = "="})
        names(p) == TrimSpace(SubSeq(p, 1, end(p) - 1)) = key
        last     == input[Max({i \in DOMAIN input : names(input[i])})]
    IN  TrimSpace(SubSeq(last, end(last) + 1, Len(last)))

\* the template with the value of every name in its place, all at once
Filled ==
    FlattenSeq([i \in DOMAIN template |->
        LET p == template[i] IN
        IF Len(p) > 2 /\ Head(p) = "{{" /\ Last(p) = "}}"
        THEN Given(SubSeq(p, 2, Len(p) - 1)) ELSE p])

\* Credentials are made from the template with every placeholder filled in
\* as the client asked, whatever order the parameters are gone through in,
\* also where braces stand in the template without a partner.  (Placeholders
\* without blanks in them, values without braces.)
FilledIn == at = "done" => text = Filled

\* "replaces placeholders in claims template with actual values": where
\* all variables are given, no placeholder is left.
NoneLeft == at = "done" => findTemplateVariables(text) = {}
=============================================================================
