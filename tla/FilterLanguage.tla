--------------------------- MODULE FilterLanguage ---------------------------
(***************************************************************************)
(* What the text of a filter means, for the expressions that the comment   *)
(* on matchesFilter lists: a phrase of the text has the value that the     *)
(* grammar gives it.  Nothing here reads from left to right: a phrase is   *)
(* any stretch of tokens, taken apart at any of its operators.             *)
(***************************************************************************)
EXTENDS MatchesFilter

CONSTANT Attributes  \* the attributes of messages: functions from keys to values

ASSUME AttributesAssumption ==
  \A a \in Attributes : \A k \in DOMAIN a : a[k] \in Seq(Nat)

\* A missing key satisfies != and nothing else.
Satisfies(a, key, op, v) ==
  IF key \notin DOMAIN a THEN op = "!="
  ELSE \/ op \in {"=", "<=", ">="} /\ a[key] = v
       \/ op \in {"<", "<="} /\ Below(a[key], v)
       \/ op \in {">", ">="} /\ Below(v, a[key])
       \/ op = "!=" /\ a[key] # v

StartsWith(u, v) == Len(v) <= Len(u) /\ \A n \in DOMAIN v : u[n] = v[n]

\* The tokens from i up to j, which is left out.
Spells(s, i, j, tokens) ==
  j = i + Len(tokens) /\ \A n \in DOMAIN tokens : s[i + n - 1] = tokens[n]

Test(s, a, i, j, v) ==
  \E key \in AttributeKey :
    \/ Spells(s, i, j, <<"attributes", ":", key>>) /\ v = (key \in DOMAIN a)
    \/ \E op \in Comparisons, l \in DOMAIN Literal :
         /\ Spells(s, i, j, <<"attributes", ".", key, op, l>>)
         /\ v = Satisfies(a, key, op, Literal[l])
    \/ \E l \in DOMAIN Literal :
         /\ Spells(s, i, j, <<"hasPrefix", "(", "attributes", ".", key, ",", l, ")">>)
         /\ v = (key \in DOMAIN a /\ StartsWith(a[key], Literal[l]))

\* NOT binds closest, then AND, then OR, and parentheses group.
Level == {"primary", "not", "and", "or"}
Phrases(s) == Level \X (1 .. Len(s) + 1) \X (1 .. Len(s) + 1)

\* The values of a phrase, when `means` are those of shorter ones and of the
\* levels that bind closer.
Values(s, a, means, level, i, j) ==
  CASE level = "primary" ->
         {v \in BOOLEAN :
            \/ Test(s, a, i, j, v)
            \/ i < j /\ s[i] = "(" /\ s[j - 1] = ")" /\ v \in means[<<"or", i + 1, j - 1>>]}
    [] level = "not" ->
         {v \in BOOLEAN :
            \/ v \in means[<<"primary", i, j>>]
            \/ i < j /\ s[i] \in {"NOT", "-"} /\ (~v) \in means[<<"not", i + 1, j>>]}
    [] level = "and" ->
         means[<<"not", i, j>>] \cup
         UNION {{v /\ w : v \in means[<<"and", i, k>>], w \in means[<<"not", k + 1, j>>]} :
                  k \in {n \in i .. j - 1 : s[n] = "AND"}}
    [] level = "or" ->
         means[<<"and", i, j>>] \cup
         UNION {{v \/ w : v \in means[<<"or", i, k>>], w \in means[<<"and", k + 1, j>>]} :
                  k \in {n \in i .. j - 1 : s[n] = "OR"}}

Meanings(s, a) ==
  LET means[p \in Phrases(s)] == Values(s, a, means, p[1], p[2], p[3])
  IN means[<<"or", 1, Len(s) + 1>>]
=============================================================================
