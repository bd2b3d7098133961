---------------------------- MODULE MatchesFilter ----------------------------
(***************************************************************************)
(* matchesFilter: the recursive-descent parser of filter.go, which         *)
(* evaluates a subscription's filter against the attributes of a message   *)
(* while it parses.  It never reports an error: what it does not           *)
(* understand is false, and what follows the expression is ignored.        *)
(*                                                                         *)
(* The input is taken as tokens with white space between them (none after  *)
(* hasPrefix).  An attribute's value is a sequence of numbers, which       *)
(* stand for its bytes.                                                    *)
(***************************************************************************)
EXTENDS Naturals, SequencesExt

CONSTANTS
  AttributeKey,  \* words used as keys of attributes
  Literal        \* the quoted strings: a function from tokens to values

\* What readIdent reads, in whatever place; a blank follows it.
Words == AttributeKey \cup {"attributes", "hasPrefix", "AND", "OR", "NOT", "-"}
Comparisons == {"=", "!=", "<", "<=", ">", ">="}
Nothing == ""

\* A token is something.
ASSUME FilterAssumption ==
  /\ \A l \in DOMAIN Literal : Literal[l] \in Seq(Nat) /\ l \notin AttributeKey
  /\ Nothing \notin AttributeKey \cup DOMAIN Literal

TokenAt(s, i) == IF i \in DOMAIN s THEN s[i] ELSE Nothing

\* readIdent, readString, readOp: a token of the kind, or nothing at all.
Read(s, i, kind) ==
  IF TokenAt(s, i) \in kind THEN [token |-> s[i], pos |-> i + 1]
                            ELSE [token |-> Nothing, pos |-> i]

Consume(s, i, t) == IF TokenAt(s, i) = t THEN i + 1 ELSE i

\* The bytes of a string; without a quote, none.
Value(token) == IF token \in DOMAIN Literal THEN Literal[token] ELSE <<>>

Below(u, v) ==
  \/ IsStrictPrefix(u, v)
  \/ \E i \in DOMAIN u \cap DOMAIN v :
       u[i] < v[i] /\ \A j \in 1 .. i - 1 : u[j] = v[j]

\* Mutant: a key that is missing satisfies no comparison.
CompareIfThere(attrs, key, op, val) ==
  key \in DOMAIN attrs /\
    CASE op = "="  -> attrs[key] = val
      [] op = "!=" -> attrs[key] # val
      [] op = "<"  -> Below(attrs[key], val)
      [] op = "<=" -> ~Below(val, attrs[key])
      [] op = ">"  -> Below(val, attrs[key])
      [] op = ">=" -> ~Below(attrs[key], val)
      [] OTHER     -> FALSE

Compare(attrs, key, op, val) ==
  IF key \notin DOMAIN attrs
  THEN op = "!="
  ELSE CASE op = "="  -> attrs[key] = val
         [] op = "!=" -> attrs[key] # val
         [] op = "<"  -> Below(attrs[key], val)
         [] op = "<=" -> ~Below(val, attrs[key])
         [] op = ">"  -> Below(val, attrs[key])
         [] op = ">=" -> ~Below(attrs[key], val)
         [] OTHER     -> FALSE

Found(val, pos) == [val |-> val, pos |-> pos]

\* hasPrefix(attributes.key, "value"), from behind the parenthesis: the name
\* before the dot is not looked at, and any punctuation may be missing.
HasPrefixCall(s, attrs, i) ==
  LET base == Read(s, i, Words)
      key == Read(s, Consume(s, base.pos, "."), Words)
      str == Read(s, Consume(s, key.pos, ","), DOMAIN Literal)
  IN Found(key.token \in DOMAIN attrs
             /\ IsPrefix(Value(str.token), attrs[key.token]),
           Consume(s, str.pos, ")"))

\* attributes:key or attributes.key OP "value".
FieldTest(s, attrs, i) ==
  LET base == Read(s, i, Words)
      sep == TokenAt(s, base.pos)
      key == Read(s, base.pos + 1, Words)
      op == Read(s, key.pos, Comparisons)
      str == Read(s, op.pos, DOMAIN Literal)
  IN CASE base.token = "attributes" /\ sep = ":" ->
            Found(key.token \in DOMAIN attrs, key.pos)
       [] base.token = "attributes" /\ sep = "." ->
            Found(Compare(attrs, key.token, op.token, Value(str.token)), str.pos)
       [] base.token = "attributes" /\ sep \notin {":", "."} -> Found(FALSE, base.pos)
       [] OTHER -> Found(FALSE, base.pos)

\* Mutant: Go's own || and &&, which do not call a right side that cannot
\* change the value.
ShortCircuit(op, left, right) ==
  IF left.val = (op = "OR") THEN Found(left.val, left.pos + 1)
  ELSE right

\* The right side has been parsed whatever the value of the left one.
Join(op, left, right) ==
  Found(IF op = "OR" THEN left.val \/ right.val ELSE left.val /\ right.val, right.pos)

\* Mutant: AND and OR bind alike.
FlatOperand == [OR |-> "not", AND |-> "not"]

\* The method that parses an operand of each operator.
Operand == [OR |-> "and", AND |-> "not"]

(* One function for the methods that call each other: parseOr ("or"),      *)
(* parseAnd ("and"), parseNot ("not") and parsePrimary ("primary") from a  *)
(* position on; "OR" and "AND" are the loops of the first two, once more   *)
(* with `left` in hand.                                                    *)
Method == {"or", "and", "not", "primary", "OR", "AND"}
Outcomes(s) == [val : BOOLEAN, pos : 1 .. Len(s) + 1]

\* What a method comes to, when `run` is what the methods it calls come to.
Body(s, attrs, run, method, left) ==
  LET i == left.pos
      t == TokenAt(s, i)
      from == Found(FALSE, i + 1)
  IN CASE method = "or" -> run[<<"OR", run[<<"and", left>>]>>]
       [] method = "and" -> run[<<"AND", run[<<"not", left>>]>>]
       [] method \in {"OR", "AND"} ->
            IF t = method
            THEN run[<<method, Join(method, left, run[<<Operand[method], from>>])>>]
            ELSE left
       [] method = "not" ->
            IF t \in {"NOT", "-"}
            THEN Found(~run[<<"not", from>>].val, run[<<"not", from>>].pos)
            ELSE run[<<"primary", left>>]
       [] method = "primary" ->
            IF t = "("
            THEN Found(run[<<"or", from>>].val, Consume(s, run[<<"or", from>>].pos, ")"))
            ELSE IF t = "hasPrefix" /\ TokenAt(s, i + 1) = "("
                 THEN HasPrefixCall(s, attrs, i + 2)
                 ELSE FieldTest(s, attrs, i)

Parse(s, attrs) ==
  LET run[call \in Method \X Outcomes(s)] == Body(s, attrs, run, call[1], call[2])
  IN run[<<"or", Found(FALSE, 1)>>]

Matches(s, attrs) == s = <<>> \/ Parse(s, attrs).val
=============================================================================
