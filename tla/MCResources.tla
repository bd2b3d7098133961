----------------------------- MODULE MCResources -----------------------------
(***************************************************************************)
(* Requests, configurations and filters for Resources.                     *)
(***************************************************************************)
EXTENDS Resources, TLC

CONSTANTS r1, r2, r3

-----------------------------------------------------------------------------
(* Filters with their meaning: the messages, by their attributes, that pass. *)

\* Two attributes; messages may lack either.
MCAttributes ==
  UNION {[K -> {<<1>>, <<1, 2>>, <<2>>}] : K \in SUBSET {"j", "k"}}
Strings == [v1 |-> <<1>>, v12 |-> <<1, 2>>]

Phrase(tokens, Holds(_)) == [tokens |-> tokens, means |-> {a \in Attributes : Holds(a)}]
Both(p, q) == [tokens |-> p.tokens \o <<"AND">> \o q.tokens, means |-> p.means \cap q.means]
Either(p, q) == [tokens |-> p.tokens \o <<"OR">> \o q.tokens, means |-> p.means \cup q.means]
Not(word, p) == [tokens |-> <<word>> \o p.tokens, means |-> Attributes \ p.means]
Grouped(p) == [tokens |-> <<"(">> \o p.tokens \o <<")">>, means |-> p.means]

HasJ == Phrase(<<"attributes", ":", "j">>, LAMBDA a : "j" \in DOMAIN a)
Is(op, key, Holds(_)) ==
  Phrase(<<"attributes", ".", key, op, "v12">>, LAMBDA a : key \in DOMAIN a /\ Holds(a[key]))
Tests ==
  {HasJ,
   Is("=", "k", LAMBDA v : v = <<1, 2>>),
   Phrase(<<"attributes", ".", "k", "!=", "v1">>,
          LAMBDA a : "k" \in DOMAIN a => a["k"] # <<1>>),
   Is("<", "j", LAMBDA v : v = <<1>>),
   Is(">=", "k", LAMBDA v : v # <<1>>),
   Phrase(<<"hasPrefix", "(", "attributes", ".", "k", ",", "v1", ")">>,
          LAMBDA a : "k" \in DOMAIN a /\ a["k"] # <<2>>)}
Few == {HasJ} \cup {t \in Tests : "!=" \in {t.tokens[i] : i \in DOMAIN t.tokens}}

\* NOT binds closest, then AND, then OR.
Terms == Few \cup {Not(w, t) : w \in {"NOT", "-"}, t \in Few} \cup {Not("NOT", Not("NOT", HasJ))}
Conjunctions == {Both(p, q) : p, q \in Terms}
Groups == {Grouped(Either(p, q)) : p, q \in Few} \cup {Grouped(Both(HasJ, t)) : t \in Tests}
Sentences ==
  Tests \cup Terms \cup Conjunctions
  \cup {Either(p, q) : p, q \in Terms}
  \cup {Either(p, Both(q, t)) : p, q \in Terms, t \in Few}
  \cup {Either(Both(q, t), p) : p, q \in Terms, t \in Few}
  \cup {Both(p, g) : p \in Terms, g \in Groups}
  \cup {Either(Not("NOT", g), p) : p \in Few, g \in Groups}
  \cup {Both(Both(p, q), t) : p, q, t \in Few}
  \cup {Not(w, Grouped(Both(t, g))) : w \in {"NOT", "-"}, t \in Few, g \in Groups}

\* The grammar gives each of them this meaning.
ASSUME PhrasesAreRead ==
  \A p \in Sentences : \A a \in Attributes : Meanings(p.tokens, a) = {a \in p.means}

-----------------------------------------------------------------------------
(* Names, values of fields around their bounds, and requests.              *)

Plain == [goog |-> FALSE, slash |-> TRUE, first |-> "letter", rest |-> TRUE, length |-> 20]
MCShape ==
  [t1 |-> Plain, t2 |-> Plain, s1 |-> Plain, n1 |-> Plain,
   deleted |-> [Plain EXCEPT !.slash = FALSE, !.first = "underscore", !.length = 15],
   goog |-> [Plain EXCEPT !.goog = TRUE, !.slash = FALSE],
   blank |-> [Plain EXCEPT !.rest = FALSE]]

Long == <<"long">>
TooLong == <<"too", "long">>
MCFilterLength ==
  [f \in {p.tokens : p \in Sentences} \cup {<<>>, Long, TooLong} |->
     CASE f = Long    -> 256
       [] f = TooLong -> 257
       [] OTHER       -> Len(f)]

Label(count, keysMatch, longest) ==
  [count |-> count, keysMatch |-> keysMatch, longest |-> longest]
Labels == {Label(64, TRUE, 63), Label(65, TRUE, 1), Label(1, FALSE, 1), Label(1, TRUE, 64)}
Around ==
  [labels      |-> Labels,
   ack         |-> {-1, 0, 9, 10, 600, 601},
   retention   |-> {Unset, 0, 59, 60, 599, 600, 7 * Day, 7 * Day + 1, 31 * Day, 31 * Day + 1},
   retainAcked |-> {TRUE},
   push        |-> {Unset, "endpoint"},
   deadLetter  |-> {[topic |-> "t2", attempts |-> n] : n \in {0, 4, 5, 100, 101}},
   retry       |-> {[min |-> 0, max |-> 600], [min |-> Unset, max |-> 601],
                    [min |-> Unset, max |-> Unset], [min |-> 10, max |-> Unset]},
   expire      |-> {Unset, -1},
   filter      |-> {Long, TooLong},
   topic       |-> {"t2", "blank"},
   sub         |-> {"s1", "blank", "t2"}]

Payload ==
  [topic        |-> [labels |-> NoLabels, retention |-> Unset],
   subscription |-> [topic |-> "t1", labels |-> NoLabels, ack |-> 0, retention |-> Unset,
                     retainAcked |-> FALSE, filter |-> <<>>, deadLetter |-> Unset,
                     retry |-> Unset, push |-> Unset],
   snapshot     |-> [sub |-> "s1", labels |-> NoLabels]]
Name == [topic |-> "t1", subscription |-> "s1", snapshot |-> "n1"]

\* The usual payload of a kind with another value in one field.
Variants(k, fields) ==
  UNION {{[Payload[k] EXCEPT ![f] = v] : v \in Around[f]} : f \in fields}

Asking(op, k, mask, value) ==
  [op |-> op, kind |-> k, name |-> Name[k], mask |-> mask, value |-> value]
Create(k) == Asking("create", k, {}, Payload[k])
Creations(k) == {Asking("create", k, {}, v) : v \in Variants(k, DOMAIN Payload[k])}
Misnamed == {[Create(k) EXCEPT !.name = n] : k \in Kind, n \in {"goog", "blank"}}
Detach == Asking("detach", "subscription", {}, Payload["subscription"])
Push == Asking("push", "subscription", {}, [Payload["subscription"] EXCEPT !.push = "endpoint"])
Removal(k) == Asking("delete", k, {}, Payload[k])

\* Updates of one field, alone or with the labels, or with none.
Update(k, mask, f, v) ==
  LET base == IF k = "snapshot" THEN [labels |-> NoLabels, expire |-> Unset] ELSE Payload[k]
  IN Asking("update", k, mask, [base EXCEPT !.labels = Label(1, TRUE, 1), ![f] = v])
Updates(k) ==
  UNION {{Update(k, mask, f, v) : mask \in {{f}, {f, "labels"}}, v \in Around[f]} :
           f \in Updatable[k]}
Relabel(k) == Update(k, {"labels", "filter"}, "labels", Label(1, TRUE, 1))

-----------------------------------------------------------------------------
(* Plans: one creation or update of many with others that go on meanwhile. *)

Entry(k, v) == [kind |-> k, name |-> Name[k], value |-> v]
T1 == Entry("topic", Payload["topic"])
T2 == [T1 EXCEPT !.name = "t2"]
S1 == Entry("subscription", Payload["subscription"])
TopicAndSubscription == <<T1, S1>>

PlanOf(cfg, X, Y, Z) ==
  {[config |-> cfg, asked |-> (r1 :> x @@ r2 :> y @@ r3 :> z)] :
     x \in X, y \in Y, z \in Z}

MCPlan ==
  \* What Apply meets: values around the bounds, entries that occur twice.  A
  \* configuration has these fields, and no retention in it is zero.
  UNION {PlanOf(<<Entry("topic", v), S1>>, {Removal("topic")}, {Detach}, {Removal("snapshot")}) :
           v \in {w \in Variants("topic", {"labels", "retention"}) : w.retention # 0}}
  \cup UNION {PlanOf(<<T1, Entry("subscription", v)>>, {Push}, {Relabel("subscription")},
                     {Removal("snapshot")}) :
                v \in Variants("subscription", {"labels", "ack", "retainAcked", "filter"})}
  \cup PlanOf(<<T1, S1, T1, T2, [S1 EXCEPT !.value.topic = "t2", !.value.ack = 600]>>,
              {Detach}, {Removal("subscription")}, {Create("snapshot")})
  \* Creations, with what they need created, changed and deleted meanwhile.
  \cup PlanOf(<<>>, Creations("topic"), {Relabel("topic")}, {Removal("topic"), Create("topic")})
  \cup PlanOf(<<>>, {Create("topic")}, Creations("subscription"), {Push, Create("subscription")})
  \cup PlanOf(TopicAndSubscription, Creations("snapshot"), {Detach, Removal("subscription")},
              {Relabel("snapshot"), Create("snapshot")})
  \cup PlanOf(<<T1>>, Misnamed, {Create("subscription")}, {Create("snapshot")})
  \* Updates, with others of the same name.
  \cup PlanOf(<<T1>>, Updates("topic"), {Relabel("topic")}, {Removal("topic"), Create("subscription")})
  \cup PlanOf(TopicAndSubscription, Updates("subscription"),
              {Detach, Push, Relabel("subscription")},
              {Removal("subscription"), Create("snapshot")})
  \cup PlanOf(TopicAndSubscription, {Detach}, {Push},
              {Relabel("subscription"), Removal("subscription"), Create("subscription")})
  \cup PlanOf(TopicAndSubscription, Updates("snapshot"), {Create("snapshot")},
              {Relabel("snapshot"), Removal("snapshot")})
  \* Filters, one at a time.
  \cup UNION {PlanOf(<<T1, [S1 EXCEPT !.value.filter = p.tokens]>>, {Removal("snapshot")},
                     {Removal("snapshot")}, {Removal("snapshot")}) : p \in Sentences}
=============================================================================
