-------------------------------- MODULE Route --------------------------------
(***************************************************************************)
(* AGP routing, internal/agp and internal/registry/announcements.go: every  *)
(* open offer is announced under its capabilities, and an intent is routed  *)
(* to the cheapest announcement whose policy meets its constraints.         *)
(*                                                                          *)
(* A capability is the sequence of its segments between colons; ids are     *)
(* numbers, ordered as their text is; a policy value has the JSON kind it   *)
(* was decoded to.                                                          *)
(***************************************************************************)
EXTENDS Money, Ordering

CONSTANTS
  Lower,        \* text -> its lower case
  AsBool,       \* the texts strconv.ParseBool takes, and what they stand for
  AsNumber,     \* the texts strconv.ParseFloat takes
  MaxRoutes     \* 128

TextValue(v) == [kind |-> "text", value |-> v]
List(v) == [kind |-> "list", value |-> v]
Number(v) == [kind |-> "number", value |-> v]
Bool(v) == [kind |-> "bool", value |-> v]

-----------------------------------------------------------------------------
(* Announcements                                                            *)

NormalizeCapability(c) == [i \in DOMAIN c |-> Lower[c[i]]]

ValidateCapability(c) == Len(c) >= 2 /\ "" \notin Range(c)

\* A declared capability without a colon is a domain: the action comes from the
\* offer's description.  An offer that declares nothing usable is a general one.
CapabilitiesForOffer(o) ==
  LET usable == {c \in Range(o.capabilities) : c # << "" >>}
      named == {IF Len(c) > 1 THEN NormalizeCapability(c) ELSE << Lower[c[1]], o.action >> : c \in usable}
  IN  IF named = {} THEN {<< "general", o.action >>} ELSE named

SquadPath(o) == << o.agent, o.id >>

AnnouncementsForOffer(o) ==
  {[capability |-> c, path |-> SquadPath(o), cost |-> o.price,
    policy |-> [settlement_modes |-> List(o.modes), currencies |-> List({o.mint}),
                direction |-> TextValue(o.direction), agent |-> TextValue(ToString(o.agent))]] :
     c \in CapabilitiesForOffer(o)}

\* The open offers of active agents.
Announcements(offers, active) ==
  UNION {AnnouncementsForOffer(o) : o \in {x \in offers : x.open /\ x.agent \in active}}

-----------------------------------------------------------------------------
(* The table                                                                *)

PathBefore(p, q) == p[1] < q[1] \/ (p[1] = q[1] /\ p[2] < q[2])

\* lessCost that compares the two amounts as they are written.
lessCost_Text(a, b) ==
  LET s == a.cost.integer \o a.cost.fraction
      t == b.cost.integer \o b.cost.fraction
      n == IF Len(s) < Len(t) THEN Len(s) ELSE Len(t)
  IN  IF s = t THEN PathBefore(a.path, b.path)
      ELSE IF SubSeq(s, 1, n) = SubSeq(t, 1, n) THEN Len(s) < Len(t)
      ELSE Before(SubSeq(s, 1, n), SubSeq(t, 1, n))

lessCost(a, b) ==
  IF Cmp(a.cost, b.cost) # 0 THEN Cmp(a.cost, b.cost) < 0 ELSE PathBefore(a.path, b.path)

\* sortEntries
sortEntries(entries) == InOrder(entries, {p \in entries \X entries : lessCost(p[1], p[2])})

\* One announcement that cannot be entered refuses the table, and so does one too
\* many; {} then.
BuildTable(announcements) ==
  IF Cardinality(announcements) > MaxRoutes
     \/ \E a \in announcements : ~ValidateCapability(a.capability)
  THEN {}
  ELSE {[c \in {a.capability : a \in announcements} |->
           sortEntries({a \in announcements : a.capability = c})]}

-----------------------------------------------------------------------------
(* Policies: the values a text or a JSON value can be read as, at most one  *)

toBool(v) ==
  CASE v.kind = "bool" -> {v.value}
    [] v.kind = "text" -> IF v.value \in DOMAIN AsBool THEN {AsBool[v.value]} ELSE {}
    [] OTHER -> {}

toNumber(v) ==
  CASE v.kind = "number" -> {v.value}
    [] v.kind = "text" -> IF v.value \in DOMAIN AsNumber THEN {AsNumber[v.value]} ELSE {}
    [] OTHER -> {}

toStringList(v) ==
  CASE v.kind = "list" -> {v.value}
    [] v.kind = "text" -> {{v.value}}
    [] OTHER -> {}

matchAnyOf(want, have) ==
  \E ws \in toStringList(want), hs \in toStringList(have) :
    \E w \in ws, h \in hs : Lower[w] = Lower[h]

\* fmt.Sprint of a decoded value.
Printed(v) ==
  CASE v.kind = "text" -> v.value
    [] v.kind = "bool" -> IF v.value THEN "true" ELSE "false"
    [] OTHER -> ToString(v.value)

matchPolicy(key, want, have) ==
  CASE key = "requires_pii" -> \E w \in toBool(want), h \in toBool(have) : w => h
    [] key = "security_level" -> \E w \in toNumber(want), h \in toNumber(have) : h >= w
    [] key \in {"settlement_modes", "currencies"} -> matchAnyOf(want, have)
    [] OTHER -> Printed(want) = Printed(have)

checkPolicy(announced, constraints) ==
  \A key \in DOMAIN constraints :
    key \in DOMAIN announced /\ matchPolicy(key, constraints[key], announced[key])

-----------------------------------------------------------------------------

RouteNotFound == [code |-> "route not found"]
PolicyViolation == [code |-> "policy violation"]
InvalidIntent == [code |-> "invalid intent"]
Internal == [code |-> "internal"]

\* The table is sorted: its first compliant entry is taken.
RouteIn(table, intent) ==
  LET capability == NormalizeCapability(intent.capability)
      candidates == table[capability]
      compliant == {i \in DOMAIN candidates : checkPolicy(candidates[i].policy, intent.constraints)}
      best == CHOOSE i \in compliant : \A j \in compliant : i <= j
  IN  IF ~ValidateCapability(intent.capability) \/ intent.payload = {} THEN InvalidIntent
      ELSE IF capability \notin DOMAIN table THEN RouteNotFound
      ELSE IF compliant = {} THEN PolicyViolation
      ELSE [code |-> "routed", path |-> candidates[best].path]

\* handleAGPRoute: the table is built for every request.
RouteIntent(offers, active, intent) ==
  LET built == BuildTable(Announcements(offers, active))
  IN  IF built = {} THEN Internal ELSE RouteIn(CHOOSE t \in built : TRUE, intent)

\* RouteTask renders the caller's own payload beside the route.
RouteTask(offers, active, intent) ==
  LET result == RouteIntent(offers, active, intent)
  IN  [route |-> result,
       task |-> IF result.code # "routed" THEN {}
                ELSE {[target |-> NormalizeCapability(intent.capability), payload |-> intent.payload]}]
=============================================================================
