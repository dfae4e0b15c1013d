--------------------------- MODULE EventCondition ---------------------------
(***************************************************************************)
(* How the condition of a FunctionEventTrigger becomes the condition of its *)
(* OCI Events rule.                                                        *)
(*                                                                         *)
(* A user writes it as JSON, or in a structured form, a list of event types *)
(* and a JSON object of data attributes.  The controller checks either     *)
(* form; it renders the second one, single values instead of arrays of one, *)
(* and hands the result to the rule.                                       *)
(*                                                                         *)
(* A JSON value is a tuple that starts with its kind, so that TLC can      *)
(* compare any two.  An object is a set of pairs, since neither the code   *)
(* nor OCI tells orders of keys apart.                                     *)
(*                                                                         *)
(* Left out: the error texts; numbers and Booleans, which are treated like *)
(* texts; triggers of functionevent types, which have no rule; a Function  *)
(* that is not ready and calls of OCI that fail (EventTrigger has both).   *)
(***************************************************************************)
EXTENDS Naturals, Sequences

CONSTANTS
  EventTypeLists,  \* lists of event types a user may give
  Datas,           \* objects a user may give as condition.data
  RawDocuments,    \* JSON values a user may give as condition.rawJson
  Events           \* events that reach OCI, with their type and data

VARIABLES
  condition,  \* spec.condition
  rule,       \* the condition the OCI Events rule has
  phase       \* what the trigger's status says: "", "Ready" or "Error"

vars == <<condition, rule, phase>>

None    == <<"none">>
Invalid == <<"invalid">>
NoRule  == <<"norule">>
Null    == <<"null">>
Text(name, padded) == <<"text", name, padded>>
Array(items)       == <<"array", items>>
ObjectOf(pairs)    == <<"object", pairs>>

IsObject(v) == v[1] = "object"
KeysOf(v)   == {p[1] : p \in v[2]}
Field(v, k) == (CHOOSE p \in v[2] : p[1] = k)[2]

\* "" stands for a text that is nothing but blanks.
TrimSpace(t) == Text(t[2], FALSE)
IsBlank(t)   == t[2] = ""

\* The CRD refuses a condition that has neither form, or both.
Structured(types, data) == [eventType |-> types, data |-> data, rawJson |-> None]
Raw(document) == [eventType |-> <<>>, data |-> None, rawJson |-> document]

Conditions ==
  ({Structured(l, d) : l \in EventTypeLists, d \in Datas \union {None}}
     \ {Structured(<<>>, None)})
  \union {Raw(j) : j \in RawDocuments}

Init == condition \in Conditions /\ rule = NoRule /\ phase = ""
-----------------------------------------------------------------------------
(* Rendering.                                                              *)

\* Mutant: an empty array passes.
Refused_Null(v) == v = Null

Refused(v) == v = Null \/ v = Array(<<>>)

\* An array of one is written as the one, except below another array.
RECURSIVE normalizeConditionData(_, _)
normalizeConditionData(v, collapseSingleArrays) ==
  CASE Refused(v) -> Invalid
    [] v[1] = "object" ->
         LET pairs == {<<p[1], normalizeConditionData(p[2], collapseSingleArrays)>> : p \in v[2]}
         IN  IF \E p \in pairs : p[2] = Invalid THEN Invalid ELSE ObjectOf(pairs)
    [] v[1] = "array" ->
         LET items == [i \in DOMAIN v[2] |-> normalizeConditionData(v[2][i], FALSE)]
         IN  IF \E i \in DOMAIN items : items[i] = Invalid THEN Invalid
             ELSE IF collapseSingleArrays /\ Len(items) = 1 THEN items[1] ELSE Array(items)
    [] OTHER -> v

\* Mutant: a padded type is passed on as it is.
renderConditionEventType_Padded(types) ==
  CASE \E i \in DOMAIN types : IsBlank(types[i]) -> Invalid
    [] Len(types) = 1 -> types[1]
    [] OTHER -> Array(types)

renderConditionEventType(types) ==
  LET trimmed == [i \in DOMAIN types |-> TrimSpace(types[i])]
  IN  CASE \E i \in DOMAIN trimmed : IsBlank(trimmed[i]) -> Invalid
        [] Len(trimmed) = 1 -> trimmed[1]
        [] OTHER -> Array(trimmed)

\* The types are checked as they are without blanks, and passed on with them.
validEventType(v) ==
  \/ v[1] = "text" /\ ~ IsBlank(v)
  \/ /\ v[1] = "array" /\ v[2] # <<>>
     /\ \A i \in DOMAIN v[2] : v[2][i][1] = "text" /\ ~ IsBlank(v[2][i])

validData(v) == IsObject(v) /\ normalizeConditionData(v, FALSE) # Invalid

validateOCIEventsConditionDocument(document) ==
  \A k \in KeysOf(document) :
    LET v == Field(document, k)
    IN  CASE k = "eventType" -> validEventType(v)
          [] k = "data"      -> validData(v)
          [] OTHER           -> normalizeConditionData(v, FALSE) # Invalid

\* The document is checked, and kept.
normalizeConditionJSON(v) ==
  IF IsObject(v) /\ v[2] # {} /\ validateOCIEventsConditionDocument(v)
  THEN v ELSE Invalid

conditionJSONFromSpec(c) ==
  LET type == renderConditionEventType(c.eventType)
      data == normalizeConditionData(c.data, TRUE)
      has(k, cond, v) == IF cond THEN {<<k, v>>} ELSE {}
  IN  CASE c.rawJson # None -> normalizeConditionJSON(c.rawJson)
        [] c.eventType # <<>> /\ type = Invalid -> Invalid
        [] c.data # None /\ ~ IsObject(data) -> Invalid
        [] OTHER -> ObjectOf(has("eventType", c.eventType # <<>>, type)
                             \union has("data", c.data # None, data))
-----------------------------------------------------------------------------
(* A trigger, from its creation.                                           *)

\* An invalid condition leaves the rule alone.
ReconcileInvalid ==
  /\ phase = "" /\ conditionJSONFromSpec(condition) = Invalid
  /\ phase' = "Error" /\ UNCHANGED <<condition, rule>>

Reconcile ==
  /\ phase = "" /\ conditionJSONFromSpec(condition) # Invalid
  /\ rule' = conditionJSONFromSpec(condition)
  /\ phase' = "Ready" /\ UNCHANGED condition

\* A user writes down as rawJson what the rule has.
CopyToRaw ==
  /\ phase = "Ready" /\ condition' = Raw(rule)
  /\ phase' = "" /\ UNCHANGED rule

Next == ReconcileInvalid \/ Reconcile \/ CopyToRaw

Spec == Init /\ [][Next]_vars
-----------------------------------------------------------------------------
(* What a condition means, and what the rendering promises.                *)

\* A condition of OCI Events: every field it names has the value it gives, or
\* one of the values of an array.
RECURSIVE Matches(_, _)
Matches(v, e) ==
  CASE v[1] = "object" -> /\ IsObject(e)
                          /\ \A p \in v[2] : \E q \in e[2] : q[1] = p[1] /\ Matches(p[2], q[2])
    [] v[1] = "array"  -> \E i \in DOMAIN v[2] : Matches(v[2][i], e)
    [] OTHER           -> v = e

\* An event that a structured condition asks for.
Wanted(c, e) ==
  /\ c.eventType = <<>> \/ \E i \in DOMAIN c.eventType :
                             c.eventType[i][2] = Field(e, "eventType")[2]
  /\ c.data = None \/ Matches(c.data, Field(e, "data"))

\* A value, and everything in it.
RECURSIVE Within(_)
Within(v) ==
  {v} \union CASE v[1] = "object" -> UNION {Within(p[2]) : p \in v[2]}
               [] v[1] = "array"  -> UNION {Within(v[2][i]) : i \in DOMAIN v[2]}
               [] OTHER           -> {}

\* The rule fires for the events the structured condition asks for and for no
\* others: trimming types, and writing a single value for an array of one, at
\* any depth, do not change what is matched.  A rawJson is taken literally.
RuleMeansSpec ==
  phase = "Ready" =>
    IF condition.rawJson # None THEN rule = condition.rawJson
    ELSE \A e \in Events : Matches(rule, e) <=> Wanted(condition, e)

\* A condition is refused if and only if something in it is null, an empty array
\* or a blank type, however deep, or is not of the kind its place asks for.
RefusedIfMeaningless ==
  phase # "" /\ (phase = "Error" \/ rule # NoRule) =>
    LET c        == condition
        fields   == IF c.rawJson = None \/ c.rawJson[1] # "object" THEN {} ELSE c.rawJson[2]
        typeList == {c.eventType[i] : i \in DOMAIN c.eventType}
                    \union UNION {Within(p[2]) : p \in {q \in fields : q[1] = "eventType"}}
        null(v)  == v = <<"null">> \/ v = <<"array", <<>>>>
    IN  phase = "Error" <=>
          \/ \E v \in Within(c.data) \union Within(c.rawJson) : null(v)
          \/ \E v \in typeList : v[1] = "text" /\ v[2] = ""
          \/ \E v \in typeList : v[1] = "object"
          \/ \E p \in fields : /\ p[1] = "eventType" /\ p[2][1] = "array"
                               /\ \E i \in DOMAIN p[2][2] : p[2][2][i][1] # "text"
          \/ \E p \in fields : p[1] = "data" /\ p[2][1] # "object"
          \/ c.rawJson # None /\ fields = {}
=============================================================================
