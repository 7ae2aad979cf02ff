---------------------------- MODULE JsonRedaction ----------------------------
(***************************************************************************)
(* What the RPC log plugin makes of the parameters of a command it logs:   *)
(* the name of the caller, from the first rune that has an operator tag,   *)
(* and a body without sensitive values (rune_from_json_* and               *)
(* sanitize_json_* in main.rs, rune_tag in rune.rs).                       *)
(*                                                                         *)
(* A JSON value is a record: objects and arrays have their entries in the  *)
(* order in which they are iterated, and those of an object have a key; a  *)
(* string has a text, anything else is a scalar.  That the keys of an      *)
(* object differ and are sorted is of no consequence here.  What the code  *)
(* asks of a key is which terms its lower-case form contains, and of a     *)
(* text which parts it has as a rune, if it is one.                        *)
(***************************************************************************)
EXTENDS Sequences, Naturals

CONSTANTS
    Keys,               \* the keys of objects
    Terms,              \* Terms[k]: the terms that key k contains
    DangerFields,       \* the terms to redact
    Texts,              \* the texts of strings
    RuneParts,          \* RuneParts[t]: the restrictions of a text that is a rune
    Operators,          \* the restrictions operator#<name>
    MaxDepth,           \* bound: the nesting that serde_json reads
    Requests            \* the parameters of the commands to log

VARIABLES
    params,             \* rpc_command.params
    caller,             \* RpcLog.caller
    body                \* RpcLog.body

record == <<params, caller, body>>

-----------------------------------------------------------------------------
String(text) == [is |-> "string", text |-> text]
Scalar == [is |-> "scalar"]

Mark == "***"
NoOperator == "no operator"
NotYet == Scalar

NoKey == ""
VisitedKeys == Keys \cup {NoKey}

Objects(values) == [is : {"object"}, entries : Seq([key : Keys, value : values])]
Arrays(values) == [is : {"array"}, entries : Seq([value : values])]

(* The values of up to n levels.                                           *)
ValuesUpto[n \in 0 .. MaxDepth] ==
    IF n = 0
    THEN [is : {"string"}, text : Texts \cup {Mark}] \cup {Scalar}
    ELSE LET inner == ValuesUpto[n - 1]
         IN  inner \cup Objects(inner) \cup Arrays(inner)

Values == ValuesUpto[MaxDepth]

IsContainer(value) == value.is \in {"object", "array"}

ASSUME DepthAssumption == MaxDepth \in Nat
ASSUME RedactionAssumption ==
    /\ DOMAIN Terms = Keys
    /\ \A t \in DOMAIN RuneParts : RuneParts[t] \in Seq(STRING)
ASSUME OperatorsAssumption == NoOperator \notin Operators
ASSUME RequestsAssumption == \A r \in Requests : r \in Values /\ IsContainer(r)

-----------------------------------------------------------------------------
TermsOf(key) == IF key = NoKey THEN {} ELSE Terms[key]

(* A key is sensitive when it contains a term, not when it is one, nor     *)
(* when a term contains it.                                                *)
is_sensitive_key_exact(key) == key \in DangerFields
is_sensitive_key_swapped(key) == key = NoKey \/ key \in DangerFields
is_sensitive_key(key) == TermsOf(key) \cap DangerFields # {}

(* The key under which an entry is visited.  An element of an array has    *)
(* the empty one, which contains no term.                                  *)
ElementKeyInherited(key) == key
ElementKey(key) == NoKey
VisitKey(key, value, i) ==
    IF value.is = "object" THEN value.entries[i].key ELSE ElementKey(key)

(* An entry stays in its place under its key; only its value changes.      *)
WithValues(value, results) ==
    [value EXCEPT !.entries = [i \in DOMAIN value.entries |->
                                 [value.entries[i] EXCEPT !.value = results[i]]]]

(* A call of one of the recursive functions has a key and a value; its     *)
(* calls for the entries have theirs.                                      *)
Visits(values) == VisitedKeys \X values
EntryVisit(visit, i) ==
    <<VisitKey(visit[1], visit[2], i), visit[2].entries[i].value>>

sanitize_json_value[visit \in Visits(Values)] ==
    LET key == visit[1]  value == visit[2]
    IN  IF is_sensitive_key(key) THEN String(Mark)
        ELSE IF IsContainer(value)
             THEN WithValues(value, [i \in DOMAIN value.entries |->
                                       sanitize_json_value[EntryVisit(visit, i)]])
             ELSE value

(* The parameters as a whole are an object or an array, and have no key.   *)
sanitize_json_array(value) == sanitize_json_value[<<NoKey, value>>]

-----------------------------------------------------------------------------
(* find_map: the first result that is one.                                 *)
FirstFound(results) ==
    IF \A i \in DOMAIN results : results[i] = NoOperator THEN NoOperator
    ELSE results[CHOOSE i \in DOMAIN results :
                   /\ results[i] # NoOperator
                   /\ \A j \in 1 .. i - 1 : results[j] = NoOperator]

(* The first operator tag of a text, if it is a rune and has one.          *)
Tag(part) == IF part \in Operators THEN part ELSE NoOperator
rune_tag(text) ==
    IF text \in DOMAIN RuneParts
    THEN FirstFound([i \in DOMAIN RuneParts[text] |-> Tag(RuneParts[text][i])])
    ELSE NoOperator

(* A text at a rune key whose tag is missing, or that is no rune at all,   *)
(* is not the end of the search.                                           *)
OwnTag(key, value) ==
    IF "rune" \in TermsOf(key) /\ value.is = "string" THEN rune_tag(value.text)
    ELSE NoOperator

rune_from_json_value[visit \in Visits(Values)] ==
    LET key == visit[1]  value == visit[2]
    IN  IF IsContainer(value)
        THEN FirstFound([i \in DOMAIN value.entries |->
                           rune_from_json_value[EntryVisit(visit, i)]])
        ELSE OwnTag(key, value)

rune_from_json_array(value) == rune_from_json_value[<<NoKey, value>>]

-----------------------------------------------------------------------------
RecordInit ==
    /\ params \in Requests
    /\ caller = NoOperator
    /\ body = NotYet

(* on_hook_rpc_command makes the record.                                   *)
Log ==
    /\ body = NotYet
    /\ caller' = rune_from_json_array(params)
    /\ body' = sanitize_json_array(params)
    /\ UNCHANGED params

RecordSpec == RecordInit /\ [][Log]_record

-----------------------------------------------------------------------------
(* Reference: a value as the set of its leaves with the paths to them.  A  *)
(* step has the key and the position in the order of iteration.            *)

StepAt(value, i) ==
    [key |-> IF value.is = "object" THEN value.entries[i].key ELSE NoKey, at |-> i]
Below(step, leaves) ==
    {[path |-> <<step>> \o l.path, leaf |-> l.leaf] : l \in leaves}

Leaves[value \in Values] ==
    IF IsContainer(value) /\ value.entries # <<>>
    THEN UNION {Below(StepAt(value, i), Leaves[value.entries[i].value]) :
                   i \in DOMAIN value.entries}
    ELSE {[path |-> <<>>, leaf |-> value]}

Sensitive(step) == \E t \in DangerFields : t \in TermsOf(step.key)

SensitiveSteps(path) == {i \in DOMAIN path : Sensitive(path[i])}
CutAtFirst(path) ==
    SubSeq(path, 1, CHOOSE i \in SensitiveSteps(path) : \A j \in SensitiveSteps(path) : i <= j)

Clean(leaves) == {l \in leaves : SensitiveSteps(l.path) = {}}

Earlier(p, q) ==
    \E i \in DOMAIN p \cap DOMAIN q :
        /\ p[i].at < q[i].at
        /\ \A j \in 1..i - 1 : p[j].at = q[j].at

-----------------------------------------------------------------------------
(* Properties.                                                             *)

(* Nothing that lies below a sensitive key, at any depth and through       *)
(* arrays, is in the record: such a key ends in the mark.                  *)
NothingSensitive ==
    body # NotYet =>
        \A l \in Leaves[body] : \A i \in SensitiveSteps(l.path) :
            i = Len(l.path) /\ l.leaf = String(Mark)

(* All the rest is as it was, in its place; what is cut shows where.       *)
RestIsKept ==
    body # NotYet =>
        /\ Clean(Leaves[body]) = Clean(Leaves[params])
        /\ {l.path : l \in Leaves[body] \ Clean(Leaves[body])} =
           {CutAtFirst(l.path) : l \in Leaves[params] \ Clean(Leaves[params])}

(* The leaves that name an operator: a rune with a tag right at a rune     *)
(* key.                                                                    *)
Tags(l) == {i \in DOMAIN RuneParts[l.leaf.text] : RuneParts[l.leaf.text][i] \in Operators}
Named ==
    {l \in Leaves[params] :
        /\ l.leaf.is = "string" /\ l.leaf.text \in DOMAIN RuneParts
        /\ "rune" \in TermsOf(l.path[Len(l.path)].key)
        /\ Tags(l) # {}}
NameIn(l) == RuneParts[l.leaf.text][CHOOSE i \in Tags(l) : \A j \in Tags(l) : i <= j]

(* The caller of the record is the operator of the first such rune of the  *)
(* parameters, one below a redacted key included; a rune without a tag, or *)
(* a text that is no rune, does not end the search.                        *)
CallerIsFirstNamed ==
    body # NotYet =>
        IF Named = {} THEN caller = NoOperator
        ELSE \E l \in Named :
                /\ \A m \in Named : m = l \/ Earlier(l.path, m.path)
                /\ caller = NameIn(l)
=============================================================================
