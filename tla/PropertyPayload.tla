-------------------------- MODULE PropertyPayload ---------------------------
(***************************************************************************)
(* The properties of a host component: the difference between the props it  *)
(* shows and the next ones becomes a payload of rows, and the rows are      *)
(* applied to the DOM (diffDomPropertyPayload of packages/react-dom/src/    *)
(* dom-host/property-payload.js, commitDomPropertyUpdate of mutation.js).   *)
(*                                                                          *)
(* A payload is made in two loops, over the props that are gone and over    *)
(* the next props. Two props can name one attribute ("class", "className"), *)
(* and the order of the loops is then what keeps the DOM right; within one  *)
(* loop the rows have different targets, so a loop is a set of rows here.   *)
(* dangerouslySetInnerHTML, whose clearing belongs to the text content, is  *)
(* left out. A setter that throws is the subject of HostOutput.             *)
(***************************************************************************)
EXTENDS Naturals, FiniteSets

CONSTANTS
  PropNames,      \* the names of props, but for style
  Attributes,     \* the names of attributes
  kind,           \* what getOrdinaryAttribute and createEntries say of each prop
  attribute,      \* the attribute an ordinary prop sets
  StyleNames,     \* the names of styles
  SupportedStyles,
  PlainStyles,    \* the styles whose numbers get no unit
  Values,         \* the values of props and styles
  Texts           \* what a value is as a string

OrdinaryKinds == {"known", "booleanish", "boolean"}

ASSUME PropertyConstants ==
  /\ kind \in [PropNames -> OrdinaryKinds \cup {"nonPayload", "unsupported"}]
  /\ attribute \in [PropNames -> Attributes]
  /\ SupportedStyles \subseteq StyleNames /\ PlainStyles \subseteq StyleNames

\* A JavaScript value: its type and what it is as a string. "absent" is a property an object
\* does not have; reading it gives undefined. The uncoercible value throws in String(), and
\* a number that is not finite is a type of its own.
Types == {"absent", "undefined", "null", "boolean", "function", "uncoercible",
          "string", "number", "nonfinite"}
Absent == [type |-> "absent", text |-> ""]
Undefined == [type |-> "undefined", text |-> ""]

ASSUME ValueConstants ==
  /\ Values \subseteq [type : Types, text : Texts]
  /\ Absent \in Values

Own(v) == v # Absent
Read(v) == IF v = Absent THEN Undefined ELSE v
Nullish(v) == v.type \in {"absent", "undefined", "null"}

Truthy(v) ==
  /\ ~ Nullish(v)
  /\ v.type = "boolean" => v.text = "true"
  /\ v.type = "string" => v.text # ""
  /\ v.type = "number" => v.text # "0"

----------------------------------------------------------------------------
(* Rows.                                                                    *)

Remove == [kind |-> "remove", text |-> "", unit |-> FALSE]
Set(text, unit) == [kind |-> "set", text |-> text, unit |-> unit]
NonPayload == [kind |-> "nonPayload", text |-> "", unit |-> FALSE]
Unsupported == [kind |-> "unsupported", text |-> "", unit |-> FALSE]

shouldRemoveAttributeValue(v, removeBooleans) ==
  Nullish(v) \/ v.type = "function" \/ (v.type = "boolean" /\ removeBooleans)

coerceSetAttributeEntry(v) ==
  IF v.type = "uncoercible" THEN Unsupported ELSE Set(v.text, FALSE)

createAttributeEntry(p, v) ==
  IF kind[p] = "boolean"
  THEN IF Truthy(v) /\ v.type # "function" THEN Set("", FALSE) ELSE Remove
  ELSE IF shouldRemoveAttributeValue(v, kind[p] = "known") THEN Remove
  ELSE coerceSetAttributeEntry(v)

createEntry(p, v) ==
  IF kind[p] = "nonPayload" THEN NonPayload
  ELSE IF kind[p] = "unsupported" THEN Unsupported
  ELSE createAttributeEntry(p, v)

shouldRemoveStyleValue(v) ==
  Nullish(v) \/ v.type = "boolean" \/ (v.type = "string" /\ v.text = "")

\* A number other than 0 gets the unit "px".
coerceStyleValue(s, v) ==
  IF v.type = "number" THEN Set(v.text, v.text # "0" /\ s \notin PlainStyles)
  ELSE IF v.type = "string" THEN Set(v.text, FALSE)
  ELSE Unsupported

createStyleEntry(s, v) ==
  IF s \notin SupportedStyles THEN Unsupported
  ELSE IF shouldRemoveStyleValue(v) THEN Remove
  ELSE coerceStyleValue(s, v)

----------------------------------------------------------------------------
(* The payload.                                                             *)

\* Props: the ones of the names, and the style prop, an object or something else.
StyleObjects == [is : {"object"}, of : [StyleNames -> Values]]
NotAnObject == [s \in StyleNames |-> Absent]
StyleProps == StyleObjects \cup [is : {"absent", "nullish", "other"}, of : {NotAnObject}]
Props == [of : [PropNames -> Values], style : StyleProps]

\* The first loop of diffDomPropertyPayload.
RemovedProps(prev, next) ==
  {p \in PropNames : ~ Nullish(prev.of[p]) /\ ~ Own(next.of[p])}

\* The second loop.
ChangedProps(prev, next) ==
  {p \in PropNames :
     /\ Own(next.of[p]) /\ next.of[p] # Read(prev.of[p])
     /\ ~ Nullish(next.of[p]) \/ ~ Nullish(prev.of[p])}

NullishStyle(style) == style.is \in {"absent", "nullish"}

\* Whether createStyleEntries is called, from either loop.
DiffsStyle(prev, next) ==
  prev.style # next.style /\ ~ (NullishStyle(prev.style) /\ NullishStyle(next.style))

RemovedStyles(prev, next) ==
  {s \in StyleNames : Own(prev.style.of[s]) /\ ~ Own(next.style.of[s])}

ChangedStyles(prev, next) ==
  {s \in StyleNames : Own(next.style.of[s]) /\ next.style.of[s] # Read(prev.style.of[s])}

\* No row makes the commit throw before it writes.
Admitted(prev, next) ==
  /\ \A p \in RemovedProps(prev, next) : createEntry(p, Undefined) # Unsupported
  /\ \A p \in ChangedProps(prev, next) : createEntry(p, next.of[p]) # Unsupported
  /\ DiffsStyle(prev, next) =>
       /\ prev.style.is # "other" /\ next.style.is # "other"
       /\ \A s \in RemovedStyles(prev, next) : s \in SupportedStyles
       /\ \A s \in ChangedStyles(prev, next) :
            createStyleEntry(s, next.style.of[s]) # Unsupported

----------------------------------------------------------------------------
(* The DOM: what the last row of each attribute and each style says.        *)

VARIABLES props, attributes, styles

vars == <<props, attributes, styles>>

\* The ordinary props among S that write attribute a.
Writers(S, a) == {p \in S : kind[p] \in OrdinaryKinds /\ attribute[p] = a}

applyRemovals(S) ==
  [a \in Attributes |-> IF Writers(S, a) # {} THEN Remove ELSE attributes[a]]

\* Mutant: the rows of the props that are gone come last.
applyRemovalsLast(next) ==
  [a \in Attributes |->
    LET writers == Writers(ChangedProps(props, next), a) IN
    IF writers # {} /\ Writers(RemovedProps(props, next), a) = {}
    THEN LET p == CHOOSE p \in writers : TRUE IN createEntry(p, next.of[p])
    ELSE applyRemovals(RemovedProps(props, next))[a]]

\* applyNormalizedPropertyPayloadEntry for the rows of both loops.
applyAttributeRows(next) ==
  [a \in Attributes |->
    LET writers == Writers(ChangedProps(props, next), a) IN
    IF writers # {}
    THEN LET p == CHOOSE p \in writers : TRUE IN createEntry(p, next.of[p])
    ELSE applyRemovals(RemovedProps(props, next))[a]]

\* applyStylePayloadEntry for the rows of createStyleEntries.
applyStyleRows(next) ==
  [s \in StyleNames |->
    IF DiffsStyle(props, next) /\ s \in RemovedStyles(props, next) THEN Remove
    ELSE IF DiffsStyle(props, next) /\ s \in ChangedStyles(props, next)
    THEN createStyleEntry(s, next.style.of[s])
    ELSE styles[s]]

\* What is assumed of an element: of the props of one attribute it has at most one.
OneNamePerAttribute(next) ==
  \A p, q \in PropNames :
    /\ Own(next.of[p]) /\ Own(next.of[q])
    /\ kind[p] \in OrdinaryKinds /\ kind[q] \in OrdinaryKinds
    /\ attribute[p] = attribute[q]
    => p = q

Elements == {next \in Props : OneNamePerAttribute(next)}

\* createInstance: a new node has no attributes and no styles.
Init ==
  /\ props = [of |-> [p \in PropNames |-> Absent],
              style |-> [is |-> "absent", of |-> NotAnObject]]
  /\ attributes = [a \in Attributes |-> Remove]
  /\ styles = [s \in StyleNames |-> Remove]

\* A commit throws, and nothing changes, when a row is not supported.
commitDomPropertyUpdate(next) ==
  /\ Admitted(props, next)
  /\ attributes' = applyAttributeRows(next)
  /\ styles' = applyStyleRows(next)
  /\ props' = next

Next == \E next \in Elements : commitDomPropertyUpdate(next)

Spec == Init /\ [][Next]_vars

----------------------------------------------------------------------------
(* What the DOM should show.                                                *)

\* The attribute of an element, made from the element alone.
AttributeOf(next, a) ==
  LET own == {p \in Writers(PropNames, a) : Own(next.of[p])} IN
  IF own = {} THEN Remove ELSE LET p == CHOOSE p \in own : TRUE IN createEntry(p, next.of[p])

StyleOf(next, s) ==
  IF Nullish(next.style.of[s]) THEN Remove ELSE createStyleEntry(s, next.style.of[s])

\* After any number of updates the attributes and the styles of a node are the ones of the
\* last element, as if the node had been made for it: no diff leaves anything behind, removes
\* what another name of the same attribute has set, or skips a change (diffDomPropertyPayload).
DomShowsProps ==
  /\ attributes = [a \in Attributes |-> AttributeOf(props, a)]
  /\ styles = [s \in StyleNames |-> StyleOf(props, s)]

=============================================================================
