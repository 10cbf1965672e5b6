------------------------ MODULE PropertyPayloadProofs ------------------------
(***************************************************************************)
(* Proofs about PropertyPayload, for all props, styles and values.          *)
(***************************************************************************)
EXTENDS PropertyPayload, TLAPS

\* What is read of a property that is not there is nullish.
LEMMA MissingIsNullish == Nullish(Absent) /\ Nullish(Undefined) /\ Nullish(Read(Absent))
<1>1. Absent.type = "absent" /\ Undefined.type = "undefined"
  BY DEF Absent, Undefined
<1> QED BY <1>1 DEF Nullish, Read

\* A nullish value removes the attribute of an ordinary prop, of whatever kind.
LEMMA NullishRemoves ==
  ASSUME NEW p \in PropNames, kind[p] \in OrdinaryKinds, NEW v \in Values, Nullish(v)
  PROVE  createEntry(p, v) = Remove
<1>1. v.type \in {"absent", "undefined", "null"}
  BY DEF Nullish
<1>2. kind[p] # "nonPayload" /\ kind[p] # "unsupported"
  BY DEF OrdinaryKinds
<1>3. createEntry(p, v) = createAttributeEntry(p, v)
  BY <1>2 DEF createEntry
<1>4. ~ Truthy(v)
  BY <1>1 DEF Truthy, Nullish
<1>5. shouldRemoveAttributeValue(v, kind[p] = "known")
  BY DEF shouldRemoveAttributeValue
<1> QED BY <1>3, <1>4, <1>5 DEF createAttributeEntry

\* Only an own value can be other than nullish.
LEMMA NotNullishIsOwn ==
  ASSUME NEW v \in Values, ~ Nullish(v)
  PROVE  Own(v) /\ Read(v) = v
  BY MissingIsNullish DEF Own, Read

\* Of an element that has one of the props of an attribute, this prop decides it.
LEMMA OwnPropDecides ==
  ASSUME NEW e \in Elements, NEW a \in Attributes, NEW p \in Writers(PropNames, a),
         Own(e.of[p])
  PROVE  AttributeOf(e, a) = createEntry(p, e.of[p])
<1> DEFINE own == {q \in Writers(PropNames, a) : Own(e.of[q])}
<1>1. p \in own
  OBVIOUS
<1>2. \A q \in own : q = p
  BY DEF Elements, OneNamePerAttribute, Writers
<1>3. (CHOOSE q \in own : TRUE) = p
  BY <1>1, <1>2
<1> QED BY <1>1, <1>3 DEF AttributeOf

\* An element whose props of an attribute are all nullish does not have it.
LEMMA NullishPropsRemove ==
  ASSUME NEW e \in Elements, NEW a \in Attributes,
         \A p \in Writers(PropNames, a) : Nullish(e.of[p])
  PROVE  AttributeOf(e, a) = Remove
<1>1. CASE \A p \in Writers(PropNames, a) : ~ Own(e.of[p])
  BY <1>1 DEF AttributeOf
<1>2. CASE \E p \in Writers(PropNames, a) : Own(e.of[p])
  <2>1. PICK p \in Writers(PropNames, a) : Own(e.of[p])
    BY <1>2
  <2>2. AttributeOf(e, a) = createEntry(p, e.of[p])
    BY <2>1, OwnPropDecides
  <2>3. p \in PropNames /\ kind[p] \in OrdinaryKinds /\ e.of[p] \in Values
    BY DEF Writers, Elements, Props
  <2> QED BY <2>2, <2>3, NullishRemoves
<1> QED BY <1>1, <1>2

\* A prop that the second loop leaves alone has the value it had, or none before and after.
LEMMA UnchangedProp ==
  ASSUME NEW e \in Elements, NEW f \in Elements, NEW p \in PropNames,
         p \notin ChangedProps(e, f), Own(f.of[p])
  PROVE  \/ Own(e.of[p]) /\ f.of[p] = e.of[p]
         \/ Nullish(e.of[p]) /\ Nullish(f.of[p])
<1>1. e.of[p] \in Values /\ f.of[p] \in Values
  BY DEF Elements, Props
<1>2. CASE f.of[p] = Read(e.of[p])
  BY <1>2, MissingIsNullish DEF Read, Own
<1>3. CASE Nullish(f.of[p]) /\ Nullish(e.of[p])
  BY <1>3
<1> QED BY <1>2, <1>3 DEF ChangedProps

\* The rows of both loops take an attribute from one element to the next.
LEMMA AttributeReached ==
  ASSUME props \in Elements, NEW next \in Elements, NEW a \in Attributes,
         attributes[a] = AttributeOf(props, a)
  PROVE  applyAttributeRows(next)[a] = AttributeOf(next, a)
<1> DEFINE W == Writers(ChangedProps(props, next), a)
           R == Writers(RemovedProps(props, next), a)
<1>1. \A p \in PropNames : props.of[p] \in Values /\ next.of[p] \in Values
  BY DEF Elements, Props
<1>2. CASE W # {}
  <2> DEFINE p == CHOOSE p \in W : TRUE
  <2>1. p \in W
    BY <1>2
  <2>2. p \in Writers(PropNames, a) /\ Own(next.of[p])
    BY <2>1 DEF Writers, ChangedProps
  <2>3. applyAttributeRows(next)[a] = createEntry(p, next.of[p])
    BY <1>2 DEF applyAttributeRows
  <2> HIDE DEF p
  <2> QED BY <2>2, <2>3, OwnPropDecides
<1>3. CASE W = {}
  <2>1. applyAttributeRows(next)[a] = IF R # {} THEN Remove ELSE attributes[a]
    BY <1>3 DEF applyAttributeRows, applyRemovals
  <2>2. \A q \in Writers(PropNames, a) : q \in PropNames /\ q \notin ChangedProps(props, next)
    BY <1>3 DEF Writers
  <2>3. \A q \in Writers(PropNames, a) :
          ~ Own(props.of[q]) => Nullish(next.of[q])
    <3> SUFFICES ASSUME NEW q \in Writers(PropNames, a), ~ Own(props.of[q])
                 PROVE  Nullish(next.of[q])
      OBVIOUS
    <3>1. CASE Own(next.of[q])
      BY <3>1, <2>2, UnchangedProp
    <3>2. CASE ~ Own(next.of[q])
      BY <3>2, <2>2, <1>1, NotNullishIsOwn
    <3> QED BY <3>1, <3>2
  <2>4. \A q, r \in Writers(PropNames, a) : Own(props.of[q]) /\ Own(props.of[r]) => q = r
    BY DEF Elements, OneNamePerAttribute, Writers
  <2>5. CASE R # {}
    <3>1. PICK r \in R : TRUE
      BY <2>5
    <3>2. r \in Writers(PropNames, a) /\ r \in PropNames
          /\ ~ Nullish(props.of[r]) /\ ~ Own(next.of[r])
      BY DEF Writers, RemovedProps
    <3>3. Own(props.of[r]) /\ Nullish(next.of[r])
      BY <3>2, <1>1, NotNullishIsOwn
    <3>4. \A q \in Writers(PropNames, a) : Nullish(next.of[q])
      BY <2>3, <2>4, <3>2, <3>3
    <3> QED BY <2>1, <2>5, <3>4, NullishPropsRemove
  <2>6. CASE R = {} /\ \A q \in Writers(PropNames, a) : ~ Own(props.of[q])
    <3>1. AttributeOf(props, a) = Remove
      BY <2>6 DEF AttributeOf
    <3>2. AttributeOf(next, a) = Remove
      BY <2>3, <2>6, NullishPropsRemove
    <3> QED BY <2>1, <2>6, <3>1, <3>2
  <2>7. CASE R = {} /\ \E q \in Writers(PropNames, a) : Own(props.of[q])
    <3>1. PICK r \in Writers(PropNames, a) : Own(props.of[r])
      BY <2>7
    <3>2. r \in PropNames /\ kind[r] \in OrdinaryKinds /\ r \notin RemovedProps(props, next)
      BY <2>7 DEF Writers
    <3>3. applyAttributeRows(next)[a] = createEntry(r, props.of[r])
      BY <2>1, <2>7, <3>1, OwnPropDecides
    <3>4. CASE Own(next.of[r]) /\ next.of[r] = props.of[r]
      BY <3>1, <3>3, <3>4, OwnPropDecides
    <3>5. CASE Nullish(props.of[r]) /\ Nullish(next.of[r])
      <4>1. \A q \in Writers(PropNames, a) : Nullish(next.of[q])
        BY <2>3, <2>4, <3>1, <3>5
      <4>2. AttributeOf(next, a) = Remove
        BY <4>1, NullishPropsRemove
      <4>3. createEntry(r, props.of[r]) = Remove
        BY <3>2, <3>5, <1>1, NullishRemoves
      <4> QED BY <3>3, <4>2, <4>3
    <3>6. CASE ~ Own(next.of[r])
      <4>1. Nullish(next.of[r])
        BY <3>2, <3>6, <1>1, NotNullishIsOwn
      <4>2. Nullish(props.of[r])
        BY <3>2, <3>6 DEF RemovedProps
      <4> QED BY <4>1, <4>2, <3>5
    <3>7. CASE Own(next.of[r])
      BY <3>7, <3>2, <2>2, <3>1, <3>4, <3>5, UnchangedProp
    <3> QED BY <3>6, <3>7
  <2> QED BY <2>5, <2>6, <2>7
<1> QED BY <1>2, <1>3

\* The rows of createStyleEntries take a style from one element to the next.
LEMMA StyleReached ==
  ASSUME props \in Elements, NEW next \in Elements, NEW s \in StyleNames,
         Admitted(props, next), styles[s] = StyleOf(props, s)
  PROVE  applyStyleRows(next)[s] = StyleOf(next, s)
<1> DEFINE u == props.style.of[s]
           v == next.style.of[s]
<1>1. props.style \in StyleProps /\ next.style \in StyleProps
  BY DEF Elements, Props
<1>2. u \in Values /\ v \in Values
  BY <1>1, ValueConstants DEF StyleProps, StyleObjects, NotAnObject
<1>3. CASE ~ DiffsStyle(props, next)
  <2>1. applyStyleRows(next)[s] = styles[s]
    BY <1>3 DEF applyStyleRows
  <2>2. CASE props.style = next.style
    BY <2>1, <2>2 DEF StyleOf
  <2>3. CASE NullishStyle(props.style) /\ NullishStyle(next.style)
    <3>1. u = Absent /\ v = Absent
      BY <1>1, <2>3 DEF StyleProps, StyleObjects, NotAnObject, NullishStyle
    <3> QED BY <2>1, <3>1 DEF StyleOf
  <2> QED BY <1>3, <2>2, <2>3 DEF DiffsStyle
<1>4. CASE DiffsStyle(props, next) /\ s \in RemovedStyles(props, next)
  <2>1. applyStyleRows(next)[s] = Remove
    BY <1>4 DEF applyStyleRows
  <2>2. Nullish(v)
    BY <1>4, <1>2, NotNullishIsOwn DEF RemovedStyles
  <2> QED BY <2>1, <2>2 DEF StyleOf
<1>5. CASE DiffsStyle(props, next) /\ s \in ChangedStyles(props, next)
  <2>1. s \notin RemovedStyles(props, next)
    BY <1>5 DEF ChangedStyles, RemovedStyles
  <2>2. applyStyleRows(next)[s] = createStyleEntry(s, v)
    BY <1>5, <2>1 DEF applyStyleRows
  <2>3. createStyleEntry(s, v) # Unsupported
    BY <1>5 DEF Admitted
  <2>4. CASE Nullish(v)
    BY <2>2, <2>3, <2>4 DEF StyleOf, createStyleEntry, shouldRemoveStyleValue
  <2>5. CASE ~ Nullish(v)
    BY <2>2, <2>5 DEF StyleOf
  <2> QED BY <2>4, <2>5
<1>6. CASE DiffsStyle(props, next) /\ s \notin RemovedStyles(props, next)
           /\ s \notin ChangedStyles(props, next)
  <2>1. applyStyleRows(next)[s] = styles[s]
    BY <1>6 DEF applyStyleRows
  <2>2. CASE ~ Own(v)
    <3>1. ~ Own(u)
      BY <1>6, <2>2 DEF RemovedStyles
    <3>2. Nullish(u) /\ Nullish(v)
      BY <3>1, <2>2, <1>2, NotNullishIsOwn
    <3> QED BY <2>1, <3>2 DEF StyleOf
  <2>3. CASE Own(v)
    <3>1. v = Read(u)
      BY <1>6, <2>3 DEF ChangedStyles
    <3>2. CASE Own(u)
      BY <2>1, <3>1, <3>2 DEF StyleOf, Read, Own
    <3>3. CASE ~ Own(u)
      <4>1. Nullish(u) /\ Nullish(v)
        BY <3>1, <3>3, MissingIsNullish DEF Read, Own
      <4> QED BY <2>1, <4>1 DEF StyleOf
    <3> QED BY <3>2, <3>3
  <2> QED BY <2>2, <2>3
<1> QED BY <1>3, <1>4, <1>5, <1>6

\* The inductive invariant: the DOM shows the element, and the element is one.
ShowsElement == props \in Elements /\ DomShowsProps

\* A node starts without props, attributes and styles.
LEMMA InitShows == Init => ShowsElement
<1> SUFFICES ASSUME Init PROVE ShowsElement
  OBVIOUS
<1>1. props \in Elements
  BY ValueConstants DEF Init, Elements, Props, StyleProps, OneNamePerAttribute, Own
<1>2. \A p \in PropNames : Nullish(props.of[p])
  BY DEF Init, Nullish, Absent
<1>3. \A a \in Attributes : AttributeOf(props, a) = Remove
  BY <1>1, <1>2, NullishPropsRemove DEF Writers
<1>4. \A s \in StyleNames : StyleOf(props, s) = Remove
  BY DEF Init, StyleOf, NotAnObject, Nullish, Absent
<1> QED BY <1>1, <1>3, <1>4 DEF ShowsElement, DomShowsProps, Init

\* An update that is not refused makes the DOM show the next element.
LEMMA CommitShows ==
  ASSUME ShowsElement, NEW next \in Elements, commitDomPropertyUpdate(next)
  PROVE  ShowsElement'
<1>1. \A a \in Attributes : attributes'[a] = AttributeOf(next, a)
  BY AttributeReached DEF ShowsElement, DomShowsProps, commitDomPropertyUpdate
<1>2. attributes' = [a \in Attributes |-> AttributeOf(next, a)]
  BY <1>1 DEF commitDomPropertyUpdate, applyAttributeRows
<1>3. \A s \in StyleNames : styles'[s] = StyleOf(next, s)
  BY StyleReached DEF ShowsElement, DomShowsProps, commitDomPropertyUpdate
<1>4. styles' = [s \in StyleNames |-> StyleOf(next, s)]
  BY <1>3 DEF commitDomPropertyUpdate, applyStyleRows
<1>5. props' = next
  BY DEF commitDomPropertyUpdate
<1>6. (\A a \in Attributes : AttributeOf(props', a) = AttributeOf(next, a))
      /\ (\A s \in StyleNames : StyleOf(props', s) = StyleOf(next, s))
  BY <1>5
<1> QED BY <1>2, <1>4, <1>5, <1>6 DEF ShowsElement, DomShowsProps

\* diffDomPropertyPayload never leaves the DOM behind the props: for all props and values,
\* after any number of updates, a node shows what a node made for its last element would.
THEOREM DomCorrect == Spec => []DomShowsProps
<1>1. ShowsElement /\ [Next]_vars => ShowsElement'
  <2> SUFFICES ASSUME ShowsElement, [Next]_vars PROVE ShowsElement'
    OBVIOUS
  <2>1. CASE Next
    BY <2>1, CommitShows DEF Next
  <2>2. CASE UNCHANGED vars
    BY <2>2 DEF vars, ShowsElement, DomShowsProps, AttributeOf, StyleOf
  <2> QED BY <2>1, <2>2
<1>2. ShowsElement => DomShowsProps
  BY DEF ShowsElement
<1> QED BY <1>1, <1>2, InitShows, PTL DEF Spec

=============================================================================
