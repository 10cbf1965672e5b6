--------------------------- MODULE ChildrenHelper ---------------------------
(***************************************************************************)
(* React.Children.map and toArray: nested children are flattened, and every *)
(* element gets a key made from its own key, or its index, and the path to  *)
(* it (packages/react/children-helper.js).                                  *)
(*                                                                          *)
(* The keys are what the reconciler tells siblings apart by, so they are    *)
(* modelled as what they are, sequences of characters.                      *)
(***************************************************************************)
EXTENDS Naturals, Sequences, SequencesExt, Folds

NoKey == <<"no key">>

\* The children: null, text, an element with or without a key, a list, and a lazy
\* child, which resolves to another child.
Null == [kind |-> "null"]
Text == [kind |-> "text"]
Element(key) == [kind |-> "element", key |-> key]
List(items) == [kind |-> "list", items |-> items]
Lazy(child) == [kind |-> "lazy", of |-> child]

\* Mutant: an explicit key looks like an index.
EscapeKeyWithoutDollar(key) ==
  FlattenSeq([i \in DOMAIN key |-> CASE key[i] = "=" -> <<"=", "0">>
                                     [] key[i] = ":" -> <<"=", "2">>
                                     [] OTHER -> <<key[i]>>])

escapeKey(key) ==
  <<"$">> \o FlattenSeq([i \in DOMAIN key |-> CASE key[i] = "=" -> <<"=", "0">>
                                                [] key[i] = ":" -> <<"=", "2">>
                                                [] OTHER -> <<key[i]>>])

\* userProvidedKeyEscapeRegex: every run of slashes gets one more.
EscapeSlashes(key) ==
  FlattenSeq([i \in DOMAIN key |->
    IF key[i] = "/" /\ (i = Len(key) \/ key[i + 1] # "/") THEN <<"/", "/">> ELSE <<key[i]>>])

\* An index is one character here: the lists of the instances are short.
Digit(index) == <<<<"0", "1", "2", "3", "4", "5", "6", "7", "8", "9">>[index + 1]>>

getElementKey(child, index) ==
  IF child.kind = "element" /\ child.key # NoKey THEN escapeKey(child.key) ELSE Digit(index)

HasKey(child, key) == child.kind = "element" /\ child.key = key

\* The key of a mapped element: the key the callback gave it, if it is a new one, in front
\* of the name of the child.
NewKey(mapped, child, prefix, childKey) ==
  prefix \o (IF mapped.key = NoKey \/ HasKey(child, mapped.key) THEN <<>>
             ELSE EscapeSlashes(mapped.key) \o <<"/">>)
         \o childKey

\* What a callback does with the n-th child: "identity" returns it, "rekey" an element with
\* one of two keys in turn, "wrap" a list of such an element and the child.
Callback(callback, child, n) ==
  CASE callback.kind = "identity" -> child
    [] callback.kind = "rekey" -> Element(callback.keys[(n % 2) + 1])
    [] callback.kind = "wrap" -> List(<<Element(callback.keys[(n % 2) + 1]), child>>)

Identity == [kind |-> "identity"]

NextNamePrefix(name) == IF name = <<>> THEN <<".">> ELSE name \o <<":">>

Dropped(mapped) == mapped.kind = "null"

\* mapIntoArray: the elements appended to the array, and how often the callback was called.
RECURSIVE mapIntoArray(_, _, _, _, _)
mapIntoArray(children, prefix, name, callback, count) ==
  CASE children.kind = "lazy" -> mapIntoArray(children.of, prefix, name, callback, count)
    [] children.kind = "list" ->
         LET step(done, i) ==
               LET child == children.items[i]
                   more  == mapIntoArray(child, prefix,
                              NextNamePrefix(name) \o getElementKey(child, i - 1), callback, done.count) IN
               [array |-> done.array \o more.array, count |-> more.count] IN
         FoldLeft(step, [array |-> <<>>, count |-> count], [i \in DOMAIN children.items |-> i])
    [] OTHER ->
         LET mapped   == Callback(callback, children, count)
             childKey == IF name = <<>> THEN <<".">> \o getElementKey(children, 0) ELSE name IN
         [count |-> count + 1,
          array |->
            CASE mapped.kind = "list" ->
                   mapIntoArray(mapped, EscapeSlashes(childKey) \o <<"/">>, <<>>, Identity, 0).array
              [] Dropped(mapped) -> <<>>
              [] mapped.kind = "element" -> <<Element(NewKey(mapped, children, prefix, childKey))>>
              [] OTHER -> <<mapped>>]

\* mapChildrenImpl
mapChildren(children, callback) ==
  IF children = Null THEN [array |-> <<>>, count |-> 0]
  ELSE mapIntoArray(children, <<>>, <<>>, callback, 0)

----------------------------------------------------------------------------
(* Reference definitions.                                                   *)

\* The children a tree of children consists of, in order.
RECURSIVE Leaves(_)
Leaves(children) ==
  CASE children.kind = "list" ->
         FlattenSeq([i \in DOMAIN children.items |-> Leaves(children.items[i])])
    [] children.kind = "lazy" -> Leaves(children.of)
    [] OTHER -> <<children>>

IsNotNull(child) == child.kind # "null"

Kinds(children) == [i \in DOMAIN children |-> children[i].kind]

\* No two elements have the same key; several may have none.
DistinctKeys(array) ==
  \A i, j \in DOMAIN array :
    array[i].kind = "element" /\ HasKey(array[j], array[i].key) /\ array[i].key # NoKey => i = j

\* The callback returns no list in which two elements have the same key.
KeysListsWell(callback, children) ==
  callback.kind = "wrap" =>
    \A i \in DOMAIN Leaves(children) :
      DistinctKeys(Callback(callback, Leaves(children)[i], i - 1).items)

HasSlash(child) == child.kind = "element" /\ "/" \in ToSet(child.key)

\* The keys of the children can be told from the keys that the callback puts in front of them.
\* escapeKey leaves a slash as it is, so a child with the key "a/.1" gets the same key as an
\* unkeyed second child that the callback gives the key ".$a".
TellsApart(callback, children) ==
  \/ callback.kind = "identity"
  \/ callback.kind = "rekey" /\ callback.keys[1] = callback.keys[2]
  \/ \A i \in DOMAIN Leaves(children) : ~ HasSlash(Leaves(children)[i])

=============================================================================
