------------------------------ MODULE TypeList ------------------------------
(***************************************************************************)
(* The type lists and type dictionaries of native/base/template.hpp, which *)
(* the compiler evaluates: a TypeList is a sequence of types, a TypeDict a *)
(* sequence of pairs with the keys it was given, and each template is the  *)
(* recursion its partial specialisations spell out, which takes the pack   *)
(* element by element.  IllFormed is the "result" of an instantiation the  *)
(* compiler refuses: no specialisation matches, two match and neither is   *)
(* more specialised, or a static_assert fails.  Elements are plain types   *)
(* (no list is an element of a list).  The state machine is a program that *)
(* goes on applying the templates to one list and one dictionary.  A       *)
(* definition whose comment says "Fault" is used by nothing (see README,   *)
(* "Faults").                                                              *)
(***************************************************************************)
EXTENDS Integers, SequencesExt

CONSTANTS Types, Keys, Values,
          IllFormed, NotFound,     \* model values
          MaxLength,               \* bound: length of the list
          MaxPuts                  \* bound: insertions in the dictionary

ASSUME TypeListAssumption == MaxLength \in Nat /\ MaxPuts \in Nat

VARIABLES list, dict,
          puts        \* the pairs inserted in dict, oldest first

typeVars == <<list, dict, puts>>

-----------------------------------------------------------------------------
(* The recursions *)

\* A template that hands on what is left of the pack until an element ends it: found
\* has what it makes of that element, end what it makes of a pack that has run out.
Search(l, found, end) ==
    LET from[i \in 1..(Len(l) + 1)] ==
            IF i > Len(l) THEN end ELSE IF i \in DOMAIN found THEN found[i] ELSE from[i + 1]
    IN from[1]

\* One that goes through the whole pack and collects what part has of an element, if
\* anything.
Collect(l, part) ==
    LET upTo[i \in 0..Len(l)] ==
            IF i = 0 THEN <<>>
            ELSE IF i \in DOMAIN part THEN Append(upTo[i - 1], part[i]) ELSE upTo[i - 1]
    IN upTo[Len(l)]

Places(l, t)       == {i \in DOMAIN l : l[i] = t}
Index(l, index)    == {i \in DOMAIN l : i - 1 = index}      \* counted down to zero there
KeyPlaces(d, k)    == {i \in DOMAIN d : d[i].first = k}
ValuePlaces(d, v)  == {i \in DOMAIN d : d[i].second = v}

\* TypeList<Pre..., x..., Post...>: Pre has collected what was passed.
Around(l, i, x) == SubSeq(l, 1, i - 1) \o x \o SubSeq(l, i + 1, Len(l))

-----------------------------------------------------------------------------
(* Looking up *)

ContainType(find, l) == Search(l, [i \in Places(l, find) |-> TRUE], FALSE)

\* (Fault: Index is not increased.)
Type2PosStuck(find, l) == Search(l, [i \in Places(l, find) |-> 0], IllFormed)
Type2Pos(find, l)      == Search(l, [i \in Places(l, find) |-> i - 1], IllFormed)

Pos2Type(pos, l) == Search(l, [i \in Index(l, pos) |-> l[i]], IllFormed)

-----------------------------------------------------------------------------
(* Changing a list *)

TypeListReplace(l, index, type) ==
    Search(l, [i \in Index(l, index) |-> Around(l, i, <<type>>)], IllFormed)

TypeListAppend(l, type) == Append(l, type)

\* Index 0 before a type that follows matches both the specialisation for 0 and
\* the one for TypeList<Next, Post...>, and neither is more specialised.
TypeListInsert(l, index, type) ==
    Search(l, [i \in Index(l, index) |-> IllFormed],
           IF index = Len(l) THEN Append(l, type) ELSE IllFormed)

\* (Fault: index 1 is taken for index 0.)
TypeListRemoveNext(l, index) ==
    Search(l, [i \in {j \in DOMAIN l : j >= index} |-> Around(l, i, <<>>)], IllFormed)

TypeListRemove(l, index) ==
    Search(l, [i \in Index(l, index) |-> Around(l, i, <<>>)], IllFormed)

TypeListRemoveType(l, type, first) ==
    IF first THEN Search(l, [i \in Places(l, type) |-> Around(l, i, <<>>)], l)
             ELSE Collect(l, [i \in DOMAIN l \ Places(l, type) |-> l[i]])

TypeListRemoveDuplicate(l) ==
    FoldLeft(LAMBDA pre, t : IF ContainType(t, pre) THEN pre ELSE Append(pre, t), <<>>, l)

\* The first two lists become one, until one is left.
TypeListCat(lists) == FoldLeft(LAMBDA cat, l : cat \o l, Head(lists), Tail(lists))

-----------------------------------------------------------------------------
(* Dictionaries *)

Pair(k, v) == [first |-> k, second |-> v]

\* (Fault: a key that is there already is added once more.)
TypeDictInsertEnd(d, k, v) == Append(d, Pair(k, v))

TypeDictInsert(d, k, v) ==
    Search(d, [i \in KeyPlaces(d, k) |-> Around(d, i, <<Pair(k, v)>>)], Append(d, Pair(k, v)))

\* What three templates do: they insert pair after pair in what they have processed.
InsertAll(processed, pairs) ==
    FoldLeft(LAMBDA d, p : TypeDictInsert(d, p.first, p.second), processed, pairs)

TypeDictFromPairTypes(pairs) == InsertAll(<<>>, pairs)

\* TypeDictFromKeyListAndValueList_; the alias without the _ starts it from TypeList<>
\* where every specialisation wants a TypeDict, and is never well formed.
FromLists(processed, keys, values) ==
    IF Len(keys) # Len(values) THEN IllFormed
    ELSE InsertAll(processed, [i \in DOMAIN keys |-> Pair(keys[i], values[i])])

\* TypeDictCat_ of two; the alias TypeDictCat names TypeListCat_ instead, which
\* takes no TypeDict.
DictCat(d1, d2) == InsertAll(d1, d2)

ValueForKey(find, d)      == Search(d, [i \in KeyPlaces(d, find) |-> d[i].second], IllFormed)
FirstKeyForValue(find, d) == Search(d, [i \in ValuePlaces(d, find) |-> d[i].first], NotFound)
AllKeyForValue(find, d)   == Collect(d, [i \in ValuePlaces(d, find) |-> d[i].first])
TypeDictAllKeys(d)        == Collect(d, [i \in DOMAIN d |-> d[i].first])
TypeDictAllValues(d)      == Collect(d, [i \in DOMAIN d |-> d[i].second])

-----------------------------------------------------------------------------
ListInit == list = <<>> /\ dict = <<>> /\ puts = <<>>

\* The compiler goes on only from what is well formed.
Becomes(l) ==
    /\ l # IllFormed
    /\ Len(l) <= MaxLength
    /\ list' = l
    /\ UNCHANGED <<dict, puts>>

Indices == 0..MaxLength

ChangeList ==
    \/ \E t \in Types : Becomes(TypeListAppend(list, t))
    \/ \E t \in Types, i \in Indices : Becomes(TypeListInsert(list, i, t))
    \/ \E t \in Types, i \in Indices : Becomes(TypeListReplace(list, i, t))
    \/ \E i \in Indices : Becomes(TypeListRemove(list, i))
    \/ \E t \in Types, first \in BOOLEAN : Becomes(TypeListRemoveType(list, t, first))
    \/ Becomes(TypeListRemoveDuplicate(list))
    \/ Becomes(TypeListCat(<<list, list>>))

Put ==
    /\ Len(puts) < MaxPuts
    /\ \E k \in Keys, v \in Values :
          puts' = Append(puts, Pair(k, v)) /\ dict' = TypeDictInsert(dict, k, v)
    /\ UNCHANGED list

ListNext == ChangeList \/ Put

ListSpec == ListInit /\ [][ListNext]_typeVars

-----------------------------------------------------------------------------
(* Properties *)

\* Type2Pos and Pos2Type are inverse to each other wherever the type is in the
\* list, which is what ContainType tells; the position is that of the first.
PositionsAgree ==
    /\ \A t \in Types :
          IF ContainType(t, list)
          THEN /\ Pos2Type(Type2Pos(t, list), list) = t
               /\ \A i \in 1..Type2Pos(t, list) : list[i] # t
          ELSE Type2Pos(t, list) = IllFormed
    /\ \A i \in Indices : Pos2Type(i, list) = IF i < Len(list) THEN list[i + 1] ELSE IllFormed

\* Replace and Remove are what they are on sequences at every index of the list,
\* and refused at every other.
EditsAtIndex ==
    \A i \in Indices :
        IF i < Len(list)
        THEN /\ TypeListRemove(list, i) = RemoveAt(list, i + 1)
             /\ \A t \in Types : TypeListReplace(list, i, t) = ReplaceAt(list, i + 1, t)
        ELSE /\ TypeListRemove(list, i) = IllFormed
             /\ \A t \in Types : TypeListReplace(list, i, t) = IllFormed

\* TypeListInsert is accepted at the end of the list and nowhere else.
InsertsOnlyAtEnd ==
    \A i \in Indices, t \in Types :
        TypeListInsert(list, i, t) = IF i = Len(list) THEN Append(list, t) ELSE IllFormed

\* part is what l has at the places in keep, in order.
IsKept(part, l, keep) ==
    \E at \in [DOMAIN part -> keep] :
        /\ \A i, j \in DOMAIN part : i < j => at[i] < at[j]
        /\ \A k \in keep : \E i \in DOMAIN part : at[i] = k
        /\ \A i \in DOMAIN part : part[i] = l[at[i]]

FirstPlaces(l) == {i \in DOMAIN l : \A j \in 1..(i - 1) : l[j] # l[i]}

\* Removing a type takes its first occurrence or every one; removing duplicates
\* keeps each type's first occurrence; neither changes the order of the rest.
RemovalsKeepOrder ==
    /\ \A t \in Types :
          /\ TypeListRemoveType(list, t, TRUE) = RemoveFirst(list, t)
          /\ IsKept(TypeListRemoveType(list, t, FALSE), list, {i \in DOMAIN list : list[i] # t})
    /\ IsKept(TypeListRemoveDuplicate(list), list, FirstPlaces(list))

\* So a change takes or replaces what it names and keeps the rest in order, however
\* the list came about, and where it cannot the program does not compile.
EditsKeepTheRest == EditsAtIndex /\ InsertsOnlyAtEnd /\ RemovalsKeepOrder

KeysOf(pairs)   == [i \in DOMAIN pairs |-> pairs[i].first]
ValuesOf(pairs) == [i \in DOMAIN pairs |-> pairs[i].second]

\* The value a key was last given.
LastValue(pairs, k) ==
    pairs[CHOOSE i \in DOMAIN pairs :
             pairs[i].first = k /\ \A j \in (i + 1)..Len(pairs) : pairs[j].first # k].second

\* However it was built, a dictionary is a map: a key is there once, in the place
\* it was first inserted, with the value it was last given; the reverse look-ups
\* and the key and value lists agree with that map, ...
HasWhatWasPut ==
    LET keys == TypeDictAllKeys(dict)
    IN /\ IsKept(keys, KeysOf(puts), FirstPlaces(KeysOf(puts)))
       /\ TypeDictAllValues(dict) = [i \in DOMAIN keys |-> LastValue(puts, keys[i])]
       /\ \A k \in Keys :
             ValueForKey(k, dict) = IF k \in ToSet(keys) THEN LastValue(puts, k) ELSE IllFormed
       /\ \A v \in Values :
             LET all == AllKeyForValue(v, dict)
             IN /\ IsKept(all, keys, {i \in DOMAIN keys : LastValue(puts, keys[i]) = v})
                /\ FirstKeyForValue(v, dict) = IF all = <<>> THEN NotFound ELSE Head(all)

\* ... and so is the dictionary made from the pairs at once, from a list of keys and
\* one of values, or from two halves.
MadeAtOnce ==
    /\ TypeDictFromPairTypes(puts) = dict
    /\ FromLists(<<>>, KeysOf(puts), ValuesOf(puts)) = dict
    /\ \A n \in 0..Len(puts) :
          DictCat(TypeDictFromPairTypes(SubSeq(puts, 1, n)),
                  TypeDictFromPairTypes(SubSeq(puts, n + 1, Len(puts)))) = dict

DictIsMap == HasWhatWasPut /\ MadeAtOnce
=============================================================================
