------------------------------- MODULE MultiDict -------------------------------
(***************************************************************************)
(* MultiDict: a dictionary with several values per key, kept twice: _list  *)
(* has all entries in order, _dict the last value of each key.             *)
(*                                                                         *)
(* A list is a function from positions to entries; a position is not used  *)
(* again when its entry is removed.  A dictionary keeps its keys in the    *)
(* order in which they were first set: popitem() takes the newest.         *)
(***************************************************************************)
EXTENDS Naturals, Sequences

CONSTANTS
  Keys, Values,
  MaxEntries,   \* bound: positions, of entries that were removed too
  MaxAtOnce     \* bound: values or entries in one call

ASSUME EntriesAssumption == MaxEntries \in Nat /\ MaxAtOnce \in Nat

VARIABLES
  list,   \* _list
  dict,   \* _dict: for each key its value, and the position of the key among the keys
  top     \* the last position that was used

dictVars == <<list, dict, top>>

Entry == [key : Keys, value : Values]

\* Sequences of one to MaxAtOnce elements.
Some(S) == UNION {[1..n -> S] : n \in 1..MaxAtOnce}

KeysOf(entries) == {entries[i].key : i \in DOMAIN entries}
Of(entries, k) == {i \in DOMAIN entries : entries[i].key = k}

FirstOf(entries, k) == CHOOSE i \in Of(entries, k) : \A j \in Of(entries, k) : i <= j
LastOf(entries, k) == CHOOSE i \in Of(entries, k) : \A j \in Of(entries, k) : j <= i

-----------------------------------------------------------------------------
\* The dictionary of a sequence of entries: {k: v for k, v in _items}.
DictOf(entries) ==
  [k \in KeysOf(entries) |->
     [value |-> entries[LastOf(entries, k)].value, since |-> FirstOf(entries, k)]]

\* MultiDict(entries), and FormData(entries).
DictInit ==
  \E entries \in Some(Entry) \cup {<<>>} :
    /\ Len(entries) <= MaxEntries
    /\ list = entries /\ dict = DictOf(entries) /\ top = Len(entries)

\* [(k, v) for k, v in self._list if k not in keys]
Without(keys) == [i \in {j \in DOMAIN list : list[j].key \notin keys} |-> list[i]]

\* entries + new
Followed(entries, new) ==
  [i \in DOMAIN entries \cup (top + 1)..(top + Len(new)) |->
     IF i > top THEN new[i - top] ELSE entries[i]]

Fits(n) == top + n <= MaxEntries

\* self._dict[key] = value
Stored(key, value) ==
  [k \in DOMAIN dict \cup {key} |->
     IF k # key THEN dict[k]
     ELSE [value |-> value, since |-> IF k \in DOMAIN dict THEN dict[k].since ELSE top + 1]]

\* pop(), poplist() and `del`, which raises KeyError when the key is not there; setlist() of
\* no values.
Pop(key) ==
  /\ list' = Without({key})
  /\ dict' = [k \in DOMAIN dict \ {key} |-> dict[k]]
  /\ UNCHANGED top

\* popitem(): the newest key with all its values.
PopItem ==
  \E key \in DOMAIN dict :
    /\ \A k \in DOMAIN dict : dict[k].since <= dict[key].since
    /\ Pop(key)

Clear == list' = <<>> /\ dict' = <<>> /\ UNCHANGED top

SetDefault(key, value) ==
  /\ key \notin DOMAIN dict /\ Fits(1)
  /\ dict' = Stored(key, value)
  /\ list' = Followed(list, <<[key |-> key, value |-> value]>>)
  /\ top' = top + 1

\* Mutant of SetList: the first of the values is stored.
SetListFirst(key, values) ==
  /\ Fits(Len(values))
  /\ list' = Followed(Without({key}), [i \in DOMAIN values |-> [key |-> key, value |-> values[i]]])
  /\ dict' = Stored(key, values[1])
  /\ top' = top + Len(values)

\* setlist(), and d[key] = value.
SetList(key, values) ==
  /\ Fits(Len(values))
  /\ list' = Followed(Without({key}), [i \in DOMAIN values |-> [key |-> key, value |-> values[i]]])
  /\ dict' = Stored(key, values[Len(values)])
  /\ top' = top + Len(values)

AppendValue(key, value) ==
  /\ Fits(1)
  /\ list' = Followed(list, <<[key |-> key, value |-> value]>>)
  /\ dict' = Stored(key, value)
  /\ top' = top + 1

\* update(): the entries of all keys of the other are replaced.
Update(entries) ==
  LET other == DictOf(entries) IN
  /\ Fits(Len(entries))
  /\ list' = Followed(Without(DOMAIN other), entries)
  /\ dict' = [k \in DOMAIN dict \cup DOMAIN other |->
                IF k \notin DOMAIN other THEN dict[k]
                ELSE [value |-> other[k].value,
                      since |-> IF k \in DOMAIN dict THEN dict[k].since ELSE top + other[k].since]]
  /\ top' = top + Len(entries)

Edit ==
  \/ \E key \in Keys : Pop(key)
  \/ PopItem \/ Clear
  \/ \E key \in Keys, value \in Values : SetDefault(key, value) \/ AppendValue(key, value)
  \/ \E key \in Keys, values \in Some(Values) : SetList(key, values)
  \/ \E entries \in Some(Entry) : Update(entries)

DictSpec == DictInit /\ [][Edit]_dictVars

-----------------------------------------------------------------------------
DictTypeOK ==
  /\ top \in Nat
  /\ DOMAIN list \subseteq 1..top
  /\ \A i \in DOMAIN list : list[i] \in Entry
  /\ DOMAIN dict \subseteq Keys
  /\ \A k \in DOMAIN dict : dict[k] \in [value : Values, since : 1..top]

\* Whatever calls come in whatever order, the dictionary has the keys of the list and for
\* each of them the last value: `d[key]` is the last of `d.getlist(key)`.
Agrees ==
  /\ DOMAIN dict = KeysOf(list)
  /\ \A k \in DOMAIN dict :
       \E i \in Of(list, k) :
         /\ list[i].value = dict[k].value
         /\ \A j \in Of(list, k) : j <= i

\* No two keys are the newest.
KeysOrdered ==
  \A k, l \in DOMAIN dict : dict[k].since = dict[l].since => k = l

\* The two halves of a MultiDict tell the same.
DictAgrees == DictTypeOK /\ Agrees /\ KeysOrdered

=============================================================================
