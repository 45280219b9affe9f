-------------------------- MODULE AccumulatorOps --------------------------
(***************************************************************************)
(* The class template Accumulator (accumulator.h) as a data type.  An      *)
(* accumulator is a record: order is name_order_ (a list of names, least   *)
(* recently used first) and storage is storage_ (name -> its parts, one    *)
(* per sender, and the time the entry was created).  The third component   *)
(* of a storage_ entry, the iterator into name_order_, is PositionOf.      *)
(***************************************************************************)
EXTENDS Integers, Sequences, FiniteSets

CONSTANT
  TimeToLive    \* time_to_live_; zero: entries do not expire

ASSUME TimeToLiveAssumption == TimeToLive \in Nat

EmptyAccumulator == [order |-> <<>>, storage |-> [n \in {} |-> {}]]

\* Mutant of Insert: the later value wins.
InsertOrAssign(map, key, value) ==
  [k \in DOMAIN map \union {key} |-> IF k = key THEN value ELSE map[k]]

\* std::map::insert: a key that is there keeps its value.
Insert(map, key, value) ==
  [k \in DOMAIN map \union {key} |-> IF k \in DOMAIN map THEN map[k] ELSE value]

HaveName(acc, name) == name \in DOMAIN acc.storage

GetAll(acc, name) == acc.storage[name].parts

CheckQuorumReached(acc, name, quorum) ==
  HaveName(acc, name) /\ Cardinality(DOMAIN GetAll(acc, name)) >= quorum

PositionOf(order, name) == CHOOSE i \in 1..Len(order) : order[i] = name

\* order without the element at position p.
Without(order, p) ==
  [i \in 1..(Len(order) - 1) |-> IF i < p THEN order[i] ELSE order[i + 1]]

\* Mutant of ReOrder: splice to the beginning of name_order_.
ReOrderToFront(acc, name) ==
  [order |-> <<name>> \o Without(acc.order, PositionOf(acc.order, name)),
   storage |-> acc.storage]

\* splice to the end of name_order_.
ReOrder(acc, name) ==
  [order |-> Append(Without(acc.order, PositionOf(acc.order, name)), name),
   storage |-> acc.storage]

\* CheckTimeExpired for an entry at the front of name_order_.
CheckTimeExpired(acc, name, now) ==
  TimeToLive # 0 /\ acc.storage[name].time + TimeToLive < now

\* RemoveOldestElement, n times.
RemoveOldest(acc, n) ==
  LET gone == {acc.order[i] : i \in 1..n}
  IN  [order |-> SubSeq(acc.order, n + 1, Len(acc.order)),
       storage |-> [m \in DOMAIN acc.storage \ gone |-> acc.storage[m]]]

\* How many elements "while (CheckTimeExpired()) RemoveOldestElement();"
\* removes: it stops at the first element that has not expired.
ExpiredAtFront(acc, now) ==
  CHOOSE n \in 0..Len(acc.order) :
    /\ \A i \in 1..n : CheckTimeExpired(acc, acc.order[i], now)
    /\ n < Len(acc.order) => ~CheckTimeExpired(acc, acc.order[n + 1], now)

AddNew(acc, name, value, sender, now) ==
  LET live == RemoveOldest(acc, ExpiredAtFront(acc, now))
  IN  [order |-> Append(live.order, name),
       storage |-> Insert(live.storage, name,
                          [parts |-> [s \in {sender} |-> value], time |-> now])]

\* insert into the parts of an entry.
AddPart(acc, name, value, sender) ==
  [order |-> acc.order,
   storage |-> [acc.storage EXCEPT ![name] =
                  [parts |-> Insert(@.parts, sender, value), time |-> @.time]]]

\* Add, but for its return value: the parts of name, if there are quorum.
Add(acc, name, value, sender, now) ==
  LET found == IF HaveName(acc, name) THEN acc
                                      ELSE AddNew(acc, name, value, sender, now)
  IN  ReOrder(AddPart(found, name, value, sender), name)

\* Mutant of Delete: the name stays in name_order_.
DeleteFromStorage(acc, name) ==
  [order |-> acc.order,
   storage |-> [m \in DOMAIN acc.storage \ {name} |-> acc.storage[m]]]

\* Mutant of Delete: the front is removed without the splice.
DeleteFront(acc, name) ==
  IF HaveName(acc, name) THEN RemoveOldest(acc, 1) ELSE acc

\* Delete splices the name to the front and removes the front.
Delete(acc, name) ==
  LET front == <<name>> \o Without(acc.order, PositionOf(acc.order, name))
  IN  IF HaveName(acc, name)
      THEN RemoveOldest([order |-> front, storage |-> acc.storage], 1)
      ELSE acc

=============================================================================
