---------------------------- MODULE Accumulator ----------------------------
(***************************************************************************)
(* One accumulator under calls of Add and Delete while time passes.        *)
(***************************************************************************)
EXTENDS AccumulatorOps

CONSTANTS
  Name,        \* the names parts are accumulated for
  NoName,      \* not a name
  Sender,      \* the senders of parts
  Value,       \* the parts
  MaxNow       \* bound on the clock

ASSUME NameAssumption == MaxNow \in Nat /\ NoName \notin Name

VARIABLES
  acc,        \* the accumulator
  now,        \* steady_clock::now()
  last,       \* history: the last call and its name
  touched     \* history: per entry, when Add was last called for it

vars == <<acc, now, last, touched>>

Call(op, name) == [op |-> op, name |-> name]

Init ==
  /\ acc = EmptyAccumulator
  /\ now = 0
  /\ last = Call("None", NoName)
  /\ touched = [n \in {} |-> 0]

CallAdd(name, value, sender) ==
  /\ acc' = Add(acc, name, value, sender, now)
  /\ last' = Call(IF HaveName(acc, name) THEN "Add" ELSE "AddNew", name)
  /\ touched' = [n \in DOMAIN acc'.storage |-> IF n = name THEN now ELSE touched[n]]
  /\ UNCHANGED now

CallDelete(name) ==
  /\ acc' = Delete(acc, name)
  /\ last' = Call("Delete", name)
  /\ touched' = [n \in DOMAIN acc'.storage |-> touched[n]]
  /\ UNCHANGED now

\* Time passes between calls.
Tick ==
  /\ now < MaxNow
  /\ now' = now + 1
  /\ last' = Call("None", NoName)
  /\ UNCHANGED <<acc, touched>>

Next ==
  \/ \E name \in Name, value \in Value, sender \in Sender : CallAdd(name, value, sender)
  \/ \E name \in Name : CallDelete(name)
  \/ Tick

Spec == Init /\ [][Next]_vars

-----------------------------------------------------------------------------

\* The map of parts of an entry, and the entry.
PartsType(parts) ==
  /\ DOMAIN parts \subseteq Sender /\ DOMAIN parts # {}
  /\ parts \in [DOMAIN parts -> Value]

\* The variables have their types; an entry holds a part from its creation
\* on, and was not created later than it was last added to.
TypeOK ==
  /\ DOMAIN acc = {"order", "storage"}
  /\ acc.order \in Seq(Name)
  /\ DOMAIN acc.storage \subseteq Name
  /\ \A n \in DOMAIN acc.storage :
       /\ DOMAIN acc.storage[n] = {"parts", "time"}
       /\ PartsType(acc.storage[n].parts)
       /\ acc.storage[n].time \in 0..touched[n]
  /\ now \in Nat
  /\ last \in [op : {"None", "Add", "AddNew", "Delete"}, name : Name \union {NoName}]
  /\ touched \in [DOMAIN acc.storage -> 0..now]

\* name_order_ lists exactly the names of storage_, each of them once, so
\* that none of the lookups the code asserts (RemoveOldestElement,
\* CheckTimeExpired, ReOrder) can fail.
OrderMatchesStorage ==
  /\ \A n \in DOMAIN acc.storage : \E i \in 1..Len(acc.order) : acc.order[i] = n
  /\ \A i \in 1..Len(acc.order) : acc.order[i] \in DOMAIN acc.storage
  /\ \A i, j \in 1..Len(acc.order) : acc.order[i] = acc.order[j] => i = j

\* An entry that is being accumulated is given up only when it is deleted or
\* its time to live has passed: other names never push it out.
NothingLostEarly ==
  [][\A n \in DOMAIN acc.storage \ DOMAIN acc'.storage :
       \/ last' = Call("Delete", n)
       \/ CheckTimeExpired(acc, n, now)]_vars

\* A part that was accepted is not replaced by a later one of its sender and
\* not lost while its entry lives.
PartsOnlyAccumulate ==
  [][\A n \in DOMAIN acc.storage \intersect DOMAIN acc'.storage :
       \A s \in DOMAIN GetAll(acc, n) :
         s \in DOMAIN GetAll(acc', n) /\ GetAll(acc', n)[s] = GetAll(acc, n)[s]]_vars

\* Whenever an entry is created, every entry that nobody added to for the
\* time to live is gone, although only the front of name_order_ is examined
\* and adding to an entry does not renew its time.
IdleEntriesExpire ==
  last.op = "AddNew" /\ TimeToLive # 0 =>
    \A n \in DOMAIN acc.storage : touched[n] + TimeToLive >= now

=============================================================================
