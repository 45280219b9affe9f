--------------------------- MODULE RoutingTable ---------------------------
(***************************************************************************)
(* The routing table of a node (routing_table.h, routing_table.cc): the    *)
(* contacts the node is connected to, kept sorted by distance to our_id_.  *)
(*                                                                         *)
(* nodes_ is a std::vector that every public function leaves sorted by     *)
(* distance to our_id_ and free of duplicates, so it is determined by the  *)
(* set of its contacts; the model keeps that set, and Index gives the      *)
(* position of a contact in the vector.  A NodeInfo is its id: contacts    *)
(* are compared by id only (node_info.h), and of the public key only its   *)
(* validity matters.                                                       *)
(*                                                                         *)
(* The class is documented as threadsafe: several threads call it.  The    *)
(* critical section of a modifying function is two steps, so that the      *)
(* one read made outside the mutex (HaveNode in CheckNode) can fall inside *)
(* it.                                                                     *)
(***************************************************************************)
EXTENDS Integers, FiniteSets

CONSTANTS
  Address,                    \* the addresses a contact or a target may have
  our_id_,                    \* the address of this node
  NumBuckets,                 \* the number of bits of an address
  CloserToTarget(_, _, _),    \* lhs is closer to target than rhs
  CommonLeadingBits(_, _),    \* number of leading bits two addresses share
  GroupSize,                  \* types.h: 23
  OptimalSize,                \* RoutingTable::OptimalSize(): 64
  BucketSize,                 \* RoutingTable::BucketSize(): 1
  Parallelism,                \* RoutingTable::Parallelism(): 4
  Thread,                     \* the threads that call the table
  NoThread,                   \* the mutex is free
  NoNode                      \* boost::none, and the end() iterator

ASSUME SizeAssumption ==
  /\ GroupSize \in Nat \ {0}
  /\ OptimalSize \in Nat
  /\ BucketSize \in Nat \ {0}
  /\ Parallelism \in Nat \ {0}
  /\ NumBuckets \in Nat \ {0}
  /\ GroupSize < OptimalSize

ASSUME NameAssumption ==
  /\ our_id_ \in Address
  /\ IsFiniteSet(Address)
  /\ NoNode \notin Address
  /\ NoThread \notin Thread

\* Distance to a target orders the addresses strictly and totally.
ASSUME DistanceAssumption ==
  \A t \in Address :
    /\ \A a, b \in Address : CloserToTarget(a, b, t) \in BOOLEAN
    /\ \A a \in Address : ~CloserToTarget(a, a, t)
    /\ \A a, b \in Address :
         a # b => CloserToTarget(a, b, t) \/ CloserToTarget(b, a, t)
    /\ \A a, b, c \in Address :
         CloserToTarget(a, b, t) /\ CloserToTarget(b, c, t)
           => CloserToTarget(a, c, t)

\* A closer contact shares at least as many leading bits with us.
ASSUME BucketAssumption ==
  /\ \A a \in Address \ {our_id_} :
       CommonLeadingBits(our_id_, a) \in 0..(NumBuckets - 1)
  /\ \A a, b \in Address \ {our_id_} :
       CloserToTarget(a, b, our_id_)
         => CommonLeadingBits(our_id_, b) <= CommonLeadingBits(our_id_, a)

VARIABLES
  nodes_,     \* the contacts in the table
  mutex_,     \* the thread in a modifying critical section, or NoThread
  call,       \* per thread: its current or last call
  offered,    \* history: contacts given to AddNode since the last DropNode
  reported,   \* history: the contents of the table as the return values tell
  answers     \* history: per thread in CheckNode, the answers AddNode's rules
              \* gave for its argument at some moment of the call; both if
              \* the duplicate check missed a contact that was there all along

vars == <<nodes_, mutex_, call, offered, reported, answers>>

-----------------------------------------------------------------------------
(***************************************************************************)
(* The functions of the class on a table whose contacts are S.             *)
(***************************************************************************)

Closer(a, b) == CloserToTarget(a, b, our_id_)

\* 0-based position of address a among the contacts S.
Index(S, a) == Cardinality({b \in S : Closer(b, a)})

\* nodes_.at(i)
At(S, i) == CHOOSE a \in S : Index(S, a) = i

HaveNode(S, id) == id \in S

BucketIndex(id) == CommonLeadingBits(our_id_, id)

OurCloseGroup(S) == {a \in S : Index(S, a) < GroupSize}

\* Mutant of OverfullFrom: the walk does not stop at the close group.
OverfullAnywhere(S) ==
  {a \in S :
     Cardinality({b \in S : BucketIndex(b) = BucketIndex(a) /\ ~Closer(b, a)})
       > BucketSize}

\* The contacts find_if accepts: walking from the furthest contact towards
\* the close group, more than BucketSize contacts of the bucket were met.
\* (Contacts of one bucket are adjacent: closer contacts share more bits.)
OverfullFrom(S) ==
  {a \in S \ OurCloseGroup(S) :
     Cardinality({b \in S : BucketIndex(b) = BucketIndex(a) /\ ~Closer(b, a)})
       > BucketSize}

\* Mutant of FindCandidateForRemoval: the last contact of the vector.
FurthestForRemoval(S) ==
  IF OverfullFrom(S) = {} THEN NoNode ELSE At(S, Cardinality(S) - 1)

\* find_if stops at the furthest such contact; base() of the reverse
\* iterator is the contact after it in the vector.
FindCandidateForRemoval(S) ==
  IF OverfullFrom(S) = {}
  THEN NoNode
  ELSE LET found == CHOOSE a \in OverfullFrom(S) :
                      \A b \in OverfullFrom(S) \ {a} : Closer(b, a)
       IN  At(S, Index(S, found) + 1)

NewNodeIsBetterThanExisting(id, removal_candidate) ==
  /\ removal_candidate # NoNode
  /\ BucketIndex(id) > BucketIndex(removal_candidate)

Outcome(contacts, added, dropped) ==
  [contacts |-> contacts, added |-> added, dropped |-> dropped]

\* Mutant of AddNodeOutcome: a close contact is added and nothing erased.
AddWithoutSacrifice(S, id) ==
  LET removal_candidate == FindCandidateForRemoval(S)
  IN  IF HaveNode(S, id)
        THEN Outcome(S, FALSE, NoNode)
      ELSE IF Cardinality(S) < OptimalSize \/ Closer(id, At(S, GroupSize))
        THEN Outcome(S \union {id}, TRUE, NoNode)
      ELSE IF NewNodeIsBetterThanExisting(id, removal_candidate)
        THEN Outcome((S \ {removal_candidate}) \union {id}, TRUE, removal_candidate)
      ELSE Outcome(S, FALSE, NoNode)

\* Mutant of AddNodeOutcome: the erased contact is not returned.
AddAndDropSilently(S, id) ==
  LET pushed == S \union {id}
      sacrifice == FindCandidateForRemoval(pushed)
  IN  IF HaveNode(S, id)
        THEN Outcome(S, FALSE, NoNode)
      ELSE IF Cardinality(S) < OptimalSize
        THEN Outcome(pushed, TRUE, NoNode)
      ELSE IF Closer(id, At(S, GroupSize))
        THEN Outcome(pushed \ {sacrifice}, TRUE, NoNode)
      ELSE Outcome(S, FALSE, NoNode)

\* The part of AddNode under the mutex: the new contents and what is returned.
AddNodeOutcome(S, id) ==
  LET pushed == S \union {id}
      sacrifice == FindCandidateForRemoval(pushed)
      removal_candidate == FindCandidateForRemoval(S)
  IN  IF HaveNode(S, id)
        THEN Outcome(S, FALSE, NoNode)
      ELSE IF Cardinality(S) < OptimalSize
        THEN Outcome(pushed, TRUE, NoNode)
      ELSE IF Closer(id, At(S, GroupSize))
        THEN Outcome(pushed \ {sacrifice}, TRUE, sacrifice)
      ELSE IF NewNodeIsBetterThanExisting(id, removal_candidate)
        THEN Outcome((S \ {removal_candidate}) \union {id}, TRUE, removal_candidate)
      ELSE Outcome(S, FALSE, NoNode)

\* The part of CheckNode under the mutex.
CheckNodeDecision(S, id) ==
  \/ Cardinality(S) < OptimalSize
  \/ Closer(id, At(S, GroupSize))
  \/ NewNodeIsBetterThanExisting(id, FindCandidateForRemoval(S))

\* The n contacts of S closest to target.
ClosestTo(S, target, n) ==
  {a \in S : Cardinality({b \in S : CloserToTarget(b, a, target)}) < n}

\* Mutant of TargetNodes: the contacts are those closest to ourself.
TargetNodesNearUs(S, target) ==
  IF ClosestTo(S, target, 1) \subseteq OurCloseGroup(S)
  THEN OurCloseGroup(S)
  ELSE ClosestTo(S, our_id_, Parallelism)

TargetNodes(S, target) ==
  IF ClosestTo(S, target, 1) \subseteq OurCloseGroup(S)
  THEN OurCloseGroup(S)
  ELSE ClosestTo(S, target, Parallelism)

-----------------------------------------------------------------------------
(***************************************************************************)
(* The threads.                                                            *)
(***************************************************************************)

Idle == [op |-> "Idle", id |-> NoNode, ok |-> FALSE]
Calling(op, id) == [op |-> op, id |-> id, ok |-> FALSE]
Checked(id, ok) == [op |-> "Checked", id |-> id, ok |-> ok]

Init ==
  /\ nodes_ = {}
  /\ mutex_ = NoThread
  /\ call = [t \in Thread |-> Idle]
  /\ offered = {}
  /\ reported = {}
  /\ answers = [t \in Thread |-> {}]

Free(t) == call[t].op \in {"Idle", "Checked"}

\* The answer the rules of AddNode give for a contact with a valid key.
WouldAdd(S, id) == id # our_id_ /\ AddNodeOutcome(S, id).added

\* Every CheckNode still running sees one more moment of the table.
ObserveAnswers(S) ==
  answers' = [t \in Thread |->
                IF call[t].op = "CheckNode"
                THEN answers[t] \union {WouldAdd(S, call[t].id)}
                ELSE answers[t]]

\* AddNode up to and including the lock.  A contact that is ourself or whose
\* key is not valid is refused before the lock.
AddNodeEnter(t, id, valid_key) ==
  /\ Free(t)
  /\ IF id = our_id_ \/ ~valid_key
     THEN /\ call' = [call EXCEPT ![t] = Idle]
          /\ UNCHANGED mutex_
     ELSE /\ mutex_ = NoThread
          /\ mutex_' = t
          /\ call' = [call EXCEPT ![t] = Calling("AddNode", id)]
  /\ answers' = [answers EXCEPT ![t] = {}]
  /\ UNCHANGED <<nodes_, offered, reported>>

\* The rest of AddNode, from the duplicate check to the return.
AddNode(t) ==
  /\ call[t].op = "AddNode"
  /\ LET id == call[t].id
         result == AddNodeOutcome(nodes_, id)
     IN  /\ nodes_' = result.contacts
         /\ offered' = offered \union {id}
         /\ reported' = (IF result.added THEN reported \union {id} ELSE reported)
                          \ {result.dropped}
         /\ ObserveAnswers(result.contacts)
  /\ mutex_' = NoThread
  /\ call' = [call EXCEPT ![t] = Idle]

DropNodeEnter(t, id) ==
  /\ Free(t)
  /\ mutex_ = NoThread
  /\ mutex_' = t
  /\ call' = [call EXCEPT ![t] = Calling("DropNode", id)]
  /\ answers' = [answers EXCEPT ![t] = {}]
  /\ UNCHANGED <<nodes_, offered, reported>>

DropNode(t) ==
  /\ call[t].op = "DropNode"
  /\ LET id == call[t].id
     IN  /\ nodes_' = nodes_ \ {id}
         /\ offered' = nodes_ \ {id}
         /\ reported' = reported \ {id}
         /\ ObserveAnswers(nodes_ \ {id})
  /\ mutex_' = NoThread
  /\ call' = [call EXCEPT ![t] = Idle]

\* The contents the vector has before, and will have after, the critical
\* section that a thread may be in.
ContentsInFlux ==
  {nodes_} \union
  {AddNodeOutcome(nodes_, call[t].id).contacts : t \in {u \in Thread : call[u].op = "AddNode"}}
  \union {nodes_ \ {call[t].id} : t \in {u \in Thread : call[u].op = "DropNode"}}

\* What HaveNode may return when it is called without the mutex.  While the
\* elements of the vector are moved (push_back and sort, or erase) the scan
\* can also miss a contact that is there before and after.
UnlockedHaveNode(id) ==
  {HaveNode(S, id) : S \in ContentsInFlux} \union
  (IF ContentsInFlux # {nodes_} THEN {FALSE} ELSE {})

\* Mutant of CheckNodeEnter: the duplicate check is left out.
CheckNodeEnterAnyway(t, id) ==
  /\ Free(t)
  /\ call' = [call EXCEPT ![t] = IF id = our_id_ THEN Checked(id, FALSE)
                                                 ELSE Calling("CheckNode", id)]
  /\ answers' = [answers EXCEPT ![t] = {WouldAdd(S, id) : S \in ContentsInFlux}]
  /\ UNCHANGED <<nodes_, mutex_, offered, reported>>

\* CheckNode up to the duplicate check, which is made before the lock.
CheckNodeEnter(t, id) ==
  /\ Free(t)
  /\ \E duplicate \in (IF id = our_id_ THEN {TRUE} ELSE UnlockedHaveNode(id)) :
       /\ call' = [call EXCEPT ![t] = IF duplicate THEN Checked(id, FALSE)
                                                   ELSE Calling("CheckNode", id)]
       /\ answers' = [answers EXCEPT ![t] =
            IF ~duplicate /\ \A S \in ContentsInFlux : HaveNode(S, id)
            THEN BOOLEAN
            ELSE {WouldAdd(S, id) : S \in ContentsInFlux}]
  /\ UNCHANGED <<nodes_, mutex_, offered, reported>>

\* The rest of CheckNode: it only reads, under the mutex.
CheckNode(t) ==
  /\ call[t].op = "CheckNode"
  /\ mutex_ = NoThread
  /\ call' = [call EXCEPT ![t] =
                Checked(call[t].id, CheckNodeDecision(nodes_, call[t].id))]
  /\ UNCHANGED <<nodes_, mutex_, offered, reported, answers>>

Next ==
  \E t \in Thread :
    \/ \E id \in Address, valid_key \in BOOLEAN : AddNodeEnter(t, id, valid_key)
    \/ AddNode(t)
    \/ \E id \in Address : DropNodeEnter(t, id)
    \/ DropNode(t)
    \/ \E id \in Address : CheckNodeEnter(t, id)
    \/ CheckNode(t)

Spec == Init /\ [][Next]_vars

-----------------------------------------------------------------------------
(***************************************************************************)
(* Properties.                                                             *)
(***************************************************************************)

CallType ==
  [op : {"Idle", "AddNode", "DropNode", "CheckNode", "Checked"},
   id : Address \union {NoNode},
   ok : BOOLEAN]

\* The variables have their types, the table never holds this node itself,
\* and the mutex is held by exactly the thread in a critical section.
TypeOK ==
  /\ nodes_ \subseteq Address \ {our_id_}
  /\ mutex_ \in Thread \union {NoThread}
  /\ call \in [Thread -> CallType]
  /\ offered \subseteq Address \ {our_id_}
  /\ reported \subseteq Address \ {our_id_}
  /\ answers \in [Thread -> SUBSET BOOLEAN]
  /\ \A t \in Thread :
       /\ call[t].op \in {"AddNode", "DropNode"} <=> mutex_ = t
       /\ call[t].op # "Idle" => call[t].id \in Address
       /\ call[t].op \in {"AddNode", "CheckNode"} => call[t].id # our_id_

\* Whatever is added, refused and sacrificed in between, the table still
\* holds the GroupSize closest of all the contacts AddNode was given since a
\* contact was last dropped from outside.
CloseGroupRetained == OurCloseGroup(offered) \subseteq nodes_

\* AddNode never leaves a bucket without contacts that had one: it gives up
\* a contact only for another one of the same bucket that stays.
AddNodeKeepsBuckets ==
  [][\A t \in Thread : call[t].op = "AddNode" =>
       \A a \in nodes_ : \E b \in nodes_' : BucketIndex(b) = BucketIndex(a)]_nodes_

\* The table grows past OptimalSize only while no bucket has more than
\* BucketSize contacts outside the close group ("this will make RT grow but only
\* after several tens of millions of nodes"): whenever one has, a contact was
\* given up.
SizeBounded ==
  Cardinality(nodes_) > OptimalSize =>
    LET outside == nodes_ \ OurCloseGroup(nodes_)
    IN  \A a \in outside :
          Cardinality({b \in outside : BucketIndex(b) = BucketIndex(a)}) <= BucketSize

\* A caller that follows the return values of AddNode and its own calls of
\* DropNode knows what the table holds: no contact is dropped silently.
ReturnValuesTellContents == reported = nodes_

\* A message for any target is handed to the contact closest to it, and if
\* that is not one of our close group to Parallelism contacts at most.
TargetNodesReachClosest ==
  \A target \in Address :
    LET targets == TargetNodes(nodes_, target)
    IN  /\ \A a \in nodes_ :
             (\A b \in nodes_ \ {a} : CloserToTarget(a, b, target)) => a \in targets
        /\ targets # OurCloseGroup(nodes_) =>
             Cardinality(targets) = IF Cardinality(nodes_) < Parallelism
                                    THEN Cardinality(nodes_) ELSE Parallelism

\* The answer of CheckNode is the one AddNode would have given at some moment
\* between the call and the return (a modification under way may be ordered
\* before or after it), although its duplicate check is made without the
\* mutex and may be out of date when the rest is decided.  The one exception is a
\* scan that ran while the vector was sorted and missed a contact in it.
CheckNodeLinearizable ==
  \A t \in Thread : call[t].op = "Checked" => call[t].ok \in answers[t]

=============================================================================
