---------------------------- MODULE BootstrapHandler ----------------------------
(***************************************************************************)
(* BootstrapHandler (bootstrap_handler.h/.cc): the list of contacts a node *)
(* keeps in a SQLite file to join the network with after a restart.        *)
(*                                                                         *)
(* The file is what was committed.  An update is a transaction of several  *)
(* statements: a DELETE (Replace only) and one INSERT OR REPLACE for each  *)
(* batch of contacts, of as many rows as SQLite takes variables for.  A    *)
(* statement that throws, or a crash, rolls the transaction back.          *)
(*                                                                         *)
(* An address is its version and its number.  In the file it has 16 bytes: *)
(* an IPv4 address is saved as the IPv4-compatible IPv6 address, the one   *)
(* with the same number, and asio calls an IPv6 address IPv4-compatible    *)
(* when it is one of these but neither :: nor ::1.                         *)
(***************************************************************************)
EXTENDS Naturals, Sequences, SequencesExt

CONSTANTS
  Id,            \* of a contact; its public key goes with it
  Endpoint,      \* [v |-> 4 or 6, n |-> number]; the port is kept as it is
  V4Space,       \* number of IPv4 addresses (2^32)
  MaxListSize,   \* contacts kept by ReplaceBootstrapContacts (1500)
  InsertLimit,   \* variables in one statement, database_.InsertLimit()
  MaxContacts,   \* bound on the contacts given in one call
  MaxUpdates,    \* bound on the calls
  None

ASSUME BootstrapHandlerAssumption ==
  /\ MaxListSize \in Nat /\ MaxContacts \in Nat /\ MaxUpdates \in Nat
  /\ InsertLimit \in Nat /\ InsertLimit >= 3
  /\ V4Space \in Nat
  /\ \A e \in Endpoint : e.v \in {4, 6} /\ e.n \in Nat /\ (e.v = 4 => e.n < V4Space)

Contact == [id : Id, endpoint : Endpoint]

Contacts == UNION {[1..n -> Contact] : n \in 0..MaxContacts}

VARIABLES
  contacts,  \* rows of BOOTSTRAP_CONTACTS in the file, in rowid order
  txn,       \* the open transaction: the call, the contacts to insert, the loop's i, its rows
  updates    \* calls made

vars == <<contacts, txn, updates>>
-----------------------------------------------------------------------------
\* cereal's save and load of an Endpoint (utils.h).
save(endpoint) == endpoint.n

is_v4_compatible(bytes) == bytes < V4Space /\ bytes \notin {0, 1}

\* Mutant: what is read is taken for an IPv6 address.
LoadV6(bytes) == [v |-> 6, n |-> bytes]

load(bytes) == [v |-> IF is_v4_compatible(bytes) THEN 4 ELSE 6, n |-> bytes]

Row(contact) == [id |-> contact.id, endpoint |-> save(contact.endpoint)]

\* INSERT OR REPLACE: a row with the same NODEID goes, the new one comes last.
InsertRow(rows, contact) == Append(SelectSeq(rows, LAMBDA r : r.id # contact.id), Row(contact))

InsertRows(rows, batch) == FoldLeft(InsertRow, rows, batch)

insertlimit == InsertLimit \div 3

Begin(kind, given, insert, delete) ==
  /\ txn = None /\ updates < MaxUpdates
  /\ txn' = [kind |-> kind, given |-> given, insert |-> insert, i |-> 0, delete |-> delete,
             rows |-> contacts]
  /\ updates' = updates + 1
  /\ UNCHANGED contacts
-----------------------------------------------------------------------------
\* The constructor creates the table if the file has none.
Init ==
  /\ contacts = <<>>
  /\ txn = None
  /\ updates = 0

AddBootstrapContacts(given) == Begin("add", given, given, FALSE)

ReplaceBootstrapContacts(given) ==
  Begin("replace", given, SubSeq(given, 1, IF Len(given) > MaxListSize THEN MaxListSize
                                           ELSE Len(given)), TRUE)

RemoveBootstrapContacts ==
  /\ txn # None /\ txn.delete
  /\ txn' = [txn EXCEPT !.delete = FALSE, !.rows = <<>>]
  /\ UNCHANGED <<contacts, updates>>

\* Mutant: the next batch starts at the last row of this one.
InsertBatchOverlaps ==
  /\ txn # None /\ ~txn.delete /\ txn.i < Len(txn.insert)
  /\ LET last == IF txn.i + insertlimit < Len(txn.insert) THEN txn.i + insertlimit
                 ELSE Len(txn.insert)
     IN  txn' = [txn EXCEPT !.rows = InsertRows(@, SubSeq(txn.insert, txn.i + 1, last)),
                            !.i = last - 1]
  /\ UNCHANGED <<contacts, updates>>

\* One turn of the loop of InsertBootstrapContacts.
InsertBatch ==
  /\ txn # None /\ ~txn.delete /\ txn.i < Len(txn.insert)
  /\ LET last == IF txn.i + insertlimit < Len(txn.insert) THEN txn.i + insertlimit
                 ELSE Len(txn.insert)
     IN  txn' = [txn EXCEPT !.rows = InsertRows(@, SubSeq(txn.insert, txn.i + 1, last)),
                            !.i = @ + insertlimit]
  /\ UNCHANGED <<contacts, updates>>

Commit ==
  /\ txn # None /\ ~txn.delete /\ txn.i >= Len(txn.insert)
  /\ contacts' = txn.rows
  /\ txn' = None
  /\ UNCHANGED updates

\* Mutant: every statement is committed by itself.
RollbackKeepsRows ==
  /\ txn # None
  /\ contacts' = txn.rows
  /\ txn' = None
  /\ UNCHANGED updates

\* A statement throws, or the process ends and is started again.
Rollback ==
  /\ txn # None
  /\ txn' = None
  /\ UNCHANGED <<contacts, updates>>

ReadBootstrapContacts ==
  [k \in DOMAIN contacts |-> [id |-> contacts[k].id, endpoint |-> load(contacts[k].endpoint)]]

Next ==
  \/ \E given \in Contacts : AddBootstrapContacts(given) \/ ReplaceBootstrapContacts(given)
  \/ RemoveBootstrapContacts
  \/ InsertBatch
  \/ Commit
  \/ Rollback

Spec == Init /\ [][Next]_vars

\* A call, once begun, runs on.
FairSpec == Spec /\ WF_vars(RemoveBootstrapContacts \/ InsertBatch \/ Commit)
-----------------------------------------------------------------------------
Ids(list) == {list[k].id : k \in DOMAIN list}

\* The endpoint a list gives for an id: the last one wins.
EndpointOf(list, id) ==
  list[CHOOSE k \in DOMAIN list : /\ list[k].id = id
                                  /\ \A l \in DOMAIN list : list[l].id = id => l <= k].endpoint

\* An endpoint that is read back with the version it was saved with.
Plain(endpoint) == (endpoint.v = 4) = is_v4_compatible(endpoint.n)

\* Whatever the batches, and wherever a statement fails or the process stops, the
\* file goes from one list to the next by a whole call: after Add every contact
\* given is there, the last one given for an id, and no other was touched; after
\* Replace exactly the first MaxListSize contacts given are.
UpdatesAreWhole ==
  [][contacts' # contacts =>
       LET kept == IF txn.kind = "add" THEN Ids(contacts) ELSE {}
           new == IF txn.kind = "add" THEN txn.given
                  ELSE [k \in {n \in DOMAIN txn.given : n <= MaxListSize} |-> txn.given[k]]
       IN  /\ Ids(contacts') = kept \cup Ids(new)
           /\ \A id \in Ids(contacts') :
                EndpointOf(contacts', id) = IF id \in Ids(new) THEN save(EndpointOf(new, id))
                                            ELSE EndpointOf(contacts, id)]_vars

\* The contacts of a Replace are read back as they were given, in the same order,
\* when there is room for them, their ids differ, and no IPv4 address is 0.0.0.0
\* or 0.0.0.1 and no IPv6 address IPv4-compatible: what
\* routing_bootstrap_handler_refresh_test.cc expects of ten random contacts.
ReadBackInOrder ==
  [][Commit /\ txn.kind = "replace" /\ Len(txn.given) <= MaxListSize
       /\ (\A k, l \in DOMAIN txn.given : txn.given[k].id = txn.given[l].id => k = l)
       /\ (\A k \in DOMAIN txn.given : Plain(txn.given[k].endpoint))
       => ReadBootstrapContacts' = txn.given]_vars

\* The loop over the batches comes to its end: every call returns.
UpdatesEnd == (txn # None) ~> (txn = None)
=============================================================================
