------------------------------- MODULE Commands -------------------------------
(***************************************************************************)
(* The interactive node of tools/: routing_node.cc starts a node with a    *)
(* key of the file key_helper.cc writes and runs Commands (commands.cc),   *)
(* whose answers are collected by a SharedResponse (shared_response.cc).   *)
(*                                                                         *)
(* The main thread reads a command, processes it and waits for its result; *)
(* the threads of the node's asio service run the callbacks.  SendMessages *)
(* and Join give them references to their own local variables (a frame),   *)
(* and wait on a condition variable without a predicate.                   *)
(*                                                                         *)
(* The node (GenericNode) is external: it calls the callable of a message  *)
(* once for every respondent expected, with an answer or, when its timer   *)
(* runs out, with an empty string; it reports a network status when it     *)
(* likes.  Sizes and rates are small numbers: a default of 2 for the       *)
(* mebibyte of both, 3 for the size the performance test leaves.           *)
(***************************************************************************)
EXTENDS Integers, FiniteSets

CONSTANTS
  KeyCount,      \* numbers of keys key_helper may be told to create
  Count,         \* numbers of messages a send may be given; -1 sends for ever
  Respondents,   \* the nodes a group message may be answered by
  GroupSize,     \* answers expected for a group message: 4
  ManyMessages,  \* more answers than this lengthen the response timeout: 10
  MaxCommands,   \* bound on the commands entered
  Slot,          \* bound on the messages whose callable may still be called
  None

ASSUME CommandsAssumption ==
  /\ KeyCount \subseteq Nat \ {0}
  /\ Count \subseteq Nat \cup {-1}
  /\ GroupSize \in Nat \ {0}
  /\ Slot \subseteq Nat

VARIABLES
  key_file,        \* the number of keys in the file, None if there is none
  all_keys_,       \* the number of keys the node loaded
  identity_index_,
  joined,
  data_size_, data_rate_,
  pc,              \* where the main thread is
  send,            \* the SendMessages, or the round of the performance test, on the stack
  operation_count,
  notified,        \* the condition variable in use has been notified while waited on
  callables,       \* callables[i]: a message whose callable may still be called, or None
  network_status,  \* Join's functor: "unset", "live" while Join is on the stack, "dead"
  default_response_timeout,  \* "base", or "long" once SendMessages has lengthened it
  saved,           \* its value before, a local variable of SendMessages
  posted,          \* MarkResultArrived is posted
  result_arrived_, finish_,
  entered,         \* commands entered
  history          \* what has happened: a set of the names below

mainVars == <<key_file, all_keys_, identity_index_, data_size_, data_rate_>>
sendVars == <<send, operation_count, default_response_timeout, saved>>
resultVars == <<posted, result_arrived_, finish_, entered>>
vars == <<mainVars, joined, pc, sendVars, notified, callables, network_status, resultVars, history>>

\* "tuned": the data size or rate was changed, by a command or a performance test
\* "woke": a wait ended that nobody had notified, or Join's wait ran out
\* "repeated": a node answered twice in time, and the answer was not counted
\* "refused": a destination index was out of range
\* "dangling": a callback used a frame that was gone
Happened(what) == what \in history

Half == all_keys_ \div 2

NoSend == [count |-> 0, expect |-> 0, sent |-> 0, rounds |-> {}]

Init ==
  /\ key_file = None
  /\ all_keys_ = 0
  /\ identity_index_ = 0
  /\ joined = FALSE
  /\ data_size_ = 2
  /\ data_rate_ = 2
  /\ pc = "shell"
  /\ send = NoSend
  /\ operation_count = 0
  /\ notified = FALSE
  /\ callables = [i \in Slot |-> None]
  /\ network_status = "unset"
  /\ default_response_timeout = "base"
  /\ saved = "base"
  /\ posted = FALSE
  /\ result_arrived_ = FALSE
  /\ finish_ = FALSE
  /\ entered = 0
  /\ history = {}
-----------------------------------------------------------------------------
(* The shell. *)

\* key_helper: create writes the keys (unless they cannot be made or written),
\* load and print change nothing, delete removes the file.
KeyHelper ==
  /\ pc = "shell"
  /\ key_file' \in KeyCount \cup {key_file, None}
  /\ UNCHANGED <<all_keys_, identity_index_, data_size_, data_rate_, joined, pc, sendVars,
                 notified, callables, network_status, resultVars, history>>

\* What main checks: the first half of the keys is for vaults, the second for
\* clients, and a bootstrap node has one of the first two.
MayStart(keys, index, client, bootstrap) ==
  /\ index < keys
  /\ ~(client /\ bootstrap)
  /\ IF client THEN index >= keys \div 2 ELSE index < keys \div 2
  /\ bootstrap => index < 2

\* main and the beginning of Run, which joins at once unless the identity is one
\* of the first two.
Main(index, client, bootstrap) ==
  /\ pc = "shell"
  /\ key_file # None
  /\ MayStart(key_file, index, client, bootstrap)
  /\ all_keys_' = key_file
  /\ identity_index_' = index
  /\ IF index >= 2 THEN pc' = "join" /\ network_status' = "live"
                   ELSE pc' = "prompt" /\ UNCHANGED network_status
  /\ UNCHANGED <<key_file, data_size_, data_rate_, joined, sendVars, notified, callables,
                 resultVars, history>>
-----------------------------------------------------------------------------
(* Commands.  Run holds wait_mutex_ from here until it waits for the result. *)

Enter == pc = "prompt" /\ entered < MaxCommands /\ entered' = entered + 1

\* The end of ProcessCommand.
Processed ==
  /\ pc' = "result"
  /\ posted' = TRUE

\* help, prt, peer, nattype, an empty or an unknown command; exit.
SimpleCommand(exit) ==
  /\ Enter
  /\ finish_' = exit
  /\ Processed
  /\ UNCHANGED <<mainVars, joined, sendVars, notified, callables, network_status,
                 result_arrived_, history>>

\* datasize and datarate
Tune(size, rate) ==
  /\ Enter
  /\ data_size_' = size
  /\ data_rate_' = rate
  /\ history' = history \cup {"tuned"}
  /\ Processed
  /\ UNCHANGED <<key_file, all_keys_, identity_index_, joined, sendVars, notified, callables,
                 network_status, result_arrived_, finish_>>

\* ZeroStateJoin names the other of the first two keys, so a node with index 0
\* reads all_keys_[1].
ZeroStateJoin ==
  /\ Enter
  /\ IF joined \/ identity_index_ > 1
     THEN Processed /\ UNCHANGED joined
     ELSE IF identity_index_ = 0 /\ all_keys_ < 2
     THEN pc' = "crashed" /\ UNCHANGED <<joined, posted>>
     ELSE Processed /\ joined' \in BOOLEAN
  /\ UNCHANGED <<mainVars, sendVars, notified, callables, network_status, result_arrived_,
                 finish_, history>>

Join ==
  /\ Enter
  /\ IF joined THEN Processed /\ UNCHANGED network_status
               ELSE pc' = "join" /\ network_status' = "live" /\ UNCHANGED posted
  /\ UNCHANGED <<mainVars, joined, sendVars, notified, callables, result_arrived_, finish_,
                 history>>

\* Mutant: an index one too high is accepted.
OutOfRangeOffByOne(index) == index > all_keys_

OutOfRange(index) == index >= all_keys_

\* CalculateTimeToSleep divides the rate by the size, and a second by the quotient.
DividesByZero == data_size_ = 0 \/ data_rate_ < data_size_

\* MakeMessage, if it does not refuse the index: a random vault and the closest
\* vaults to a group come from the first half of the keys, which may be empty, and
\* a direct message goes to the key at the index.
IndexesOutside(index, group) ==
  /\ ~OutOfRange(index)
  /\ IF index < 0 \/ group THEN Half = 0 ELSE index >= all_keys_

\* rrt, senddirect, sendgroup, sendgroupmultiple, sendmultiple: SendMessages up to
\* its loop, and the check of the index in the first MakeMessage.  The index is -1
\* for a random vault, or any number.
SendMessages(index, group, count) ==
  LET expect == IF group THEN GroupSize ELSE 1 IN
  /\ Enter
  /\ default_response_timeout' = IF count * expect > ManyMessages THEN "long"
                                                                ELSE default_response_timeout
  /\ IF DividesByZero \/ (count # 0 /\ IndexesOutside(index, group))
     THEN pc' = "crashed" /\ UNCHANGED <<send, saved, posted, history>>
     ELSE IF count # 0 /\ OutOfRange(index)
     THEN Processed /\ history' = history \cup {"refused"} /\ UNCHANGED <<send, saved>>
     ELSE /\ pc' = "sending"
          /\ send' = [count |-> count, expect |-> expect, sent |-> 0, rounds |-> {}]
          /\ saved' = default_response_timeout
          /\ UNCHANGED <<posted, history>>
  /\ operation_count' = 0
  /\ UNCHANGED <<mainVars, joined, notified, callables, network_status, result_arrived_, finish_>>

\* PerformanceTest: for every size and contact a message with a wait and local
\* variables of its own, first direct, then to groups; here one of each, or none if
\* the node has no contact.  The data size ends beyond the default rate.
PerformanceTest(contacts) ==
  /\ Enter
  /\ data_size_' = 3
  /\ history' = history \cup {"tuned"}
  /\ IF contacts
     THEN /\ pc' = "sending"
          /\ send' = [count |-> 1, expect |-> 1, sent |-> 0, rounds |-> {GroupSize}]
          /\ saved' = default_response_timeout
          /\ UNCHANGED posted
     ELSE Processed /\ UNCHANGED <<send, saved>>
  /\ operation_count' = 0
  /\ UNCHANGED <<key_file, all_keys_, identity_index_, data_rate_, joined,
                 default_response_timeout, notified, callables, network_status,
                 result_arrived_, finish_>>
-----------------------------------------------------------------------------
(* The loop and the wait of SendMessages and of a performance round. *)

Total == send.count * send.expect

FreeSlots == {i \in Slot : callables[i] = None}

\* SendAMessage: a SharedResponse and a callable that holds it and references to
\* the local variables of the caller.
SendAMessage ==
  /\ pc = "sending"
  /\ send.sent < send.count \/ send.count = -1
  /\ \E i \in FreeSlots :
       /\ \A j \in FreeSlots : i <= j
       /\ callables' = [callables EXCEPT ![i] =
                          [live |-> TRUE, left |-> send.expect, counting |-> 0,
                           responded_nodes_ |-> {}]]
  /\ send' = [send EXCEPT !.sent = IF send.count = -1 THEN @ ELSE @ + 1]
  /\ UNCHANGED <<mainVars, joined, pc, operation_count, default_response_timeout, saved,
                 notified, network_status, resultVars, history>>

\* Mutant: the timeout stays as SendMessages has set it.
RestoreTimeoutForgets == UNCHANGED default_response_timeout

RestoreTimeout == default_response_timeout' = saved

\* SendMessages, or a round of the performance test, returns: the timeout is put
\* back, and the local variables are gone.
FrameEnds ==
  /\ IF send.rounds = {}
     THEN Processed /\ send' = NoSend
     ELSE \E e \in send.rounds :
            /\ pc' = "sending"
            /\ send' = [send EXCEPT !.expect = e, !.sent = 0, !.rounds = @ \ {e}]
            /\ UNCHANGED posted
  /\ operation_count' = 0
  /\ RestoreTimeout
  /\ saved' = saved
  /\ callables' = [i \in Slot |-> IF callables[i] = None THEN None
                                  ELSE [callables[i] EXCEPT !.live = FALSE]]

\* Mutant: SendMessages waits in any case.
AllCountedNever == FALSE

AllCounted == operation_count = Total

\* After the loop, holding the mutex: return, or start to wait.
CheckCount ==
  /\ pc = "sending"
  /\ send.sent = send.count
  /\ IF AllCounted
     THEN FrameEnds
     ELSE pc' = "waiting" /\ UNCHANGED <<sendVars, callables, posted>>
  /\ notified' = FALSE
  /\ UNCHANGED <<mainVars, joined, network_status, result_arrived_, finish_, entered, history>>

\* cond_var.wait returns: somebody notified it, or nobody did.
WaitEnds ==
  /\ pc = "waiting"
  /\ history' = IF notified THEN history ELSE history \cup {"woke"}
  /\ FrameEnds
  /\ notified' = FALSE
  /\ UNCHANGED <<mainVars, joined, network_status, result_arrived_, finish_, entered>>
-----------------------------------------------------------------------------
(* The callable, on a thread of the asio service. *)

\* callables with c in place i; the callable is destroyed after its last call.
With(i, c) == [callables EXCEPT ![i] = IF c.left = 0 /\ c.counting = 0 THEN None ELSE c]

\* It is called with an empty string, or with the answer of a node.  CollectResponse
\* records the node if the answer is in time, and refuses an answer in time of a
\* node it has recorded; a late answer goes on, like an empty one, unrecorded.
Called(i) ==
  /\ callables[i] # None
  /\ callables[i].left > 0
  /\ LET c == [callables[i] EXCEPT !.left = @ - 1] IN
     \/ /\ callables' = With(i, [c EXCEPT !.counting = @ + 1])
        /\ UNCHANGED history
     \/ \E node \in Respondents :
          IF node \in c.responded_nodes_
          THEN /\ callables' = With(i, c)
               /\ history' = history \cup {"repeated"}
          ELSE /\ callables' = With(i, [c EXCEPT !.counting = @ + 1,
                                                 !.responded_nodes_ = @ \cup {node}])
               /\ UNCHANGED history
  /\ UNCHANGED <<mainVars, joined, pc, sendVars, notified, network_status, resultVars>>

\* Mutant: the notification is for the answers of one message.
AllAnsweredOfOne(answers) == answers = send.expect

\* A send for ever compares with a number it is not going to reach.
AllAnswered(answers) == answers = Total

\* Its last block, under the caller's mutex: count, and notify when all answers of
\* all messages are there.
CountAnswer(i) ==
  /\ callables[i] # None
  /\ callables[i].counting > 0
  /\ callables' = With(i, [callables[i] EXCEPT !.counting = @ - 1])
  /\ IF callables[i].live
     THEN /\ operation_count' = IF send.count = -1 THEN 0 ELSE operation_count + 1
          /\ notified' = (notified \/ (pc = "waiting" /\ AllAnswered(operation_count + 1)))
          /\ UNCHANGED history
     ELSE history' = history \cup {"dangling"} /\ UNCHANGED <<operation_count, notified>>
  /\ UNCHANGED <<mainVars, joined, pc, send, default_response_timeout, saved, network_status,
                 resultVars>>
-----------------------------------------------------------------------------
(* Join, once the node has been told to join, and the functor it leaves. *)

\* Join returns into ProcessCommand, or into Run before its loop.
JoinReturns ==
  /\ network_status' = "dead"
  /\ IF entered = 0 THEN pc' = "prompt" /\ UNCHANGED posted ELSE Processed

JoinCheck ==
  /\ pc = "join"
  /\ IF joined THEN JoinReturns ELSE pc' = "joinchecked" /\ UNCHANGED <<network_status, posted>>
  /\ UNCHANGED <<mainVars, joined, sendVars, notified, callables, result_arrived_, finish_,
                 entered, history>>

JoinWait ==
  /\ pc = "joinchecked"
  /\ pc' = "joinwait"
  /\ UNCHANGED <<mainVars, joined, sendVars, notified, callables, network_status, resultVars,
                 history>>

\* wait_for returns: notified, woken by nobody, or after 20 seconds.
JoinWaitEnds ==
  /\ pc = "joinwait"
  /\ history' = IF notified THEN history ELSE history \cup {"woke"}
  /\ notified' = FALSE
  /\ JoinReturns
  /\ UNCHANGED <<mainVars, joined, sendVars, callables, result_arrived_, finish_, entered>>

\* The functor with the expected status (with another it only prints).  It uses the
\* condition variable of the Join that set it, and does not hold its mutex.
NetworkStatus ==
  /\ network_status # "unset"
  /\ ~joined
  /\ joined' = TRUE
  /\ notified' = (notified \/ pc = "joinwait")
  /\ history' = IF network_status = "dead" THEN history \cup {"dangling"} ELSE history
  /\ UNCHANGED <<mainVars, pc, sendVars, callables, network_status, resultVars>>
-----------------------------------------------------------------------------
(* The result. *)

\* Posted to the asio service; it gets wait_mutex_ once Run waits.
MarkResultArrived ==
  /\ posted
  /\ pc = "result"
  /\ posted' = FALSE
  /\ result_arrived_' = TRUE
  /\ UNCHANGED <<mainVars, joined, pc, sendVars, notified, callables, network_status, finish_,
                 entered, history>>

\* Run's wait, which has a predicate, ends.
ResultArrived ==
  /\ pc = "result"
  /\ result_arrived_
  /\ result_arrived_' = FALSE
  /\ pc' = IF finish_ THEN "done" ELSE "prompt"
  /\ UNCHANGED <<mainVars, joined, sendVars, notified, callables, network_status, posted,
                 finish_, entered, history>>
-----------------------------------------------------------------------------
Command ==
  \/ \E exit \in BOOLEAN : SimpleCommand(exit)
  \/ \E size \in {0, 1} : Tune(size, data_rate_)
  \/ \E rate \in {0, 1} : Tune(data_size_, rate)
  \/ ZeroStateJoin
  \/ Join
  \/ \E index \in {-1, 0, all_keys_}, group \in BOOLEAN, count \in Count :
       SendMessages(index, group, count)
  \/ \E contacts \in BOOLEAN : PerformanceTest(contacts)

Next ==
  \/ KeyHelper
  \/ \E index \in 0..2, client, bootstrap \in BOOLEAN : Main(index, client, bootstrap)
  \/ Command
  \/ SendAMessage
  \/ CheckCount
  \/ WaitEnds
  \/ \E i \in Slot : Called(i) \/ CountAnswer(i)
  \/ JoinCheck
  \/ JoinWait
  \/ JoinWaitEnds
  \/ NetworkStatus
  \/ MarkResultArrived
  \/ ResultArrived

Spec == Init /\ [][Next]_vars

\* The main thread runs; a wait ends once it is notified, Join's also after 20
\* seconds; the node's timer sees to it that every callable gets its calls; the
\* asio service runs what is posted to it.
FairSpec ==
  /\ Spec
  /\ WF_vars(SendAMessage)
  /\ WF_vars(CheckCount)
  /\ WF_vars(WaitEnds /\ notified)
  /\ WF_vars(JoinCheck \/ JoinWait \/ JoinWaitEnds)
  /\ WF_vars(MarkResultArrived)
  /\ WF_vars(ResultArrived)
  /\ \A i \in Slot : WF_vars(Called(i) \/ CountAnswer(i))
-----------------------------------------------------------------------------
\* A callback uses the local variables of the SendMessages or Join that made it
\* only while that call is on the stack, unless a wait ended that nobody had
\* notified: the counting in the callable and the two waits without a predicate
\* (commands.cc:209-213, 288-296, 332-337) fit together.
FramesOutliveCallbacks == Happened("dangling") => Happened("woke")

\* Every command comes back to the prompt (or ends the program), unless a node has
\* answered twice in time, which the callable does not count, or the messages are
\* sent for ever: no answer is missed between the check of operation_count and the
\* wait, and none is counted twice (commands.cc:92-113, 167-218, 259-306).
CommandsReturn ==
  pc \notin {"shell", "prompt"} ~>
    (pc \in {"prompt", "done", "crashed"} \/ Happened("repeated") \/ send.count = -1)

\* With at least two keys in the file, no command indexes outside the keys or
\* divides by zero as long as the data size and rate are the defaults: what main
\* checks of the index (routing_node.cc:127-172) is what the commands rely on.
NoCrashAtDefaults == pc = "crashed" => Happened("tuned") \/ all_keys_ < 2

\* At the prompt the response timeout is the one the node was started with, however
\* the sends before have overlapped and ended, unless one of them was refused for
\* its index (commands.cc:189-217).
TimeoutRestored ==
  pc = "prompt" => default_response_timeout = "base" \/ Happened("refused")
=============================================================================
