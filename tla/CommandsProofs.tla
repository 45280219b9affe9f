----------------------------- MODULE CommandsProofs -----------------------------
(***************************************************************************)
(* Commands is correct for every number of keys, messages and answers:     *)
(* what SendMessages counts and waits for, and what Join waits for, is all *)
(* that refers to their local variables.                                   *)
(*                                                                         *)
(* The invariant counts the calls that callables still owe: together with  *)
(* operation_count they are at most the answers of the messages sent, so   *)
(* that nothing is owed when operation_count reaches the total.            *)
(***************************************************************************)
EXTENDS Commands, FiniteSetTheorems, TLAPS

Callable == [live : BOOLEAN, left : Nat, counting : Nat, responded_nodes_ : SUBSET Respondents]

TypeInv ==
  /\ key_file \in KeyCount \cup {None}
  /\ all_keys_ \in Nat
  /\ send \in [count : Nat \cup {-1}, expect : Nat, sent : Nat, rounds : SUBSET (Nat \ {0})]
  /\ operation_count \in Nat
  /\ \A i \in Slot : callables[i] = None \/ callables[i] \in Callable
  /\ DOMAIN callables = Slot

\* The thread is in SendMessages, or in a round of the performance test.
Sending == pc \in {"sending", "waiting"}

\* The sizes are the defaults until they are tuned, and with these, and two keys,
\* nothing crashes.
CrashInv ==
  /\ ~Happened("tuned") => data_size_ = 2 /\ data_rate_ = 2
  /\ NoCrashAtDefaults

\* The timeout is the base one, or SendMessages keeps it.
TimeoutInv ==
  \/ Happened("refused")
  \/ IF Sending THEN saved = "base" ELSE pc # "crashed" => default_response_timeout = "base"

\* Only a wait is notified, and Join's wait only once the node has joined.
NotifiedInv ==
  /\ notified => pc \in {"waiting", "joinwait"}
  /\ notified /\ pc = "joinwait" => joined
  /\ Sending => send.expect > 0
  /\ pc = "waiting" => send.sent = send.count

\* The calls that callables still owe.
Owed == {t \in Slot \X Nat : /\ callables[t[1]] # None
                             /\ t[2] \in 1..(callables[t[1]].left + callables[t[1]].counting)}

CountInv ==
  Sending /\ send.count # -1 =>
    /\ IsFiniteSet(Owed)
    /\ operation_count + Cardinality(Owed) <= send.sent * send.expect

\* What holds as long as no wait has ended by itself: callables are of the call on
\* the stack, and all have been called when that call is notified.
FrameInv ==
  Happened("woke") \/
    /\ ~Happened("dangling")
    /\ network_status = "dead" => joined
    /\ \A i \in Slot : callables[i] # None =>
         Sending /\ callables[i].live /\ callables[i].left + callables[i].counting > 0
    /\ CountInv
    /\ pc = "waiting" /\ notified => operation_count = Total

IInv == TypeInv /\ CrashInv /\ TimeoutInv /\ NotifiedInv /\ FrameInv

-----------------------------------------------------------------------------
LEMMA InitIInv == Init => IInv
BY CommandsAssumption
   DEF Init, IInv, TypeInv, CrashInv, TimeoutInv, NotifiedInv, FrameInv, CountInv, NoSend,
       Sending, Happened, NoCrashAtDefaults

\* The callables after a call of one of them: it is gone, or owes something.
Replaced(i, c) ==
  /\ DOMAIN callables' = Slot
  /\ \A j \in Slot : j # i => callables'[j] = callables[j]
  /\ callables'[i] # None => callables'[i] = c /\ c.left + c.counting > 0

LEMMA WithFacts ==
  ASSUME TypeInv, NEW i \in Slot, NEW c \in Callable, callables' = With(i, c)
  PROVE  Replaced(i, c)
<1>1. c.left \in Nat /\ c.counting \in Nat BY DEF Callable
<1>2. callables'[i] = IF c.left = 0 /\ c.counting = 0 THEN None ELSE c
  BY DEF With, TypeInv
<1> QED BY <1>1, <1>2 DEF With, TypeInv, Replaced

LEMMA RecordedFacts ==
  ASSUME NEW c \in Callable, NEW node \in Respondents
  PROVE  LET d == [c EXCEPT !.counting = @ + 1, !.responded_nodes_ = @ \cup {node}]
         IN  /\ d \in Callable /\ d.live = c.live /\ d.left = c.left
             /\ d.counting = c.counting + 1
<1> DEFINE b == [c EXCEPT !.counting = @ + 1]
           d == [c EXCEPT !.counting = @ + 1, !.responded_nodes_ = @ \cup {node}]
<1>1. b \in Callable /\ b.live = c.live /\ b.left = c.left /\ b.counting = c.counting + 1
  BY DEF Callable
<1>2. d = [b EXCEPT !.responded_nodes_ = @ \cup {node}]
  OBVIOUS
<1> HIDE DEF b, d
<1>3. b.responded_nodes_ \cup {node} \in SUBSET Respondents
  BY <1>1 DEF Callable
<1> QED BY <1>1, <1>2, <1>3, Zenon DEF Callable

\* What a call of a callable leaves of it.
LEMMA CalledFacts ==
  ASSUME TypeInv, NEW i \in Slot, Called(i)
  PROVE  /\ callables[i] \in Callable /\ callables[i].left > 0
         /\ \E c \in Callable :
              /\ Replaced(i, c) /\ c.live = callables[i].live
              /\ c.left + c.counting <= callables[i].left + callables[i].counting
         /\ history' \in {history, history \cup {"repeated"}}
<1>1. callables[i] \in Callable /\ callables[i].left > 0 BY Zenon DEF Called, TypeInv
<1> DEFINE c == [callables[i] EXCEPT !.left = @ - 1]
           d == [c EXCEPT !.counting = @ + 1]
           e(node) == [c EXCEPT !.counting = @ + 1, !.responded_nodes_ = @ \cup {node}]
<1>2. /\ c \in Callable /\ c.live = callables[i].live
      /\ c.left = callables[i].left - 1 /\ c.counting = callables[i].counting
  BY <1>1 DEF Callable
<1> HIDE DEF c
<1>3. /\ d \in Callable /\ d.live = callables[i].live
      /\ d.left = callables[i].left - 1 /\ d.counting = callables[i].counting + 1
  BY <1>2, SMTT(30) DEF Callable
<1>4. \A node \in Respondents :
        /\ e(node) \in Callable /\ e(node).live = callables[i].live
        /\ e(node).left = callables[i].left - 1 /\ e(node).counting = callables[i].counting + 1
  BY <1>2, RecordedFacts, Zenon
<1>5. \/ callables' = With(i, c) /\ history' = history \cup {"repeated"}
      \/ callables' = With(i, d) /\ history' = history
      \/ \E node \in Respondents : callables' = With(i, e(node)) /\ history' = history
  BY Zenon DEF Called, c
<1>6. callables[i].left \in Nat /\ callables[i].counting \in Nat BY <1>1 DEF Callable
<1> HIDE DEF d, e
<1>7. CASE callables' = With(i, c) /\ history' = history \cup {"repeated"}
  BY <1>1, <1>2, <1>6, <1>7, WithFacts
<1>8. CASE callables' = With(i, d) /\ history' = history
  BY <1>1, <1>3, <1>6, <1>8, WithFacts
<1>9. ASSUME NEW node \in Respondents, callables' = With(i, e(node)), history' = history
      PROVE  \E k \in Callable :
               /\ Replaced(i, k) /\ k.live = callables[i].live
               /\ k.left + k.counting <= callables[i].left + callables[i].counting
  BY <1>1, <1>4, <1>6, <1>9, WithFacts
<1> QED BY <1>1, <1>5, <1>7, <1>8, <1>9

LEMMA CountedFacts ==
  ASSUME TypeInv, NEW i \in Slot, CountAnswer(i)
  PROVE  /\ callables[i] \in Callable /\ callables[i] # None /\ callables[i].counting > 0
         /\ \E c \in Callable :
              /\ Replaced(i, c) /\ c.live = callables[i].live
              /\ c.left + c.counting = callables[i].left + callables[i].counting - 1
<1>1. callables[i] \in Callable /\ callables[i] # None /\ callables[i].counting > 0
  BY DEF CountAnswer, TypeInv
<1> DEFINE c == [callables[i] EXCEPT !.counting = @ - 1]
<1>2. /\ c \in Callable /\ c.live = callables[i].live
      /\ c.left = callables[i].left /\ c.counting = callables[i].counting - 1
      /\ callables[i].left \in Nat /\ callables[i].counting \in Nat
  BY <1>1 DEF Callable
<1>3. callables' = With(i, c) BY DEF CountAnswer
<1> HIDE DEF c
<1>4. Replaced(i, c) BY <1>2, <1>3, WithFacts, SMTT(30)
<1> QED BY <1>1, <1>2, <1>4

\* A frame that ends leaves no callable that refers to it.
LEMMA FrameEndsFacts ==
  ASSUME TypeInv, FrameEnds, GroupSize \in Nat
  PROVE  /\ \/ pc' = "result" /\ send' = NoSend
            \/ /\ pc' = "sending" /\ send'.count = send.count /\ send'.sent = 0
               /\ send'.expect > 0
               /\ send' \in [count : Nat \cup {-1}, expect : Nat, sent : Nat,
                             rounds : SUBSET (Nat \ {0})]
         /\ operation_count' = 0 /\ saved' = saved /\ default_response_timeout' = saved
         /\ DOMAIN callables' = Slot
         /\ \A i \in Slot : IF callables[i] = None THEN callables'[i] = None
                                                   ELSE callables'[i] \in Callable
<1>1. \A i \in Slot : callables[i] # None => [callables[i] EXCEPT !.live = FALSE] \in Callable
  BY Zenon DEF TypeInv, Callable
<1>2. \A i \in Slot : IF callables[i] = None THEN callables'[i] = None
                                             ELSE callables'[i] \in Callable
  BY <1>1, Zenon DEF FrameEnds
<1>3. ASSUME send.rounds # {}
      PROVE  /\ pc' = "sending" /\ send'.count = send.count /\ send'.sent = 0 /\ send'.expect > 0
             /\ send' \in [count : Nat \cup {-1}, expect : Nat, sent : Nat,
                           rounds : SUBSET (Nat \ {0})]
  <2>1. PICK e \in send.rounds : /\ pc' = "sending"
                                 /\ send' = [send EXCEPT !.expect = e, !.sent = 0, !.rounds = @ \ {e}]
    BY <1>3, Zenon DEF FrameEnds
  <2>2. e \in Nat \ {0} BY DEF TypeInv
  <2>3. send.rounds \ {e} \in SUBSET (Nat \ {0}) BY DEF TypeInv
  <2>4. /\ send' = [count |-> send.count, expect |-> e, sent |-> 0, rounds |-> send.rounds \ {e}]
        /\ send.count \in Nat \cup {-1}
    BY <2>1, Zenon DEF TypeInv
  <2> QED BY <2>1, <2>2, <2>3, <2>4
<1> QED BY <1>2, <1>3, Zenon DEF FrameEnds, Processed, RestoreTimeout

-----------------------------------------------------------------------------
\* The variables of TypeInv.
typed == <<key_file, all_keys_, send, operation_count, callables>>

LEMMA TypeStep == ASSUME TypeInv, [Next]_vars PROVE TypeInv'
<1> USE DEF TypeInv, mainVars, sendVars, resultVars
<1>u. ASSUME UNCHANGED typed PROVE TypeInv' BY <1>u DEF typed
<1>1. CASE KeyHelper BY <1>1 DEF KeyHelper
<1>2. ASSUME NEW index, NEW client, NEW bootstrap, Main(index, client, bootstrap) PROVE TypeInv'
  BY <1>2, CommandsAssumption DEF Main
<1>3. ASSUME NEW exit, SimpleCommand(exit) PROVE TypeInv' BY <1>3, <1>u DEF SimpleCommand, typed
<1>4. ASSUME NEW size, NEW rate, Tune(size, rate) PROVE TypeInv' BY <1>4, <1>u DEF Tune, typed
<1>5. CASE ZeroStateJoin BY <1>5, <1>u DEF ZeroStateJoin, typed
<1>6. CASE Join BY <1>6, <1>u DEF Join, typed
<1>7. ASSUME NEW index, NEW group, NEW count \in Count, SendMessages(index, group, count)
      PROVE  TypeInv'
  <2>1. (IF group THEN GroupSize ELSE 1) \in Nat /\ count \in Nat \cup {-1} BY CommandsAssumption
  <2>2. send' \in [count : Nat \cup {-1}, expect : Nat, sent : Nat, rounds : SUBSET (Nat \ {0})]
    BY <1>7, <2>1 DEF SendMessages
  <2> QED BY <1>7, <2>2 DEF SendMessages
<1>8. ASSUME NEW contacts, PerformanceTest(contacts) PROVE TypeInv'
  <2>1. send' \in [count : Nat \cup {-1}, expect : Nat, sent : Nat, rounds : SUBSET (Nat \ {0})]
    BY <1>8, CommandsAssumption DEF PerformanceTest
  <2> QED BY <1>8, <2>1 DEF PerformanceTest
<1>9. CASE SendAMessage
  <2>1. PICK i \in FreeSlots :
          callables' = [callables EXCEPT ![i] =
                          [live |-> TRUE, left |-> send.expect, counting |-> 0,
                           responded_nodes_ |-> {}]]
    BY <1>9, Zenon DEF SendAMessage
  <2>2. /\ DOMAIN callables' = Slot
        /\ \A j \in Slot : callables'[j] = None \/ callables'[j] \in Callable
    BY <2>1 DEF FreeSlots, Callable
  <2>3. send' \in [count : Nat \cup {-1}, expect : Nat, sent : Nat, rounds : SUBSET (Nat \ {0})]
    BY <1>9 DEF SendAMessage
  <2> QED BY <1>9, <2>2, <2>3, Zenon DEF SendAMessage
<1>10. ASSUME FrameEnds, UNCHANGED mainVars PROVE TypeInv'
  BY <1>10, FrameEndsFacts, CommandsAssumption DEF NoSend
<1>11. CASE CheckCount BY <1>10, <1>11, <1>u DEF CheckCount, typed
<1>12. CASE WaitEnds BY <1>10, <1>12, SMTT(30) DEF WaitEnds
<1>13. ASSUME NEW i \in Slot, Called(i) PROVE TypeInv'
  BY <1>13, CalledFacts, ZenonT(30) DEF Replaced, Called
<1>14. ASSUME NEW i \in Slot, CountAnswer(i) PROVE TypeInv'
  BY <1>14, CountedFacts DEF Replaced, CountAnswer
<1>15. CASE JoinCheck \/ JoinWait \/ JoinWaitEnds
  BY <1>15, <1>u DEF JoinCheck, JoinWait, JoinWaitEnds, typed
<1>16. CASE NetworkStatus \/ MarkResultArrived \/ ResultArrived
  BY <1>16, <1>u DEF NetworkStatus, MarkResultArrived, ResultArrived, typed
<1>17. CASE UNCHANGED vars BY <1>17, <1>u DEF vars, typed
<1> QED
  BY <1>1, <1>2, <1>3, <1>4, <1>5, <1>6, <1>7, <1>8, <1>9, <1>11, <1>12, <1>13, <1>14, <1>15,
     <1>16, <1>17 DEF Next, Command

LEMMA CrashStep == ASSUME TypeInv, CrashInv, [Next]_vars PROVE CrashInv'
<1> USE DEF CrashInv, NoCrashAtDefaults, Happened, mainVars, sendVars, resultVars, Enter, Processed
<1>u. ASSUME UNCHANGED <<all_keys_, data_size_, data_rate_>>, history \subseteq history',
             "tuned" \in history' => "tuned" \in history, pc' = "crashed" => pc = "crashed"
      PROVE  CrashInv'
  BY <1>u
<1>1. CASE KeyHelper BY <1>1 DEF KeyHelper
<1>2. ASSUME NEW index, NEW client, NEW bootstrap, Main(index, client, bootstrap) PROVE CrashInv'
  BY <1>2 DEF Main
<1>3. ASSUME NEW exit, SimpleCommand(exit) PROVE CrashInv' BY <1>3, <1>u DEF SimpleCommand
<1>4. ASSUME NEW size, NEW rate, Tune(size, rate) PROVE CrashInv' BY <1>4 DEF Tune
<1>5. CASE ZeroStateJoin BY <1>5 DEF ZeroStateJoin
<1>6. CASE Join BY <1>6, <1>u DEF Join
<1>7. ASSUME NEW index \in {-1, 0, all_keys_}, NEW group \in BOOLEAN, NEW count \in Count,
             SendMessages(index, group, count)
      PROVE  CrashInv'
  <2>1. ASSUME IndexesOutside(index, group) PROVE all_keys_ < 2
    BY <1>7, <2>1 DEF IndexesOutside, OutOfRange, Half, TypeInv
  <2>2. DividesByZero => "tuned" \in history BY DEF DividesByZero
  <2>3. /\ pc' = "crashed" => DividesByZero \/ IndexesOutside(index, group)
        /\ UNCHANGED <<all_keys_, data_size_, data_rate_>>
        /\ history' \in {history, history \cup {"refused"}}
    BY <1>7 DEF SendMessages
  <2> QED BY <2>1, <2>2, <2>3
<1>8. ASSUME NEW contacts, PerformanceTest(contacts) PROVE CrashInv' BY <1>8 DEF PerformanceTest
<1>9. CASE SendAMessage BY <1>9, <1>u, SMTT(30) DEF SendAMessage
<1>10. CASE CheckCount BY <1>10, <1>u, Zenon DEF CheckCount, FrameEnds
<1>11. CASE WaitEnds BY <1>11, <1>u, Zenon DEF WaitEnds, FrameEnds
<1>12. ASSUME NEW i \in Slot, Called(i) PROVE CrashInv'
  BY <1>12, <1>u, CalledFacts, Zenon DEF Called
<1>13. ASSUME NEW i \in Slot, CountAnswer(i) PROVE CrashInv' BY <1>13, <1>u DEF CountAnswer
<1>14. CASE JoinCheck \/ JoinWait \/ JoinWaitEnds
  BY <1>14, <1>u DEF JoinCheck, JoinWait, JoinWaitEnds, JoinReturns
<1>15. CASE NetworkStatus \/ MarkResultArrived \/ ResultArrived
  BY <1>15, <1>u DEF NetworkStatus, MarkResultArrived, ResultArrived
<1>16. CASE UNCHANGED vars BY <1>16, <1>u DEF vars
<1> QED
  BY <1>1, <1>2, <1>3, <1>4, <1>5, <1>6, <1>7, <1>8, <1>9, <1>10, <1>11, <1>12, <1>13, <1>14, <1>15,
     <1>16 DEF Next, Command

LEMMA TimeoutStep == ASSUME TypeInv, TimeoutInv, [Next]_vars PROVE TimeoutInv'
<1> USE DEF TimeoutInv, Happened, Sending, mainVars, sendVars, resultVars, Enter, Processed
<1>u. ASSUME history \subseteq history', pc # "crashed",
             UNCHANGED <<default_response_timeout, saved>>, Sending' <=> Sending
      PROVE  TimeoutInv'
  BY <1>u
<1>1. CASE KeyHelper BY <1>1, <1>u DEF KeyHelper
<1>2. ASSUME NEW index, NEW client, NEW bootstrap, Main(index, client, bootstrap) PROVE TimeoutInv'
  BY <1>2, <1>u DEF Main
<1>3. ASSUME NEW exit, SimpleCommand(exit) PROVE TimeoutInv' BY <1>3, <1>u DEF SimpleCommand
<1>4. ASSUME NEW size, NEW rate, Tune(size, rate) PROVE TimeoutInv' BY <1>4, <1>u DEF Tune
<1>5. CASE ZeroStateJoin BY <1>5, <1>u DEF ZeroStateJoin
<1>6. CASE Join BY <1>6, <1>u DEF Join
<1>7. ASSUME NEW index, NEW group, NEW count \in Count, SendMessages(index, group, count)
      PROVE  TimeoutInv'
  BY <1>7 DEF SendMessages
<1>8. ASSUME NEW contacts, PerformanceTest(contacts) PROVE TimeoutInv' BY <1>8 DEF PerformanceTest
<1>9. CASE SendAMessage BY <1>9, <1>u, SMTT(30) DEF SendAMessage
<1>10. ASSUME FrameEnds, Sending, history \subseteq history' PROVE TimeoutInv'
  BY <1>10, Zenon DEF FrameEnds, RestoreTimeout
<1>11. CASE CheckCount BY <1>10, <1>11, <1>u DEF CheckCount
<1>12. CASE WaitEnds BY <1>10, <1>12, SMTT(30) DEF WaitEnds
<1>13. ASSUME NEW i \in Slot, Called(i) PROVE TimeoutInv'
  BY <1>13, CalledFacts, Zenon DEF Called
<1>14. ASSUME NEW i \in Slot, CountAnswer(i) PROVE TimeoutInv' BY <1>14 DEF CountAnswer
<1>15. CASE JoinCheck \/ JoinWait \/ JoinWaitEnds
  BY <1>15, <1>u DEF JoinCheck, JoinWait, JoinWaitEnds, JoinReturns
<1>16. CASE NetworkStatus \/ MarkResultArrived \/ ResultArrived
  BY <1>16, <1>u DEF NetworkStatus, MarkResultArrived, ResultArrived
<1>17. CASE UNCHANGED vars BY <1>17 DEF vars
<1> QED
  BY <1>1, <1>2, <1>3, <1>4, <1>5, <1>6, <1>7, <1>8, <1>9, <1>11, <1>12, <1>13, <1>14, <1>15,
     <1>16, <1>17 DEF Next, Command


LEMMA NotifiedStep == ASSUME TypeInv, NotifiedInv, [Next]_vars PROVE NotifiedInv'
<1> USE DEF NotifiedInv, Sending, mainVars, sendVars, resultVars, Enter, Processed
<1>u. ASSUME UNCHANGED <<send, notified>>, joined => joined', ~Sending', ~notified PROVE NotifiedInv'
  BY <1>u
<1>1. CASE KeyHelper BY <1>1 DEF KeyHelper
<1>2. ASSUME NEW index, NEW client, NEW bootstrap, Main(index, client, bootstrap)
      PROVE  NotifiedInv'
  BY <1>2, <1>u DEF Main
<1>3. ASSUME NEW exit, SimpleCommand(exit) PROVE NotifiedInv' BY <1>3, <1>u DEF SimpleCommand
<1>4. ASSUME NEW size, NEW rate, Tune(size, rate) PROVE NotifiedInv' BY <1>4, <1>u DEF Tune
<1>5. CASE ZeroStateJoin BY <1>5, <1>u DEF ZeroStateJoin
<1>6. CASE Join BY <1>6, <1>u DEF Join
<1>7. ASSUME NEW index, NEW group, NEW count \in Count, SendMessages(index, group, count)
      PROVE  NotifiedInv'
  <2>1. (IF group THEN GroupSize ELSE 1) > 0 BY CommandsAssumption
  <2> QED BY <1>7, <2>1 DEF SendMessages
<1>8. ASSUME NEW contacts, PerformanceTest(contacts) PROVE NotifiedInv'
  BY <1>8 DEF PerformanceTest
<1>9. CASE SendAMessage
  <2>1. send'.expect = send.expect BY <1>9 DEF SendAMessage, TypeInv
  <2> QED BY <1>9, <2>1 DEF SendAMessage
<1>10. ASSUME FrameEnds, ~notified' PROVE NotifiedInv'
  BY <1>10, FrameEndsFacts, CommandsAssumption
<1>11. CASE CheckCount BY <1>10, <1>11 DEF CheckCount
<1>12. CASE WaitEnds BY <1>10, <1>12, SMTT(30) DEF WaitEnds
<1>13. ASSUME NEW i \in Slot, Called(i) PROVE NotifiedInv' BY <1>13, Zenon DEF Called
<1>14. ASSUME NEW i \in Slot, CountAnswer(i) PROVE NotifiedInv' BY <1>14, Zenon DEF CountAnswer
<1>15. CASE JoinCheck \/ JoinWait \/ JoinWaitEnds
  BY <1>15 DEF JoinCheck, JoinWait, JoinWaitEnds, JoinReturns
<1>16. CASE NetworkStatus BY <1>16, Zenon DEF NetworkStatus
<1>17. CASE MarkResultArrived \/ ResultArrived
  <2>1. CASE MarkResultArrived BY <2>1, SMTT(30) DEF MarkResultArrived
  <2>2. CASE ResultArrived BY <2>2, SMTT(30) DEF ResultArrived
  <2> QED BY <1>17, <2>1, <2>2
<1>18. CASE UNCHANGED vars BY <1>18 DEF vars
<1> QED
  BY <1>1, <1>2, <1>3, <1>4, <1>5, <1>6, <1>7, <1>8, <1>9, <1>11, <1>12, <1>13, <1>14, <1>15,
     <1>16, <1>17, <1>18 DEF Next, Command
-----------------------------------------------------------------------------
\* FrameInv as long as no wait has ended by itself.
Frame ==
  /\ ~Happened("dangling")
  /\ network_status = "dead" => joined
  /\ \A i \in Slot : callables[i] # None =>
       Sending /\ callables[i].live /\ callables[i].left + callables[i].counting > 0
  /\ CountInv
  /\ pc = "waiting" /\ notified => operation_count = Total

LEMMA FrameMeans == FrameInv <=> Happened("woke") \/ Frame
BY DEF FrameInv, Frame

\* Calls that other callables owe are owed by nobody else.
LEMMA OwedAfterCall ==
  ASSUME TypeInv, NEW i \in Slot, callables[i] \in Callable, callables[i] # None, NEW c \in Callable,
         Replaced(i, c), IsFiniteSet(Owed),
         c.left + c.counting <= callables[i].left + callables[i].counting
  PROVE  /\ IsFiniteSet(Owed') /\ Cardinality(Owed') <= Cardinality(Owed)
         /\ c.left + c.counting < callables[i].left + callables[i].counting =>
              Cardinality(Owed') + 1 <= Cardinality(Owed)
<1> DEFINE k == callables[i].left + callables[i].counting
<1>0. k \in Nat /\ c.left + c.counting \in Nat BY DEF Callable
<1>1. Owed' \subseteq Owed
  BY <1>0 DEF Owed, Replaced
<1>2. IsFiniteSet(Owed') /\ Cardinality(Owed') <= Cardinality(Owed)
  BY <1>1, FS_Subset
<1>3. ASSUME c.left + c.counting < k PROVE Cardinality(Owed') + 1 <= Cardinality(Owed)
  <2>1. <<i, k>> \in Owed BY <1>0, <1>3 DEF Owed
  <2>2. <<i, k>> \notin Owed' BY <1>0, <1>3 DEF Owed, Replaced
  <2>3. IsFiniteSet(Owed \ {<<i, k>>}) /\ Cardinality(Owed \ {<<i, k>>}) = Cardinality(Owed) - 1
    BY <2>1, FS_RemoveElement, Zenon
  <2>4. Owed' \subseteq Owed \ {<<i, k>>} BY <1>1, <2>2
  <2>5. Cardinality(Owed') <= Cardinality(Owed) - 1 BY <2>3, <2>4, FS_Subset
  <2>6. Cardinality(Owed) \in Nat /\ Cardinality(Owed') \in Nat BY <1>2, FS_CardinalityType
  <2> QED BY <2>5, <2>6
<1> QED BY <1>2, <1>3

\* A message adds as many calls as answers are expected for it.
LEMMA OwedAfterSend ==
  ASSUME TypeInv, NEW i \in Slot, NEW n \in Nat, IsFiniteSet(Owed), DOMAIN callables' = Slot,
         \A j \in Slot : j # i => callables'[j] = callables[j],
         callables'[i] # None => callables'[i].left = n /\ callables'[i].counting = 0
  PROVE  IsFiniteSet(Owed') /\ Cardinality(Owed') <= Cardinality(Owed) + n
<1> DEFINE new == {<<i, k>> : k \in 1..n}
           f == [k \in 1..n |-> <<i, k>>]
<1>1. IsFiniteSet(1..n) /\ Cardinality(1..n) = n
  BY FS_Interval
<1>2. f \in Surjection(1..n, new)
  BY DEF Surjection
<1>3. IsFiniteSet(new) /\ Cardinality(new) <= n
  BY <1>1, <1>2, FS_Surjection
<1> HIDE DEF new, f
<1>4. Owed' \subseteq Owed \cup new
  <2> SUFFICES ASSUME NEW t \in Owed', t \notin Owed PROVE t \in new OBVIOUS
  <2>1. PICK j \in Slot, k \in Nat : t = <<j, k>> BY DEF Owed
  <2>2. /\ callables'[j] # None
        /\ k \in 1..(callables'[j].left + callables'[j].counting)
    BY <2>1 DEF Owed
  <2>3. j = i BY <2>1, <2>2 DEF Owed
  <2>4. k \in 1..n BY <2>2, <2>3
  <2> QED BY <2>1, <2>3, <2>4 DEF new
<1>5. /\ IsFiniteSet(Owed \cup new)
      /\ Cardinality(Owed \cup new) =
           Cardinality(Owed) + Cardinality(new) - Cardinality(Owed \cap new)
  BY <1>3, FS_Union
<1>6. IsFiniteSet(Owed') /\ Cardinality(Owed') <= Cardinality(Owed \cup new)
  BY <1>4, <1>5, FS_Subset
<1>7. IsFiniteSet(Owed \cap new) BY <1>3, FS_Intersection
<1>8. /\ Cardinality(Owed) \in Nat /\ Cardinality(new) \in Nat /\ Cardinality(Owed') \in Nat
      /\ Cardinality(Owed \cap new) \in Nat /\ Cardinality(Owed \cup new) \in Nat
  BY <1>3, <1>5, <1>6, <1>7, FS_CardinalityType
<1> QED BY <1>3, <1>5, <1>6, <1>8


\* Nobody owes anything once the calls counted are as many as were to be made.
LEMMA NothingOwed ==
  ASSUME TypeInv, Frame, Sending, send.sent = send.count, operation_count = Total
  PROVE  \A i \in Slot : callables[i] = None
<1>1. /\ send.count \in Nat /\ send.expect \in Nat /\ send.sent * send.expect \in Nat
      /\ operation_count = send.sent * send.expect
  BY DEF TypeInv, Total
<1>2. IsFiniteSet(Owed) /\ operation_count + Cardinality(Owed) <= send.sent * send.expect
  BY <1>1 DEF Frame, CountInv
<1>3. Cardinality(Owed) = 0
  BY <1>1, <1>2, FS_CardinalityType
<1>4. Owed = {}
  BY <1>2, <1>3, FS_EmptySet
<1>5. ASSUME NEW i \in Slot, callables[i] # None PROVE FALSE
  <2>1. /\ callables[i].left + callables[i].counting > 0
        /\ callables[i].left + callables[i].counting \in Nat
    BY <1>5 DEF Frame, TypeInv, Callable
  <2>2. <<i, 1>> \in Owed BY <1>5, <2>1 DEF Owed
  <2> QED BY <1>4, <2>2
<1> QED BY <1>5

\* With nothing owed, a frame starts, or none is on the stack.
LEMMA FrameStarts ==
  ASSUME TypeInv, Frame, \A i \in Slot : callables'[i] = None, DOMAIN callables' = Slot,
         ~Happened("dangling")', network_status' = "dead" => joined',
         \/ ~Sending'
         \/ /\ pc' = "sending" /\ operation_count' = 0 /\ send'.sent = 0 /\ send'.expect \in Nat
  PROVE  Frame'
<1>1. Owed' = {} BY DEF Owed
<1>2. IsFiniteSet(Owed') /\ Cardinality(Owed') = 0 BY <1>1, FS_EmptySet
<1>3. ASSUME Sending' PROVE operation_count' + Cardinality(Owed') <= send'.sent * send'.expect
  <2>1. 0 * send'.expect = 0 BY <1>3
  <2>2. operation_count' = 0 /\ send'.sent = 0 BY <1>3
  <2> QED BY <1>2, <2>1, <2>2
<1>4. CountInv' BY <1>2, <1>3 DEF CountInv
<1>5. ~(pc' = "waiting") BY DEF Sending
<1> QED BY <1>4, <1>5 DEF Frame

LEMMA FrameEndsFrame ==
  ASSUME TypeInv, Frame, Sending, send.sent = send.count, operation_count = Total, FrameEnds,
         ~Happened("dangling")', UNCHANGED <<network_status, joined>>
  PROVE  Frame'
<1>1. \A i \in Slot : callables[i] = None BY NothingOwed
<1>2. (\A i \in Slot : callables'[i] = None) /\ DOMAIN callables' = Slot
  BY <1>1, FrameEndsFacts, CommandsAssumption
<1>3. \/ ~Sending'
      \/ pc' = "sending" /\ operation_count' = 0 /\ send'.sent = 0 /\ send'.expect \in Nat
  BY FrameEndsFacts, CommandsAssumption DEF Sending
<1>4. network_status' = "dead" => joined' BY DEF Frame
<1> QED BY <1>2, <1>3, <1>4, FrameStarts

LEMMA SendFrame == ASSUME TypeInv, NotifiedInv, Frame, SendAMessage PROVE Frame'
<1>1. PICK i \in FreeSlots :
        callables' = [callables EXCEPT ![i] = [live |-> TRUE, left |-> send.expect, counting |-> 0,
                                               responded_nodes_ |-> {}]]
  BY Zenon DEF SendAMessage
<1>2. /\ i \in Slot /\ DOMAIN callables' = Slot
      /\ \A j \in Slot : j # i => callables'[j] = callables[j]
      /\ callables'[i].live /\ callables'[i].left = send.expect /\ callables'[i].counting = 0
  BY <1>1 DEF FreeSlots, TypeInv
<1>3. /\ pc = "sending" /\ pc' = pc /\ operation_count' = operation_count /\ notified' = notified
      /\ history' = history /\ network_status' = network_status /\ joined' = joined
      /\ send.expect \in Nat /\ send.expect > 0 /\ send.sent \in Nat /\ operation_count \in Nat
      /\ send'.expect = send.expect /\ send'.count = send.count
      /\ send.count # -1 => send'.sent = send.sent + 1
  BY DEF SendAMessage, TypeInv, NotifiedInv, Sending, resultVars
<1>4. \A j \in Slot : callables'[j] # None =>
        Sending' /\ callables'[j].live /\ callables'[j].left + callables'[j].counting > 0
  BY <1>2, <1>3 DEF Frame, Sending
<1>5. ASSUME send.count # -1
      PROVE  /\ IsFiniteSet(Owed')
             /\ operation_count' + Cardinality(Owed') <= send'.sent * send'.expect
  <2>1. IsFiniteSet(Owed) /\ operation_count + Cardinality(Owed) <= send.sent * send.expect
    BY <1>3, <1>5 DEF Frame, CountInv, Sending
  <2>2. IsFiniteSet(Owed') /\ Cardinality(Owed') <= Cardinality(Owed) + send.expect
    BY <1>2, <1>3, <2>1, OwedAfterSend
  <2>3. Cardinality(Owed) \in Nat /\ Cardinality(Owed') \in Nat
    BY <2>1, <2>2, FS_CardinalityType
  <2>4. (send.sent + 1) * send.expect = send.sent * send.expect + send.expect
    BY <1>3
  <2>5. send.sent * send.expect \in Nat BY <1>3
  <2> QED BY <1>3, <1>5, <2>1, <2>2, <2>3, <2>4, <2>5
<1>6. CountInv' BY <1>3, <1>5 DEF CountInv
<1> QED BY <1>3, <1>4, <1>6 DEF Frame, Happened

\* A callable called once more.
LEMMA CalledFrame == ASSUME TypeInv, Frame, NEW i \in Slot, Called(i) PROVE Frame'
<1>1. /\ pc' = pc /\ send' = send /\ operation_count' = operation_count /\ notified' = notified
      /\ network_status' = network_status /\ joined' = joined
      /\ callables[i] # None /\ callables[i] \in Callable
  BY CalledFacts, Zenon DEF Called, sendVars
<1>2. PICK c \in Callable : /\ Replaced(i, c) /\ c.live = callables[i].live
                            /\ c.left + c.counting <= callables[i].left + callables[i].counting
  BY CalledFacts
<1>3. \A j \in Slot : callables'[j] # None =>
        Sending' /\ callables'[j].live /\ callables'[j].left + callables'[j].counting > 0
  BY <1>1, <1>2 DEF Frame, Sending, Replaced
<1>4. CountInv'
  <2>1. ASSUME Sending, send.count # -1
        PROVE  /\ IsFiniteSet(Owed')
               /\ operation_count + Cardinality(Owed') <= send.sent * send.expect
    <3>1. IsFiniteSet(Owed) /\ operation_count + Cardinality(Owed) <= send.sent * send.expect
      BY <2>1 DEF Frame, CountInv
    <3>2. IsFiniteSet(Owed') /\ Cardinality(Owed') <= Cardinality(Owed)
      BY <1>1, <1>2, <3>1, OwedAfterCall
    <3>3. /\ Cardinality(Owed) \in Nat /\ Cardinality(Owed') \in Nat /\ operation_count \in Nat
          /\ send.sent * send.expect \in Nat
      BY <3>1, <3>2, FS_CardinalityType DEF TypeInv
    <3> QED BY <3>1, <3>2, <3>3
  <2> QED BY <1>1, <2>1 DEF CountInv, Sending
<1>5. ~Happened("dangling")' BY CalledFacts DEF Frame, Happened
<1>6. Total' = Total BY <1>1 DEF Total
<1> QED BY <1>1, <1>3, <1>4, <1>5, <1>6, SMTT(30) DEF Frame

\* An answer is counted: one less is owed.
LEMMA CountedFrame == ASSUME TypeInv, NotifiedInv, Frame, NEW i \in Slot, CountAnswer(i) PROVE Frame'
<1>1. /\ callables[i] # None /\ callables[i] \in Callable /\ callables[i].live /\ Sending
      /\ pc' = pc /\ send' = send /\ network_status' = network_status /\ joined' = joined
      /\ history' = history
      /\ operation_count' = IF send.count = -1 THEN 0 ELSE operation_count + 1
      /\ notified' = (notified \/ (pc = "waiting" /\ AllAnswered(operation_count + 1)))
  BY CountedFacts DEF CountAnswer, Frame
<1>2. PICK c \in Callable : /\ Replaced(i, c) /\ c.live = callables[i].live
                            /\ c.left + c.counting = callables[i].left + callables[i].counting - 1
  BY CountedFacts
<1>3. \A j \in Slot : callables'[j] # None =>
        Sending' /\ callables'[j].live /\ callables'[j].left + callables'[j].counting > 0
  BY <1>1, <1>2, Zenon DEF Frame, Sending, Replaced
<1>4. CountInv'
  <2>1. ASSUME send.count # -1
        PROVE  /\ IsFiniteSet(Owed')
               /\ operation_count + 1 + Cardinality(Owed') <= send.sent * send.expect
    <3>1. IsFiniteSet(Owed) /\ operation_count + Cardinality(Owed) <= send.sent * send.expect
      BY <1>1, <2>1 DEF Frame, CountInv
    <3>2. /\ c.left + c.counting <= callables[i].left + callables[i].counting
          /\ c.left + c.counting < callables[i].left + callables[i].counting
      BY <1>1, <1>2 DEF Callable
    <3>3. IsFiniteSet(Owed') /\ Cardinality(Owed') + 1 <= Cardinality(Owed)
      BY <1>1, <1>2, <3>1, <3>2, OwedAfterCall
    <3>4. /\ Cardinality(Owed) \in Nat /\ Cardinality(Owed') \in Nat /\ operation_count \in Nat
          /\ send.sent * send.expect \in Nat
      BY <3>1, <3>3, FS_CardinalityType DEF TypeInv
    <3> QED BY <3>1, <3>3, <3>4
  <2> QED BY <1>1, <2>1 DEF CountInv, Sending
<1>5. ASSUME pc = "waiting", notified' PROVE operation_count' = Total
  <2>1. send.sent = send.count BY <1>5 DEF NotifiedInv
  <2>2. ~notified
    <3>1. ASSUME notified PROVE FALSE
      <4>1. operation_count = Total BY <1>5, <3>1 DEF Frame
      <4> QED BY <1>1, <2>1, <4>1, NothingOwed
    <3> QED BY <3>1
  <2>3. send.count # -1 BY <2>1 DEF TypeInv
  <2> QED BY <1>1, <1>5, <2>2, <2>3, Zenon DEF AllAnswered
<1>6. Total' = Total BY <1>1 DEF Total
<1> QED BY <1>1, <1>3, <1>4, <1>5, <1>6 DEF Frame, Happened


LEMMA FrameStep ==
  ASSUME TypeInv, NotifiedInv, Frame, [Next]_vars, ~Happened("woke")'
  PROVE  Frame'
<1> USE DEF mainVars, sendVars, resultVars, Enter, Processed, Sending
\* Nothing is owed, and no frame is on the stack, before and after the step.
<1>u. ASSUME ~Sending, ~Sending', UNCHANGED callables,
             "dangling" \in history' => "dangling" \in history,
             network_status' = "dead" => network_status = "dead", joined => joined'
      PROVE  Frame'
  <2>1. (\A i \in Slot : callables'[i] = None) /\ DOMAIN callables' = Slot
    BY <1>u DEF Frame, TypeInv
  <2>2. ~Happened("dangling")' /\ (network_status' = "dead" => joined')
    BY <1>u DEF Frame, Happened
  <2> QED BY <1>u, <2>1, <2>2, FrameStarts
\* A frame starts.
<1>s. ASSUME ~Sending, UNCHANGED <<callables, network_status, joined>>,
             "dangling" \in history' => "dangling" \in history,
             pc' = "sending", operation_count' = 0, send'.sent = 0, send'.expect \in Nat
      PROVE  Frame'
  <2>1. (\A i \in Slot : callables'[i] = None) /\ DOMAIN callables' = Slot
    BY <1>s DEF Frame, TypeInv
  <2>2. ~Happened("dangling")' /\ (network_status' = "dead" => joined')
    BY <1>s DEF Frame, Happened
  <2> QED BY <1>s, <2>1, <2>2, FrameStarts
<1>1. CASE KeyHelper BY <1>1, <1>u DEF KeyHelper
<1>2. ASSUME NEW index, NEW client, NEW bootstrap, Main(index, client, bootstrap) PROVE Frame'
  BY <1>2, <1>u DEF Main
<1>3. ASSUME NEW exit, SimpleCommand(exit) PROVE Frame' BY <1>3, <1>u DEF SimpleCommand
<1>4. ASSUME NEW size, NEW rate, Tune(size, rate) PROVE Frame' BY <1>4, <1>u DEF Tune
<1>5. CASE ZeroStateJoin BY <1>5, <1>u DEF ZeroStateJoin
<1>6. CASE Join BY <1>6, <1>u DEF Join
<1>7. ASSUME NEW index, NEW group, NEW count \in Count, SendMessages(index, group, count)
      PROVE  Frame'
  <2>1. (IF group THEN GroupSize ELSE 1) \in Nat BY CommandsAssumption
  <2>2. /\ ~Sending /\ UNCHANGED <<callables, network_status, joined>> /\ operation_count' = 0
        /\ "dangling" \in history' => "dangling" \in history
    BY <1>7 DEF SendMessages
  <2>3. \/ ~Sending'
        \/ pc' = "sending" /\ send'.sent = 0 /\ send'.expect \in Nat
    BY <1>7, <2>1 DEF SendMessages
  <2>4. CASE ~Sending' BY <2>2, <2>4, <1>u
  <2>5. CASE pc' = "sending" /\ send'.sent = 0 /\ send'.expect \in Nat BY <2>2, <2>5, <1>s
  <2> QED BY <2>3, <2>4, <2>5
<1>8. ASSUME NEW contacts, PerformanceTest(contacts) PROVE Frame'
  <2>2. /\ ~Sending /\ UNCHANGED <<callables, network_status, joined>> /\ operation_count' = 0
        /\ "dangling" \in history' => "dangling" \in history
    BY <1>8 DEF PerformanceTest
  <2>3. \/ ~Sending'
        \/ pc' = "sending" /\ send'.sent = 0 /\ send'.expect \in Nat
    BY <1>8 DEF PerformanceTest
  <2>4. CASE ~Sending' BY <2>2, <2>4, <1>u
  <2>5. CASE pc' = "sending" /\ send'.sent = 0 /\ send'.expect \in Nat BY <2>2, <2>5, <1>s
  <2> QED BY <2>3, <2>4, <2>5
<1>9. CASE SendAMessage BY <1>9, SendFrame
\* The same frame, its variables unchanged.
<1>k. ASSUME UNCHANGED <<callables, send, operation_count, network_status, joined, history>>,
             Sending' <=> Sending, pc' = "waiting" /\ notified' => pc = "waiting" /\ notified
      PROVE  Frame'
  <2>1. Owed' = Owed /\ Total' = Total BY <1>k DEF Owed, Total
  <2> QED BY <1>k, <2>1 DEF Frame, CountInv, Happened
<1>10. CASE CheckCount
  <2>1. CASE AllCounted
    BY <1>10, <2>1, FrameEndsFrame DEF CheckCount, AllCounted, Happened, Frame
  <2>2. CASE ~AllCounted BY <1>10, <2>2, <1>k DEF CheckCount
  <2> QED BY <2>1, <2>2
<1>11. CASE WaitEnds
  <2>1. notified /\ history' = history BY <1>11 DEF WaitEnds, Happened
  <2>2. operation_count = Total /\ send.sent = send.count
    BY <1>11, <2>1 DEF WaitEnds, Frame, NotifiedInv
  <2>3. ~Happened("dangling")' BY <2>1 DEF Frame, Happened
  <2> QED BY <1>11, <2>2, <2>3, FrameEndsFrame DEF WaitEnds
<1>12. ASSUME NEW i \in Slot, Called(i) PROVE Frame' BY <1>12, CalledFrame
<1>13. ASSUME NEW i \in Slot, CountAnswer(i) PROVE Frame' BY <1>13, CountedFrame
<1>14. CASE JoinCheck
  <2>1. CASE joined
    <3>1. /\ ~Sending /\ ~Sending' /\ UNCHANGED <<callables, history, joined>>
      BY <1>14, <2>1 DEF JoinCheck, JoinReturns
    <3>2. (\A i \in Slot : callables'[i] = None) /\ DOMAIN callables' = Slot
      BY <3>1 DEF Frame, TypeInv
    <3>3. ~Happened("dangling")' BY <3>1 DEF Frame, Happened
    <3> QED BY <2>1, <3>1, <3>2, <3>3, FrameStarts
  <2>2. CASE ~joined BY <1>14, <2>2, <1>u DEF JoinCheck
  <2> QED BY <2>1, <2>2
<1>15. CASE JoinWait BY <1>15, <1>u DEF JoinWait
<1>16. CASE JoinWaitEnds
  <2>1. /\ notified /\ pc = "joinwait" /\ ~Sending /\ ~Sending'
        /\ UNCHANGED <<callables, history, joined>>
    BY <1>16 DEF JoinWaitEnds, JoinReturns, Happened
  <2>2. joined BY <2>1 DEF NotifiedInv
  <2>3. (\A i \in Slot : callables'[i] = None) /\ DOMAIN callables' = Slot
    BY <2>1 DEF Frame, TypeInv
  <2>4. ~Happened("dangling")' BY <2>1 DEF Frame, Happened
  <2> QED BY <2>1, <2>2, <2>3, <2>4, FrameStarts
<1>17. CASE NetworkStatus
  <2>1. /\ UNCHANGED <<callables, send, operation_count, network_status, history, pc>>
        /\ joined' /\ (pc = "waiting" /\ notified' => notified)
    BY <1>17, Zenon DEF NetworkStatus, Frame
  <2>2. Owed' = Owed /\ Total' = Total BY <2>1 DEF Owed, Total
  <2> QED BY <2>1, <2>2 DEF Frame, CountInv, Happened
<1>18. CASE MarkResultArrived \/ ResultArrived
  BY <1>18, <1>u DEF MarkResultArrived, ResultArrived
<1>19. CASE UNCHANGED vars BY <1>19, <1>k DEF vars
<1> QED
  BY <1>1, <1>2, <1>3, <1>4, <1>5, <1>6, <1>7, <1>8, <1>9, <1>10, <1>11, <1>12, <1>13, <1>14, <1>15,
     <1>16, <1>17, <1>18, <1>19 DEF Next, Command

\* What has happened has happened.
LEMMA HistoryGrows == ASSUME TypeInv, [Next]_vars PROVE history \subseteq history'
<1> USE DEF mainVars, sendVars, resultVars
<1>1. \A i \in Slot : Called(i) => history \subseteq history' BY CalledFacts
<1> QED
  BY <1>1, Zenon
  DEF Next, Command, vars, KeyHelper, Main, SimpleCommand, Tune, ZeroStateJoin, Join, SendMessages,
      PerformanceTest, SendAMessage, CheckCount, WaitEnds, CountAnswer, JoinCheck, JoinWait,
      JoinWaitEnds, NetworkStatus, MarkResultArrived, ResultArrived

LEMMA NextIInv == ASSUME IInv, [Next]_vars PROVE IInv'
<1>1. TypeInv' /\ CrashInv' /\ TimeoutInv' /\ NotifiedInv'
  BY TypeStep, CrashStep, TimeoutStep, NotifiedStep DEF IInv
<1>2. FrameInv'
  <2>1. CASE Happened("woke") BY <2>1, HistoryGrows DEF FrameInv, Happened, IInv
  <2>2. CASE Frame BY <2>2, FrameStep DEF FrameInv, Frame, IInv
  <2> QED BY <2>1, <2>2, FrameMeans DEF IInv
<1> QED BY <1>1, <1>2 DEF IInv

LEMMA Invariant == Spec => []IInv
<1>1. IInv /\ [Next]_vars => IInv' BY NextIInv
<1> QED BY <1>1, InitIInv, PTL DEF Spec
-----------------------------------------------------------------------------
\* No callback uses local variables of a SendMessages or a Join that has returned,
\* unless a wait ended that nobody had notified.
THEOREM CallbacksFindFrames == Spec => []FramesOutliveCallbacks
<1>1. IInv => FramesOutliveCallbacks BY DEF IInv, FrameInv, FramesOutliveCallbacks
<1> QED BY <1>1, Invariant, PTL

\* No command indexes outside the keys or divides by zero with at least two keys
\* and the default sizes.
THEOREM DefaultsAreSafe == Spec => []NoCrashAtDefaults
<1>1. IInv => NoCrashAtDefaults BY DEF IInv, CrashInv
<1> QED BY <1>1, Invariant, PTL

\* The response timeout at the prompt is the one the node was started with, unless
\* a send was refused for its index.
THEOREM TimeoutIsRestored == Spec => []TimeoutRestored
<1>1. IInv => TimeoutRestored BY DEF IInv, TimeoutInv, TimeoutRestored, Sending
<1> QED BY <1>1, Invariant, PTL

=============================================================================
