------------------------- MODULE SessionCallsProofs -------------------------
(***************************************************************************)
(* IInv is an inductive invariant of SessionCalls, for any set of calls,   *)
(* any capacity of the write channel and any executor; the safety          *)
(* properties of the calling side follow from it.  One lemma per action,   *)
(* one step per conjunct of IInv.  The second half extends it to RInv, on  *)
(* which the refinement of RpcCall rests.                                  *)
(***************************************************************************)
EXTENDS SessionCalls, TLAPS

\* The tuples of variables and the enumerations are always expanded.
USE SessionAssumption
  DEF callVars, managerVars, writeVars, readVars, closeVars, netVars,
      AnswerKind, Nothing, Aborted, NoHeld, PCs, Timers, Failures, Outcomes,
      Stages, TypeOK, ReaderSuspended

-----------------------------------------------------------------------------
(* What the sequence operators of the model return *)

\* Append adds one element at the end (a send that is buffered).
LEMMA AppendFacts ==
  ASSUME NEW S, NEW s \in Seq(S), NEW x \in S
  PROVE  /\ Append(s, x) \in Seq(S)
         /\ Len(Append(s, x)) = Len(s) + 1
         /\ \A i \in 1 .. Len(s) + 1 :
              Append(s, x)[i] = IF i <= Len(s) THEN s[i] ELSE x
  OBVIOUS

\* Tail drops the first element (a receive from a channel).
LEMMA TailFacts ==
  ASSUME NEW S, NEW s \in Seq(S), s # <<>>
  PROVE  /\ Len(s) \in Nat \ {0}
         /\ Head(s) = s[1]
         /\ s[1] \in S
         /\ Tail(s) \in Seq(S)
         /\ Len(Tail(s)) = Len(s) - 1
         /\ \A i \in 1 .. Len(s) - 1 : Tail(s)[i] = s[i + 1]
  OBVIOUS

\* Tail, then Append: a receive that lets a suspended sender in.
LEMMA ShiftFacts ==
  ASSUME NEW S, NEW s \in Seq(S), s # <<>>, NEW x \in S
  PROVE  /\ Append(Tail(s), x) \in Seq(S)
         /\ Len(Append(Tail(s), x)) = Len(s)
         /\ \A i \in 1 .. Len(s) :
              Append(Tail(s), x)[i] = IF i < Len(s) THEN s[i + 1] ELSE x
<1> DEFINE r == Tail(s)
<1>1. /\ r \in Seq(S)
      /\ Len(s) \in Nat \ {0}
      /\ Len(r) = Len(s) - 1
      /\ \A i \in 1 .. Len(s) - 1 : r[i] = s[i + 1]
  BY TailFacts
<1> SUFFICES /\ Append(r, x) \in Seq(S)
             /\ Len(Append(r, x)) = Len(s)
             /\ \A i \in 1 .. Len(s) :
                  Append(r, x)[i] = IF i < Len(s) THEN s[i + 1] ELSE x
  BY Zenon
<1> HIDE DEF r
<1> QED
  BY <1>1

\* The sequence of one element (the item the writer holds).
LEMMA SingletonFacts ==
  ASSUME NEW S, NEW x \in S
  PROVE  <<x>> \in Seq(S) /\ Len(<<x>>) = 1 /\ <<x>>[1] = x
  OBVIOUS

-----------------------------------------------------------------------------
(* Every action preserves IInv *)

\* create_operation registers a fresh token.
LEMMA CreateOperationStep ==
  ASSUME IInv, NEW c \in Calls, CreateOperation(c)
  PROVE  IInv'
<1> USE DEF IInv, CreateOperation, generate_token, Put
<1>1. CallTypes'
  BY DEF CallTypes, ManagerTypes
<1>2. ManagerTypes'
  BY DEF ManagerTypes
<1>3. WriteTypes'
  BY DEF WriteTypes
<1>4. ReadTypes'
  BY DEF ReadTypes
<1>5. CloseTypes'
  BY DEF CloseTypes
<1>6. NetTypes'
  BY DEF NetTypes
<1>7. TokenInv'
  BY DEF TokenInv, WireInv, CallTypes, ManagerTypes
<1>8. WireInv'
  <2>1. \A i : Genuine(i) => Genuine(i)'
    BY DEF TokenInv, Genuine, CallTypes
  <2> QED
    BY <2>1 DEF WireInv, TokenInv, CallTypes
<1>9. OwnershipInv'
  BY DEF OwnershipInv, Untouched, InReaderHand, TokenInv, CallTypes,
         ManagerTypes, ReadTypes, CloseTypes
<1>10. WaiterInv'
  BY DEF WaiterInv, Owed, Untouched, InReaderHand, OwnershipInv, TokenInv,
         CloseInv, CallTypes, ManagerTypes, ReadTypes, CloseTypes
<1>11. AnswerInv'
  BY DEF AnswerInv, OwnershipInv, Untouched, InReaderHand, CallTypes,
         ReadTypes
<1>12. CloseInv'
  BY DEF CloseInv, OwnershipInv, Untouched, InReaderHand, AnswerInv,
         CallTypes, ManagerTypes, CloseTypes
<1> QED
  BY <1>1, <1>2, <1>3, <1>4, <1>5, <1>6, <1>7, <1>8, <1>9, <1>10, <1>11, <1>12 DEF TypeOK

\* queue_write hands over, buffers or parks the request.
LEMMA QueueWriteStep ==
  ASSUME IInv, NEW c \in Calls, QueueWrite(c)
  PROVE  IInv'
<1> USE DEF IInv, QueueWrite, write_open, HasRoom
<1> DEFINE item == [token |-> token[c], call |-> c]
<1>a. item \in Item /\ Genuine(item)
  BY DEF Genuine, TokenInv, Item, CallTypes
<1>b. /\ pc[c] = "registered"
      /\ \/ pc' = [pc EXCEPT ![c] = "sent"] /\ UNCHANGED parked
         \/ pc' = [pc EXCEPT ![c] = "parked"] /\ parked' = Append(parked, item)
  OBVIOUS
<1>c. \/ /\ write_buf' = write_buf
         /\ writing' = <<item>>
         /\ writer' = "writing"
      \/ /\ write_buf' = Append(write_buf, item)
         /\ Len(write_buf) < WriteCap
         /\ UNCHANGED <<writing, writer>>
      \/ UNCHANGED <<write_buf, writing, writer>>
  OBVIOUS
<1>d. UNCHANGED <<token, timer, timed_out, inbox, ready, chan_open, outcome,
                  managerVars, readVars, closeVars, netVars>>
  OBVIOUS
<1>e. write_open
  OBVIOUS
<1>f. /\ Append(write_buf, item) \in Seq(Item)
      /\ Len(Append(write_buf, item)) = Len(write_buf) + 1
      /\ \A i \in 1 .. Len(write_buf) + 1 : Append(write_buf, item)[i] =
           IF i <= Len(write_buf) THEN write_buf[i] ELSE item
  BY <1>a, AppendFacts DEF WriteTypes
<1>g. /\ Append(parked, item) \in Seq(Item)
      /\ Len(Append(parked, item)) = Len(parked) + 1
      /\ \A i \in 1 .. Len(parked) + 1 : Append(parked, item)[i] =
           IF i <= Len(parked) THEN parked[i] ELSE item
  BY <1>a, AppendFacts DEF WriteTypes
<1>h. Len(write_buf) \in Nat /\ Len(parked) \in Nat
  BY DEF WriteTypes
<1> HIDE DEF QueueWrite, item
<1>1. CallTypes'
  BY <1>b, <1>d DEF CallTypes
<1>2. ManagerTypes'
  BY <1>b, <1>d DEF ManagerTypes
<1>3. WriteTypes'
  <2>1. write_buf' \in Seq(Item) /\ Len(write_buf') <= WriteCap
    <3>1. CASE write_buf' = write_buf
      BY <3>1 DEF WriteTypes
    <3>2. CASE write_buf' = Append(write_buf, item) /\ Len(write_buf) < WriteCap
      BY <3>2, <1>f, <1>h
    <3> QED
      BY <1>c, <3>1, <3>2
  <2>2. parked' \in Seq(Item)
    BY <1>b, <1>g DEF WriteTypes
  <2>3. /\ writer' \in {"receiving", "writing", "exited"}
        /\ writing' \in Seq(Item)
        /\ Len(writing') = (IF writer' = "writing" THEN 1 ELSE 0)
    BY <1>a, <1>c, SingletonFacts DEF WriteTypes
  <2> QED
    BY <2>1, <2>2, <2>3 DEF WriteTypes
<1>4. ReadTypes'
  BY <1>b, <1>d DEF ReadTypes
<1>5. CloseTypes'
  BY <1>b, <1>d DEF CloseTypes
<1>6. NetTypes'
  BY <1>b, <1>d DEF NetTypes
<1>7. TokenInv'
  BY <1>b, <1>d DEF TokenInv, CallTypes, ManagerTypes
<1>8. WireInv'
  <2>1. \A i : Genuine(i)' = Genuine(i)
    BY <1>d DEF Genuine
  <2>2. \A i \in 1 .. Len(write_buf') : Genuine(write_buf'[i])
    <3>1. CASE write_buf' = write_buf
      BY <3>1 DEF WireInv
    <3>2. CASE write_buf' = Append(write_buf, item)
      BY <3>2, <1>a, <1>f, <1>h DEF WireInv
    <3> QED
      BY <1>c, <3>1, <3>2
  <2>3. \A i \in 1 .. Len(writing') : Genuine(writing'[i])
    BY <1>a, <1>c, SingletonFacts DEF WireInv
  <2>4. /\ \A i \in 1 .. Len(parked') :
             /\ Genuine(parked'[i])
             /\ parked'[i].call \in Calls => pc'[parked'[i].call] = "parked"
             /\ parked'[i].call = NoCall => ReaderSuspended
        /\ \A i, j \in 1 .. Len(parked') :
             parked'[i].call = parked'[j].call => i = j
    <3>1. CASE UNCHANGED parked /\ pc' = [pc EXCEPT ![c] = "sent"]
      BY <1>b, <3>1 DEF WireInv, CallTypes
    <3>2. CASE /\ parked' = Append(parked, item)
               /\ pc' = [pc EXCEPT ![c] = "parked"]
      <4>1. \A i \in 1 .. Len(parked) : parked[i].call # c
        BY <1>b DEF WireInv
      <4>2. item.call = c
        BY DEF item
      <4> QED
        BY <1>a, <1>g, <1>h, <3>2, <4>1, <4>2 DEF WireInv, CallTypes
    <3> QED
      BY <1>b, <3>1, <3>2
  <2> QED
    BY <1>d, <2>1, <2>2, <2>3, <2>4 DEF WireInv
<1>9. OwnershipInv'
  <2>1. \A d \in Calls : pc'[d] = "idle" <=> pc[d] = "idle"
    BY <1>b DEF CallTypes
  <2> QED
    BY <1>d, <2>1 DEF OwnershipInv, Untouched, InReaderHand, CloseTypes, ReadTypes, Held
<1>10. WaiterInv'
  BY <1>b, <1>d DEF WaiterInv, Owed, Untouched, InReaderHand, CallTypes
<1>11. AnswerInv'
  BY <1>b, <1>d DEF AnswerInv, CallTypes
<1>12. CloseInv'
  BY <1>b, <1>d, <1>e DEF CloseInv, CallTypes, ManagerTypes
<1> QED
  BY <1>1, <1>2, <1>3, <1>4, <1>5, <1>6, <1>7, <1>8, <1>9, <1>10, <1>11, <1>12 DEF TypeOK

\* queue_write throws on a closed channel.
LEMMA SendFailsStep ==
  ASSUME IInv, NEW c \in Calls, SendFails(c)
  PROVE  IInv'
<1> USE DEF IInv, SendFails, write_open
<1>1. CallTypes'
  BY DEF CallTypes
<1>2. ManagerTypes'
  BY DEF ManagerTypes
<1>3. WriteTypes'
  BY DEF WriteTypes
<1>4. ReadTypes'
  BY DEF ReadTypes
<1>5. CloseTypes'
  BY DEF CloseTypes
<1>6. NetTypes'
  BY DEF NetTypes
<1>7. TokenInv'
  BY DEF TokenInv, WireInv, CallTypes, ManagerTypes
<1>8. WireInv'
  BY DEF WireInv, Genuine, TokenInv, CallTypes, WriteTypes, NetTypes
<1>9. OwnershipInv'
  BY DEF OwnershipInv, Untouched, InReaderHand, TokenInv, CallTypes,
         ManagerTypes, ReadTypes, CloseTypes
<1>10. WaiterInv'
  BY DEF WaiterInv, Owed, Untouched, InReaderHand, OwnershipInv, TokenInv,
         CloseInv, CallTypes, ManagerTypes, ReadTypes, CloseTypes
<1>11. AnswerInv'
  BY DEF AnswerInv, OwnershipInv, Untouched, InReaderHand, CallTypes,
         ReadTypes
<1>12. CloseInv'
  BY DEF CloseInv, OwnershipInv, Untouched, InReaderHand, AnswerInv,
         CallTypes, ManagerTypes, CloseTypes
<1> QED
  BY <1>1, <1>2, <1>3, <1>4, <1>5, <1>6, <1>7, <1>8, <1>9, <1>10, <1>11, <1>12 DEF TypeOK

\* try_send of a notification.
LEMMA TryNotifyStep ==
  ASSUME IInv, TryNotify
  PROVE  IInv'
<1> USE DEF IInv, TryNotify, write_open, HasRoom, Notification
<1>a. Notification \in Item /\ Genuine(Notification)
  BY DEF Genuine, Item
<1>c. \/ /\ write_buf' = write_buf
         /\ writing' = <<Notification>>
         /\ writer' = "writing"
      \/ /\ write_buf' = Append(write_buf, Notification)
         /\ Len(write_buf) < WriteCap
         /\ UNCHANGED <<writing, writer>>
  OBVIOUS
<1>f. /\ Append(write_buf, Notification) \in Seq(Item)
      /\ Len(Append(write_buf, Notification)) = Len(write_buf) + 1
      /\ \A i \in 1 .. Len(write_buf) + 1 : Append(write_buf, Notification)[i] =
           IF i <= Len(write_buf) THEN write_buf[i] ELSE Notification
  BY <1>a, AppendFacts DEF WriteTypes
<1>h. Len(write_buf) \in Nat
  BY DEF WriteTypes
<1> HIDE DEF Notification
<1>1. CallTypes'
  BY DEF CallTypes
<1>2. ManagerTypes'
  BY DEF ManagerTypes
<1>3. WriteTypes'
  <2>1. write_buf' \in Seq(Item) /\ Len(write_buf') <= WriteCap
    <3>1. CASE write_buf' = write_buf
      BY <3>1 DEF WriteTypes
    <3>2. CASE /\ write_buf' = Append(write_buf, Notification)
               /\ Len(write_buf) < WriteCap
      <4>1. Len(write_buf') = Len(write_buf) + 1
        BY <1>f, <3>2
      <4>2. Len(write_buf') <= WriteCap
        BY <1>h, <3>2, <4>1, SessionAssumption
      <4> QED
        BY <1>f, <3>2, <4>2
    <3> QED
      BY <1>c, <3>1, <3>2
  <2>2. /\ writer' \in {"receiving", "writing", "exited"}
        /\ writing' \in Seq(Item)
        /\ Len(writing') = (IF writer' = "writing" THEN 1 ELSE 0)
    BY <1>a, <1>c, SingletonFacts DEF WriteTypes
  <2> QED
    BY <2>1, <2>2 DEF WriteTypes
<1>4. ReadTypes'
  BY DEF ReadTypes
<1>5. CloseTypes'
  BY DEF CloseTypes
<1>6. NetTypes'
  BY DEF NetTypes
<1>7. TokenInv'
  BY DEF TokenInv, WireInv, CallTypes, ManagerTypes
<1>8. WireInv'
  <2>1. \A i : Genuine(i)' = Genuine(i)
    BY DEF Genuine
  <2>2. \A i \in 1 .. Len(write_buf') : Genuine(write_buf'[i])
    BY <1>a, <1>c, <1>f, <1>h DEF WireInv
  <2>3. \A i \in 1 .. Len(writing') : Genuine(writing'[i])
    BY <1>a, <1>c, SingletonFacts DEF WireInv, WriteTypes
  <2> QED
    BY <2>1, <2>2, <2>3 DEF WireInv
<1>9. OwnershipInv'
  BY DEF OwnershipInv, Untouched, InReaderHand, TokenInv, CallTypes,
         ManagerTypes, ReadTypes, CloseTypes
<1>10. WaiterInv'
  BY DEF WaiterInv, Owed, Untouched, InReaderHand, OwnershipInv, TokenInv,
         CloseInv, CallTypes, ManagerTypes, ReadTypes, CloseTypes
<1>11. AnswerInv'
  BY DEF AnswerInv, OwnershipInv, Untouched, InReaderHand, CallTypes,
         ReadTypes
<1>12. CloseInv'
  BY DEF CloseInv, OwnershipInv, Untouched, InReaderHand, AnswerInv,
         CallTypes, ManagerTypes, CloseTypes
<1> QED
  BY <1>1, <1>2, <1>3, <1>4, <1>5, <1>6, <1>7, <1>8, <1>9, <1>10, <1>11, <1>12 DEF TypeOK

\* call() starts its timer once the request is queued.
LEMMA ArmTimerStep ==
  ASSUME IInv, NEW c \in Calls, ArmTimer(c)
  PROVE  IInv'
<1> USE DEF IInv, ArmTimer
<1>1. CallTypes'
  BY DEF CallTypes
<1>2. ManagerTypes'
  BY DEF ManagerTypes
<1>3. WriteTypes'
  BY DEF WriteTypes
<1>4. ReadTypes'
  BY DEF ReadTypes
<1>5. CloseTypes'
  BY DEF CloseTypes
<1>6. NetTypes'
  BY DEF NetTypes
<1>7. TokenInv'
  BY DEF TokenInv, WireInv, CallTypes, ManagerTypes
<1>8. WireInv'
  BY DEF WireInv, Genuine, TokenInv, CallTypes, WriteTypes, NetTypes
<1>9. OwnershipInv'
  BY DEF OwnershipInv, Untouched, InReaderHand, TokenInv, CallTypes,
         ManagerTypes, ReadTypes, CloseTypes
<1>10. WaiterInv'
  BY DEF WaiterInv, Owed, Untouched, InReaderHand, OwnershipInv, TokenInv,
         CloseInv, CallTypes, ManagerTypes, ReadTypes, CloseTypes
<1>11. AnswerInv'
  BY DEF AnswerInv, OwnershipInv, Untouched, InReaderHand, CallTypes,
         ReadTypes
<1>12. CloseInv'
  BY DEF CloseInv, OwnershipInv, Untouched, InReaderHand, AnswerInv,
         CallTypes, ManagerTypes, CloseTypes
<1> QED
  BY <1>1, <1>2, <1>3, <1>4, <1>5, <1>6, <1>7, <1>8, <1>9, <1>10, <1>11, <1>12 DEF TypeOK

\* async_receive on the response channel.
LEMMA BeginReceiveStep ==
  ASSUME IInv, NEW c \in Calls, BeginReceive(c)
  PROVE  IInv'
<1> USE DEF IInv, BeginReceive, CallerRuns
<1>a. pc' = [pc EXCEPT ![c] = "resumed"] \/ pc' = [pc EXCEPT ![c] = "receiving"]
  OBVIOUS
<1>b. \/ ready' = [ready EXCEPT ![c] = inbox[c]] /\ inbox[c] # Nothing
      \/ ready' = [ready EXCEPT ![c] = Aborted]
      \/ ready' = ready
  OBVIOUS
<1>c. inbox' = [inbox EXCEPT ![c] = Nothing] \/ inbox' = inbox
  OBVIOUS
<1>1. CallTypes'
  <2>1. pc' \in [Calls -> PCs]
    BY <1>a DEF CallTypes
  <2>2. ready' \in [Calls -> Message \cup {Nothing, Aborted}]
    BY <1>b DEF CallTypes
  <2>3. inbox' \in [Calls -> Message \cup {Nothing}]
    BY <1>c DEF CallTypes
  <2> QED
    BY <2>1, <2>2, <2>3 DEF CallTypes
<1>2. ManagerTypes'
  BY DEF ManagerTypes
<1>3. WriteTypes'
  BY DEF WriteTypes
<1>4. ReadTypes'
  BY DEF ReadTypes
<1>5. CloseTypes'
  BY DEF CloseTypes
<1>6. NetTypes'
  BY DEF NetTypes
<1>7. TokenInv'
  BY DEF TokenInv, WireInv, CallTypes, ManagerTypes
<1>8. WireInv'
  BY DEF WireInv, Genuine, TokenInv, CallTypes, WriteTypes, NetTypes
<1>9. OwnershipInv'
  <2>1. \A d \in Calls : pc'[d] = "idle" <=> pc[d] = "idle"
    BY DEF CallTypes
  <2> QED
    BY <2>1 DEF OwnershipInv, Untouched, InReaderHand, TokenInv, CallTypes,
         ManagerTypes, ReadTypes, CloseTypes, Held
<1>10. WaiterInv'
  BY DEF WaiterInv, Owed, Untouched, InReaderHand, OwnershipInv, TokenInv,
         CloseInv, CallTypes, ManagerTypes, ReadTypes, CloseTypes
<1>11. AnswerInv'
  BY DEF AnswerInv, OwnershipInv, Untouched, InReaderHand, CallTypes,
         ReadTypes
<1>12. CloseInv'
  <2>1. ASSUME NEW t \in DOMAIN channels_, channels_[t] = c
        PROVE  pc' = [pc EXCEPT ![c] = "receiving"]
    BY <2>1 DEF OwnershipInv, Untouched, ManagerTypes
  <2> QED
    BY <1>a, <2>1 DEF CloseInv, CallTypes, ManagerTypes
<1> QED
  BY <1>1, <1>2, <1>3, <1>4, <1>5, <1>6, <1>7, <1>8, <1>9, <1>10, <1>11, <1>12 DEF TypeOK

\* call() returns.
LEMMA ResumeStep ==
  ASSUME IInv, NEW c \in Calls, Resume(c)
  PROVE  IInv'
<1> USE DEF IInv, Resume, CallerRuns, OutcomeOf
<1>1. CallTypes'
  BY DEF CallTypes
<1>2. ManagerTypes'
  BY DEF ManagerTypes
<1>3. WriteTypes'
  BY DEF WriteTypes
<1>4. ReadTypes'
  BY DEF ReadTypes
<1>5. CloseTypes'
  BY DEF CloseTypes
<1>6. NetTypes'
  BY DEF NetTypes
<1>7. TokenInv'
  BY DEF TokenInv, WireInv, CallTypes, ManagerTypes
<1>8. WireInv'
  BY DEF WireInv, Genuine, TokenInv, CallTypes, WriteTypes, NetTypes
<1>9. OwnershipInv'
  BY DEF OwnershipInv, Untouched, InReaderHand, TokenInv, CallTypes,
         ManagerTypes, ReadTypes, CloseTypes
<1>10. WaiterInv'
  BY DEF WaiterInv, Owed, Untouched, InReaderHand, OwnershipInv, TokenInv,
         CloseInv, CallTypes, ManagerTypes, ReadTypes, CloseTypes
<1>11. AnswerInv'
  BY DEF AnswerInv, OwnershipInv, Untouched, InReaderHand, CallTypes,
         ReadTypes
<1>12. CloseInv'
  BY DEF CloseInv, OwnershipInv, Untouched, InReaderHand, AnswerInv,
         CallTypes, ManagerTypes, CloseTypes
<1> QED
  BY <1>1, <1>2, <1>3, <1>4, <1>5, <1>6, <1>7, <1>8, <1>9, <1>10, <1>11, <1>12 DEF TypeOK

\* The timer expires and its handler tests finished.
LEMMA TimerFiresStep ==
  ASSUME IInv, NEW c \in Calls, TimerFires(c)
  PROVE  IInv'
<1> USE DEF IInv, TimerFires, finished
<1>1. CallTypes'
  BY DEF CallTypes
<1>2. ManagerTypes'
  BY DEF ManagerTypes
<1>3. WriteTypes'
  BY DEF WriteTypes
<1>4. ReadTypes'
  BY DEF ReadTypes
<1>5. CloseTypes'
  BY DEF CloseTypes
<1>6. NetTypes'
  BY DEF NetTypes
<1>7. TokenInv'
  BY DEF TokenInv, WireInv, CallTypes, ManagerTypes
<1>8. WireInv'
  BY DEF WireInv, Genuine, TokenInv, CallTypes, WriteTypes, NetTypes
<1>9. OwnershipInv'
  BY DEF OwnershipInv, Untouched, InReaderHand, TokenInv, CallTypes,
         ManagerTypes, ReadTypes, CloseTypes
<1>10. WaiterInv'
  BY DEF WaiterInv, Owed, Untouched, InReaderHand, OwnershipInv, TokenInv,
         CloseInv, CallTypes, ManagerTypes, ReadTypes, CloseTypes
<1>11. AnswerInv'
  BY DEF AnswerInv, OwnershipInv, Untouched, InReaderHand, CallTypes,
         ReadTypes
<1>12. CloseInv'
  BY DEF CloseInv, OwnershipInv, Untouched, InReaderHand, AnswerInv,
         CallTypes, ManagerTypes, CloseTypes
<1> QED
  BY <1>1, <1>2, <1>3, <1>4, <1>5, <1>6, <1>7, <1>8, <1>9, <1>10, <1>11, <1>12 DEF TypeOK

\* The handler sets timed_out.
LEMMA TimerFlagsStep ==
  ASSUME IInv, NEW c \in Calls, TimerFlags(c)
  PROVE  IInv'
<1> USE DEF IInv, TimerFlags
<1>1. CallTypes'
  BY DEF CallTypes
<1>2. ManagerTypes'
  BY DEF ManagerTypes
<1>3. WriteTypes'
  BY DEF WriteTypes
<1>4. ReadTypes'
  BY DEF ReadTypes
<1>5. CloseTypes'
  BY DEF CloseTypes
<1>6. NetTypes'
  BY DEF NetTypes
<1>7. TokenInv'
  BY DEF TokenInv, WireInv, CallTypes, ManagerTypes
<1>8. WireInv'
  BY DEF WireInv, Genuine, TokenInv, CallTypes, WriteTypes, NetTypes
<1>9. OwnershipInv'
  BY DEF OwnershipInv, Untouched, InReaderHand, TokenInv, CallTypes,
         ManagerTypes, ReadTypes, CloseTypes
<1>10. WaiterInv'
  BY DEF WaiterInv, Owed, Untouched, InReaderHand, OwnershipInv, TokenInv,
         CloseInv, CallTypes, ManagerTypes, ReadTypes, CloseTypes
<1>11. AnswerInv'
  BY DEF AnswerInv, OwnershipInv, Untouched, InReaderHand, CallTypes,
         ReadTypes
<1>12. CloseInv'
  BY DEF CloseInv, OwnershipInv, Untouched, InReaderHand, AnswerInv,
         CallTypes, ManagerTypes, CloseTypes
<1> QED
  BY <1>1, <1>2, <1>3, <1>4, <1>5, <1>6, <1>7, <1>8, <1>9, <1>10, <1>11, <1>12 DEF TypeOK

\* The timeout handler cancels the channel.
LEMMA TimerCancelsStep ==
  ASSUME IInv, NEW c \in Calls, TimerCancels(c)
  PROVE  IInv'
<1> USE DEF IInv, TimerCancels
<1>1. CallTypes'
  BY DEF CallTypes
<1>2. ManagerTypes'
  BY DEF ManagerTypes
<1>3. WriteTypes'
  BY DEF WriteTypes
<1>4. ReadTypes'
  BY DEF ReadTypes
<1>5. CloseTypes'
  BY DEF CloseTypes
<1>6. NetTypes'
  BY DEF NetTypes
<1>7. TokenInv'
  BY DEF TokenInv, WireInv, CallTypes, ManagerTypes
<1>8. WireInv'
  BY DEF WireInv, Genuine, TokenInv, CallTypes, WriteTypes, NetTypes
<1>9. OwnershipInv'
  <2>1. \A d \in Calls : pc'[d] = "idle" <=> pc[d] = "idle"
    BY DEF CallTypes
  <2> QED
    BY <2>1 DEF OwnershipInv, Untouched, InReaderHand, TokenInv, CallTypes,
         ManagerTypes, ReadTypes, CloseTypes, Held
<1>10. WaiterInv'
  BY DEF WaiterInv, Owed, Untouched, InReaderHand, OwnershipInv, TokenInv,
         CloseInv, CallTypes, ManagerTypes, ReadTypes, CloseTypes
<1>11. AnswerInv'
  BY DEF AnswerInv, OwnershipInv, Untouched, InReaderHand, CallTypes,
         ReadTypes
<1>12. CloseInv'
  BY DEF CloseInv, OwnershipInv, Untouched, InReaderHand, AnswerInv,
         CallTypes, ManagerTypes, CloseTypes
<1> QED
  BY <1>1, <1>2, <1>3, <1>4, <1>5, <1>6, <1>7, <1>8, <1>9, <1>10, <1>11, <1>12 DEF TypeOK

\* msg_writer receives an item and lets a suspended sender in.
LEMMA WriterTakesStep ==
  ASSUME IInv, WriterTakes
  PROVE  IInv'
<1> USE DEF IInv, WriterTakes
<1> DEFINE d == Head(parked).call
<1>a. /\ write_buf[1] \in Item
      /\ Head(write_buf) = write_buf[1]
      /\ Tail(write_buf) \in Seq(Item)
      /\ Len(Tail(write_buf)) = Len(write_buf) - 1
      /\ Len(write_buf) \in Nat \ {0}
      /\ \A i \in 1 .. Len(write_buf) - 1 : Tail(write_buf)[i] = write_buf[i + 1]
  BY TailFacts DEF WriteTypes
<1>0. /\ writer' = "writing"
      /\ writing' = <<write_buf[1]>>
      /\ UNCHANGED <<token, timer, timed_out, inbox, ready, chan_open, outcome,
                     managerVars, held, closeVars, netVars>>
  BY <1>a
<1>b. CASE parked = <<>>
  <2>1. UNCHANGED <<callVars, parked, reader>> /\ write_buf' = Tail(write_buf)
    BY <1>b
  <2> HIDE DEF WriterTakes
  <2>2. WriteTypes'
    BY <1>0, <1>a, <2>1, SingletonFacts DEF WriteTypes
  <2>3. CallTypes' /\ ManagerTypes' /\ ReadTypes' /\ CloseTypes' /\ NetTypes'
    BY <1>0, <2>1 DEF CallTypes, ManagerTypes, ReadTypes, CloseTypes, NetTypes
  <2>4. WireInv'
    <3>1. \A i : Genuine(i)' = Genuine(i)
      BY <2>1 DEF Genuine
    <3>2. \A i \in 1 .. Len(write_buf') : Genuine(write_buf'[i])
      BY <1>a, <2>1 DEF WireInv
    <3>3. \A i \in 1 .. Len(writing') : Genuine(writing'[i])
      BY <1>0, <1>a, SingletonFacts DEF WireInv
    <3> QED
      BY <1>0, <2>1, <3>1, <3>2, <3>3 DEF WireInv
  <2>5. TokenInv' /\ AnswerInv' /\ CloseInv'
    BY <1>0, <2>1 DEF TokenInv, AnswerInv, CloseInv
  <2>6. OwnershipInv' /\ WaiterInv'
    BY <1>0, <2>1 DEF OwnershipInv, WaiterInv, Untouched, InReaderHand, Owed
  <2> QED
    BY <2>2, <2>3, <2>4, <2>5, <2>6
<1>c. CASE parked # <<>>
  <2>1. /\ Head(parked) = parked[1]
        /\ parked[1] \in Item
        /\ Len(parked) \in Nat \ {0}
        /\ Tail(parked) \in Seq(Item)
        /\ Len(Tail(parked)) = Len(parked) - 1
        /\ \A i \in 1 .. Len(parked) - 1 : Tail(parked)[i] = parked[i + 1]
    BY <1>c, TailFacts DEF WriteTypes
  <2>2. /\ d \in Calls => pc[d] = "parked"
        /\ d = NoCall => reader \in {"responding", "rejecting"}
        /\ Genuine(parked[1])
        /\ \A i \in 2 .. Len(parked) : parked[i].call # d
    BY <2>1 DEF WireInv
  <2>3. /\ pc' = [c \in Calls |-> IF c = d THEN "sent" ELSE pc[c]]
        /\ reader' = IF d = NoCall THEN AfterRespond(reader) ELSE reader
        /\ parked' = Tail(parked)
        /\ write_buf' = Append(Tail(write_buf), parked[1])
    BY <1>c, <2>1
  <2>4. /\ write_buf' \in Seq(Item)
        /\ Len(write_buf') = Len(write_buf)
        /\ \A i \in 1 .. Len(write_buf) :
             write_buf'[i] = IF i < Len(write_buf) THEN write_buf[i + 1] ELSE parked[1]
    BY <2>1, <2>3, ShiftFacts DEF WriteTypes
  <2> HIDE DEF d, WriterTakes
  <2>a. /\ reader' = "completing" <=> reader = "completing"
        /\ reader' = reader \/ reader' \in {"reading", "closing"}
    BY <2>2, <2>3 DEF AfterRespond
  <2>b. \A c \in Calls : pc'[c] = pc[c] \/ (pc[c] = "parked" /\ pc'[c] = "sent")
    BY <2>2, <2>3
  <2>5. TypeOK'
    <3>1. WriteTypes'
      BY <1>0, <1>a, <2>1, <2>3, <2>4, SingletonFacts DEF WriteTypes
    <3>2. CallTypes'
      BY <1>0, <2>3 DEF CallTypes
    <3>3. ReadTypes'
      BY <1>0, <2>a DEF ReadTypes
    <3>4. ManagerTypes' /\ CloseTypes' /\ NetTypes'
      BY <1>0 DEF ManagerTypes, CloseTypes, NetTypes
    <3> QED
      BY <3>1, <3>2, <3>3, <3>4
  <2>6. TokenInv'
    BY <1>0, <2>b DEF TokenInv, CallTypes, ManagerTypes
  <2>7. WireInv'
    <3>1. \A i : Genuine(i)' = Genuine(i)
      BY <1>0 DEF Genuine
    <3>2. \A i \in 1 .. Len(write_buf') : Genuine(write_buf'[i])
      BY <1>a, <2>2, <2>4 DEF WireInv
    <3>3. \A i \in 1 .. Len(writing') : Genuine(writing'[i])
      BY <1>0, <1>a, SingletonFacts DEF WireInv
    <3>4. \A i \in 1 .. Len(parked') :
            /\ i + 1 \in 1 .. Len(parked) /\ i + 1 \in 2 .. Len(parked)
            /\ parked'[i] = parked[i + 1]
      BY <2>1, <2>3
    <3>5. \A i \in 1 .. Len(parked') :
            /\ Genuine(parked'[i])
            /\ parked'[i].call \in Calls => pc'[parked'[i].call] = "parked"
            /\ parked'[i].call = NoCall => reader' \in {"responding", "rejecting"}
      <4> TAKE i \in 1 .. Len(parked')
      <4>1. /\ Genuine(parked[i + 1])
            /\ parked[i + 1].call \in Calls => pc[parked[i + 1].call] = "parked"
            /\ parked[i + 1].call = NoCall => reader \in {"responding", "rejecting"}
            /\ parked[i + 1].call # d
        BY <2>2, <3>4 DEF WireInv
      <4> QED
        BY <2>3, <3>4, <4>1
    <3>6. \A i, j \in 1 .. Len(parked') :
            parked'[i].call = parked'[j].call => i = j
      <4> TAKE i, j \in 1 .. Len(parked')
      <4>1. parked'[i] = parked[i + 1] /\ parked'[j] = parked[j + 1]
        BY <3>4
      <4>2. i + 1 \in 1 .. Len(parked) /\ j + 1 \in 1 .. Len(parked)
        BY <3>4
      <4>3. parked[i + 1].call = parked[j + 1].call => i + 1 = j + 1
        BY <4>2 DEF WireInv
      <4> QED
        BY <4>1, <4>3
    <3> QED
      BY <1>0, <3>1, <3>2, <3>3, <3>5, <3>6 DEF WireInv
  <2>8. OwnershipInv' /\ WaiterInv'
    <3>1. \A c \in Calls : pc'[c] = "idle" <=> pc[c] = "idle"
      BY <2>b
    <3>2. OwnershipInv'
      BY <1>0, <2>a, <3>1 DEF OwnershipInv, Untouched, InReaderHand, ReadTypes, Held,
         CloseTypes
    <3>3. WaiterInv'
      BY <1>0, <2>a, <2>b DEF WaiterInv, Untouched, InReaderHand, Owed
    <3> QED
      BY <3>2, <3>3
  <2>9. AnswerInv' /\ CloseInv'
    BY <1>0, <2>b DEF AnswerInv, CloseInv, CallTypes, ManagerTypes
  <2> QED
    BY <2>5, <2>6, <2>7, <2>8, <2>9
<1> QED
  BY <1>b, <1>c

\* async_write completes, and a request reaches the peer.
LEMMA WriterWritesStep ==
  ASSUME IInv, WriterWrites
  PROVE  IInv'
<1> USE DEF IInv, WriterWrites, socket_open
<1>1. CallTypes'
  BY DEF CallTypes
<1>2. ManagerTypes'
  BY DEF ManagerTypes
<1>3. WriteTypes'
  BY DEF WriteTypes
<1>4. ReadTypes'
  BY DEF ReadTypes
<1>5. CloseTypes'
  BY DEF CloseTypes
<1>6. NetTypes'
  <2>1. writing \in Seq(Item) /\ Len(writing) = 1
    BY DEF WriteTypes
  <2>2. writing[1] \in Item
    BY <2>1
  <2> QED
    BY <2>2 DEF NetTypes
<1>7. TokenInv'
  BY DEF TokenInv, WireInv, CallTypes, ManagerTypes
<1>8. WireInv'
  <2>1. \A i : Genuine(i)' = Genuine(i)
    BY DEF Genuine
  <2>2. writing' = <<>> /\ Len(writing') = 0
    OBVIOUS
  <2>3. \A q \in requests' : q \in requests \/ (q = writing[1] /\ q.call # NoCall)
    OBVIOUS
  <2>4. writing[1] \in Item /\ Genuine(writing[1])
    BY DEF WireInv, WriteTypes
  <2>5. writing[1].call \in Calls \cup {NoCall}
    BY <2>4 DEF Item
  <2> QED
    BY <2>1, <2>2, <2>3, <2>4, <2>5 DEF WireInv
<1>9. OwnershipInv'
  BY DEF OwnershipInv, Untouched, InReaderHand, TokenInv, CallTypes,
         ManagerTypes, ReadTypes, CloseTypes
<1>10. WaiterInv'
  BY DEF WaiterInv, Owed, Untouched, InReaderHand, OwnershipInv, TokenInv,
         CloseInv, CallTypes, ManagerTypes, ReadTypes, CloseTypes
<1>11. AnswerInv'
  BY DEF AnswerInv, OwnershipInv, Untouched, InReaderHand, CallTypes,
         ReadTypes
<1>12. CloseInv'
  BY DEF CloseInv, OwnershipInv, Untouched, InReaderHand, AnswerInv,
         CallTypes, ManagerTypes, CloseTypes
<1> QED
  BY <1>1, <1>2, <1>3, <1>4, <1>5, <1>6, <1>7, <1>8, <1>9, <1>10, <1>11, <1>12 DEF TypeOK

\* async_write fails, and msg_writer calls close().
LEMMA WriterFailsStep ==
  ASSUME IInv, WriterFails
  PROVE  IInv'
<1> USE DEF IInv, WriterFails, Close
<1>1. CallTypes'
  BY DEF CallTypes
<1>2. ManagerTypes'
  BY DEF ManagerTypes
<1>3. WriteTypes'
  BY DEF WriteTypes
<1>4. ReadTypes'
  BY DEF ReadTypes
<1>5. CloseTypes'
  BY DEF CloseTypes
<1>6. NetTypes'
  BY DEF NetTypes
<1>7. TokenInv'
  BY DEF TokenInv, WireInv, CallTypes, ManagerTypes
<1>8. WireInv'
  BY DEF WireInv, Genuine, TokenInv, CallTypes, WriteTypes, NetTypes
<1>9. OwnershipInv'
  BY DEF OwnershipInv, Untouched, InReaderHand, TokenInv, CallTypes,
         ManagerTypes, ReadTypes, CloseTypes
<1>10. WaiterInv'
  BY DEF WaiterInv, Owed, Untouched, InReaderHand, OwnershipInv, TokenInv,
         CloseInv, CallTypes, ManagerTypes, ReadTypes, CloseTypes
<1>11. AnswerInv'
  BY DEF AnswerInv, OwnershipInv, Untouched, InReaderHand, CallTypes,
         ReadTypes
<1>12. CloseInv'
  BY DEF CloseInv, OwnershipInv, Untouched, InReaderHand, AnswerInv,
         CallTypes, ManagerTypes, CloseTypes
<1> QED
  BY <1>1, <1>2, <1>3, <1>4, <1>5, <1>6, <1>7, <1>8, <1>9, <1>10, <1>11, <1>12 DEF TypeOK

\* A closed write channel ends msg_writer.
LEMMA WriterExitsStep ==
  ASSUME IInv, WriterExits
  PROVE  IInv'
<1> USE DEF IInv, WriterExits, Close, write_open
<1>1. CallTypes'
  BY DEF CallTypes
<1>2. ManagerTypes'
  BY DEF ManagerTypes
<1>3. WriteTypes'
  BY DEF WriteTypes
<1>4. ReadTypes'
  BY DEF ReadTypes
<1>5. CloseTypes'
  BY DEF CloseTypes
<1>6. NetTypes'
  BY DEF NetTypes
<1>7. TokenInv'
  BY DEF TokenInv, WireInv, CallTypes, ManagerTypes
<1>8. WireInv'
  BY DEF WireInv, Genuine, TokenInv, CallTypes, WriteTypes, NetTypes
<1>9. OwnershipInv'
  BY DEF OwnershipInv, Untouched, InReaderHand, TokenInv, CallTypes,
         ManagerTypes, ReadTypes, CloseTypes
<1>10. WaiterInv'
  BY DEF WaiterInv, Owed, Untouched, InReaderHand, OwnershipInv, TokenInv,
         CloseInv, CallTypes, ManagerTypes, ReadTypes, CloseTypes
<1>11. AnswerInv'
  BY DEF AnswerInv, OwnershipInv, Untouched, InReaderHand, CallTypes,
         ReadTypes
<1>12. CloseInv'
  BY DEF CloseInv, OwnershipInv, Untouched, InReaderHand, AnswerInv,
         CallTypes, ManagerTypes, CloseTypes
<1> QED
  BY <1>1, <1>2, <1>3, <1>4, <1>5, <1>6, <1>7, <1>8, <1>9, <1>10, <1>11, <1>12 DEF TypeOK

\* complete_operation erases the entry.
LEMMA ReadFrameStep ==
  ASSUME IInv, NEW f \in inbound, ReadFrame(f)
  PROVE  IInv'
<1> USE DEF IInv, ReadFrame, socket_open, Erase
<1>1. CallTypes'
  BY DEF CallTypes
<1>2. ManagerTypes'
  BY DEF ManagerTypes
<1>3. WriteTypes'
  BY DEF WriteTypes
<1>4. ReadTypes'
  BY DEF ReadTypes, NetTypes, ManagerTypes, Frame, Held
<1>5. CloseTypes'
  BY DEF CloseTypes
<1>6. NetTypes'
  BY DEF NetTypes
<1>7. TokenInv'
  BY DEF TokenInv, WireInv, CallTypes, ManagerTypes
<1>8. WireInv'
  BY DEF WireInv, Genuine, TokenInv, CallTypes, WriteTypes, NetTypes
<1>9. OwnershipInv'
  BY DEF OwnershipInv, Untouched, InReaderHand, TokenInv, CallTypes,
         ManagerTypes, ReadTypes, CloseTypes, WireInv, NetTypes, Frame
<1>10. WaiterInv'
  BY DEF WaiterInv, Owed, Untouched, InReaderHand, OwnershipInv, TokenInv,
         CloseInv, CallTypes, ManagerTypes, ReadTypes, CloseTypes
<1>11. AnswerInv'
  BY DEF AnswerInv, OwnershipInv, Untouched, InReaderHand, CallTypes,
         ReadTypes
<1>12. CloseInv'
  BY DEF CloseInv, OwnershipInv, Untouched, InReaderHand, AnswerInv,
         CallTypes, ManagerTypes, CloseTypes
<1> QED
  BY <1>1, <1>2, <1>3, <1>4, <1>5, <1>6, <1>7, <1>8, <1>9, <1>10, <1>11, <1>12 DEF TypeOK

\* complete_operation sends to the response channel.
LEMMA CompleteSendStep ==
  ASSUME IInv, CompleteSend
  PROVE  IInv'
<1> USE DEF IInv, CompleteSend, Close
<1>0. /\ held.to \in Calls
      /\ [kind |-> held.kind, for |-> held.for] \in Message
      /\ chan_open[held.to]
  BY DEF OwnershipInv, Untouched, ReadTypes, Held, Message
<1>a. /\ pc' = pc \/ pc' = [pc EXCEPT ![held.to] = "resumed"]
      /\ \/ ready' = ready
         \/ ready' = [ready EXCEPT ![held.to] = [kind |-> held.kind, for |-> held.for]]
      /\ \/ inbox' = inbox
         \/ inbox' = [inbox EXCEPT ![held.to] = [kind |-> held.kind, for |-> held.for]]
  BY <1>0
<1>1. CallTypes'
  <2>1. pc' \in [Calls -> PCs]
    BY <1>0, <1>a DEF CallTypes
  <2>2. ready' \in [Calls -> Message \cup {Nothing, Aborted}]
    BY <1>0, <1>a DEF CallTypes
  <2>3. inbox' \in [Calls -> Message \cup {Nothing}]
    BY <1>0, <1>a DEF CallTypes
  <2> QED
    BY <2>1, <2>2, <2>3 DEF CallTypes
<1>2. ManagerTypes'
  BY DEF ManagerTypes
<1>3. WriteTypes'
  BY DEF WriteTypes
<1>4. ReadTypes'
  BY DEF ReadTypes
<1>5. CloseTypes'
  BY DEF CloseTypes
<1>6. NetTypes'
  BY DEF NetTypes
<1>7. TokenInv'
  BY DEF TokenInv, WireInv, CallTypes, ManagerTypes
<1>8. WireInv'
  BY DEF WireInv, Genuine, TokenInv, CallTypes, WriteTypes, NetTypes
<1>9. OwnershipInv'
  BY DEF OwnershipInv, Untouched, InReaderHand, TokenInv, CallTypes,
         ManagerTypes, ReadTypes, CloseTypes
<1>10. WaiterInv'
  BY DEF WaiterInv, Owed, Untouched, InReaderHand, OwnershipInv, TokenInv,
         CloseInv, CallTypes, ManagerTypes, ReadTypes, CloseTypes
<1>11. AnswerInv'
  BY DEF AnswerInv, OwnershipInv, Untouched, InReaderHand, CallTypes,
         ReadTypes
<1>12. CloseInv'
  BY DEF CloseInv, OwnershipInv, Untouched, InReaderHand, AnswerInv,
         CallTypes, ManagerTypes, CloseTypes
<1> QED
  BY <1>1, <1>2, <1>3, <1>4, <1>5, <1>6, <1>7, <1>8, <1>9, <1>10, <1>11, <1>12 DEF TypeOK

\* dispatch_request: the reader hands over, buffers or parks its own answer, or
\* is thrown out of its loop.
LEMMA RejectRequestStep ==
  ASSUME IInv, NEW at \in {"responding", "rejecting"}, RejectRequest(at)
  PROVE  IInv'
<1> USE DEF IInv
<1>a. Reply \in Item /\ Genuine(Reply) /\ Reply.call = NoCall
  BY DEF Genuine, Item, Reply
<1>b. /\ reader = "reading"
      /\ reader' \in {"reading", "responding", "rejecting", "closing", "exited"}
      /\ closing' = closing \/ (closing = "open" /\ closing' = "flagged")
      /\ UNCHANGED <<callVars, managerVars, held, cancelling, netVars>>
  BY DEF RejectRequest, Close, AfterRespond
<1>c. \/ UNCHANGED writeVars
      \/ /\ writing' = <<Reply>>
         /\ writer' = "writing"
         /\ UNCHANGED <<write_buf, parked>>
      \/ /\ write_buf' = Append(write_buf, Reply)
         /\ Len(write_buf) < WriteCap
         /\ UNCHANGED <<writing, writer, parked>>
      \/ /\ parked' = Append(parked, Reply)
         /\ reader' = at
         /\ UNCHANGED <<write_buf, writing, writer>>
  BY DEF RejectRequest, HasRoom
<1>f. /\ Append(write_buf, Reply) \in Seq(Item)
      /\ Len(Append(write_buf, Reply)) = Len(write_buf) + 1
      /\ \A i \in 1 .. Len(write_buf) + 1 : Append(write_buf, Reply)[i] =
           IF i <= Len(write_buf) THEN write_buf[i] ELSE Reply
  BY <1>a, AppendFacts DEF WriteTypes
<1>g. /\ Append(parked, Reply) \in Seq(Item)
      /\ Len(Append(parked, Reply)) = Len(parked) + 1
      /\ \A i \in 1 .. Len(parked) + 1 : Append(parked, Reply)[i] =
           IF i <= Len(parked) THEN parked[i] ELSE Reply
  BY <1>a, AppendFacts DEF WriteTypes
<1>h. Len(write_buf) \in Nat /\ Len(parked) \in Nat
  BY DEF WriteTypes
<1>i. \A i \in 1 .. Len(parked) : parked[i].call # NoCall
  BY <1>b DEF WireInv
<1>3. WriteTypes'
  <2>1. write_buf' \in Seq(Item) /\ Len(write_buf') <= WriteCap
    <3>1. CASE write_buf' = write_buf
      BY <3>1 DEF WriteTypes
    <3>2. CASE write_buf' = Append(write_buf, Reply) /\ Len(write_buf) < WriteCap
      BY <3>2, <1>f, <1>h
    <3> QED
      BY <1>c, <3>1, <3>2
  <2>2. parked' \in Seq(Item)
    BY <1>c, <1>g DEF WriteTypes
  <2>3. /\ writer' \in {"receiving", "writing", "exited"}
        /\ writing' \in Seq(Item)
        /\ Len(writing') = (IF writer' = "writing" THEN 1 ELSE 0)
    BY <1>a, <1>c, SingletonFacts DEF WriteTypes
  <2> QED
    BY <2>1, <2>2, <2>3 DEF WriteTypes
<1>4. ReadTypes'
  BY <1>b DEF ReadTypes
<1>5. CallTypes' /\ ManagerTypes' /\ CloseTypes' /\ NetTypes'
  BY <1>b DEF CallTypes, ManagerTypes, CloseTypes, NetTypes
<1>8. WireInv'
  <2>1. \A i : Genuine(i)' = Genuine(i)
    BY <1>b DEF Genuine
  <2>2. \A i \in 1 .. Len(write_buf') : Genuine(write_buf'[i])
    <3>1. CASE write_buf' = write_buf
      BY <3>1 DEF WireInv
    <3>2. CASE write_buf' = Append(write_buf, Reply)
      BY <3>2, <1>a, <1>f, <1>h DEF WireInv
    <3> QED
      BY <1>c, <3>1, <3>2
  <2>3. \A i \in 1 .. Len(writing') : Genuine(writing'[i])
    BY <1>a, <1>c, SingletonFacts DEF WireInv
  <2>4. /\ \A i \in 1 .. Len(parked') :
             /\ Genuine(parked'[i])
             /\ parked'[i].call \in Calls => pc'[parked'[i].call] = "parked"
             /\ parked'[i].call = NoCall => reader' \in {"responding", "rejecting"}
        /\ \A i, j \in 1 .. Len(parked') :
             parked'[i].call = parked'[j].call => i = j
    <3>1. CASE UNCHANGED parked
      BY <1>b, <1>i, <3>1 DEF WireInv
    <3>2. CASE parked' = Append(parked, Reply) /\ reader' = at
      BY <1>a, <1>b, <1>g, <1>h, <1>i, <3>2 DEF WireInv
    <3> QED
      BY <1>c, <3>1, <3>2
  <2> QED
    BY <1>b, <2>1, <2>2, <2>3, <2>4 DEF WireInv
<1>9. OwnershipInv' /\ WaiterInv'
  BY <1>b DEF OwnershipInv, WaiterInv, Untouched, InReaderHand, Owed
<1>10. TokenInv' /\ AnswerInv'
  BY <1>b DEF TokenInv, AnswerInv
<1>11. CloseInv'
  BY <1>b DEF CloseInv
<1> QED
  BY <1>3, <1>4, <1>5, <1>8, <1>9, <1>10, <1>11

\* dispatch_request calls close() after the answer to an oversized request.
LEMMA CloseRejectedStep ==
  ASSUME IInv, CloseRejected
  PROVE  IInv'
<1> USE DEF IInv, CloseRejected, Close
<1>1. CallTypes'
  BY DEF CallTypes
<1>2. ManagerTypes'
  BY DEF ManagerTypes
<1>3. WriteTypes'
  BY DEF WriteTypes
<1>4. ReadTypes'
  BY DEF ReadTypes
<1>5. CloseTypes'
  BY DEF CloseTypes
<1>6. NetTypes'
  BY DEF NetTypes
<1>7. TokenInv'
  BY DEF TokenInv, WireInv, CallTypes, ManagerTypes
<1>8. WireInv'
  BY DEF WireInv, Genuine, TokenInv, CallTypes, WriteTypes, NetTypes
<1>9. OwnershipInv'
  BY DEF OwnershipInv, Untouched, InReaderHand, TokenInv, CallTypes,
         ManagerTypes, ReadTypes, CloseTypes
<1>10. WaiterInv'
  BY DEF WaiterInv, Owed, Untouched, InReaderHand, OwnershipInv, TokenInv,
         CloseInv, CallTypes, ManagerTypes, ReadTypes, CloseTypes
<1>11. AnswerInv'
  BY DEF AnswerInv, OwnershipInv, Untouched, InReaderHand, CallTypes,
         ReadTypes
<1>12. CloseInv'
  BY DEF CloseInv, OwnershipInv, Untouched, InReaderHand, AnswerInv,
         CallTypes, ManagerTypes, CloseTypes
<1> QED
  BY <1>1, <1>2, <1>3, <1>4, <1>5, <1>6, <1>7, <1>8, <1>9, <1>10, <1>11, <1>12 DEF TypeOK

\* deadline_read throws, and msg_reader calls close().
LEMMA ReaderFailsStep ==
  ASSUME IInv, ReaderFails
  PROVE  IInv'
<1> USE DEF IInv, ReaderFails, Close
<1>1. CallTypes'
  BY DEF CallTypes
<1>2. ManagerTypes'
  BY DEF ManagerTypes
<1>3. WriteTypes'
  BY DEF WriteTypes
<1>4. ReadTypes'
  BY DEF ReadTypes
<1>5. CloseTypes'
  BY DEF CloseTypes
<1>6. NetTypes'
  BY DEF NetTypes
<1>7. TokenInv'
  BY DEF TokenInv, WireInv, CallTypes, ManagerTypes
<1>8. WireInv'
  BY DEF WireInv, Genuine, TokenInv, CallTypes, WriteTypes, NetTypes
<1>9. OwnershipInv'
  BY DEF OwnershipInv, Untouched, InReaderHand, TokenInv, CallTypes,
         ManagerTypes, ReadTypes, CloseTypes
<1>10. WaiterInv'
  BY DEF WaiterInv, Owed, Untouched, InReaderHand, OwnershipInv, TokenInv,
         CloseInv, CallTypes, ManagerTypes, ReadTypes, CloseTypes
<1>11. AnswerInv'
  BY DEF AnswerInv, OwnershipInv, Untouched, InReaderHand, CallTypes,
         ReadTypes
<1>12. CloseInv'
  BY DEF CloseInv, OwnershipInv, Untouched, InReaderHand, AnswerInv,
         CallTypes, ManagerTypes, CloseTypes
<1> QED
  BY <1>1, <1>2, <1>3, <1>4, <1>5, <1>6, <1>7, <1>8, <1>9, <1>10, <1>11, <1>12 DEF TypeOK

\* close() is called from outside the session.
LEMMA DisconnectStep ==
  ASSUME IInv, Disconnect
  PROVE  IInv'
<1> USE DEF IInv, Disconnect, Close
<1>1. CallTypes'
  BY DEF CallTypes
<1>2. ManagerTypes'
  BY DEF ManagerTypes
<1>3. WriteTypes'
  BY DEF WriteTypes
<1>4. ReadTypes'
  BY DEF ReadTypes
<1>5. CloseTypes'
  BY DEF CloseTypes
<1>6. NetTypes'
  BY DEF NetTypes
<1>7. TokenInv'
  BY DEF TokenInv, WireInv, CallTypes, ManagerTypes
<1>8. WireInv'
  BY DEF WireInv, Genuine, TokenInv, CallTypes, WriteTypes, NetTypes
<1>9. OwnershipInv'
  BY DEF OwnershipInv, Untouched, InReaderHand, TokenInv, CallTypes,
         ManagerTypes, ReadTypes, CloseTypes
<1>10. WaiterInv'
  BY DEF WaiterInv, Owed, Untouched, InReaderHand, OwnershipInv, TokenInv,
         CloseInv, CallTypes, ManagerTypes, ReadTypes, CloseTypes
<1>11. AnswerInv'
  BY DEF AnswerInv, OwnershipInv, Untouched, InReaderHand, CallTypes,
         ReadTypes
<1>12. CloseInv'
  BY DEF CloseInv, OwnershipInv, Untouched, InReaderHand, AnswerInv,
         CallTypes, ManagerTypes, CloseTypes
<1> QED
  BY <1>1, <1>2, <1>3, <1>4, <1>5, <1>6, <1>7, <1>8, <1>9, <1>10, <1>11, <1>12 DEF TypeOK

\* close() closes the write channel.
LEMMA CloseWriteChannelStep ==
  ASSUME IInv, CloseWriteChannel
  PROVE  IInv'
<1> USE DEF IInv, CloseWriteChannel
<1>1. CallTypes'
  BY DEF CallTypes
<1>2. ManagerTypes'
  BY DEF ManagerTypes
<1>3. WriteTypes'
  BY DEF WriteTypes
<1>4. ReadTypes'
  BY DEF ReadTypes
<1>5. CloseTypes'
  BY DEF CloseTypes
<1>6. NetTypes'
  BY DEF NetTypes
<1>7. TokenInv'
  BY DEF TokenInv, WireInv, CallTypes, ManagerTypes
<1>8. WireInv'
  BY DEF WireInv, Genuine, TokenInv, CallTypes, WriteTypes, NetTypes
<1>9. OwnershipInv'
  BY DEF OwnershipInv, Untouched, InReaderHand, TokenInv, CallTypes,
         ManagerTypes, ReadTypes, CloseTypes
<1>10. WaiterInv'
  BY DEF WaiterInv, Owed, Untouched, InReaderHand, OwnershipInv, TokenInv,
         CloseInv, CallTypes, ManagerTypes, ReadTypes, CloseTypes
<1>11. AnswerInv'
  BY DEF AnswerInv, OwnershipInv, Untouched, InReaderHand, CallTypes,
         ReadTypes
<1>12. CloseInv'
  BY DEF CloseInv, OwnershipInv, Untouched, InReaderHand, AnswerInv,
         CallTypes, ManagerTypes, CloseTypes
<1> QED
  BY <1>1, <1>2, <1>3, <1>4, <1>5, <1>6, <1>7, <1>8, <1>9, <1>10, <1>11, <1>12 DEF TypeOK

\* cancel_all_operations moves the map out.
LEMMA CancelAllSwapStep ==
  ASSUME IInv, CancelAllSwap
  PROVE  IInv'
<1> USE DEF IInv, CancelAllSwap, Owners
<1>1. CallTypes'
  BY DEF CallTypes
<1>2. ManagerTypes'
  BY DEF ManagerTypes
<1>3. WriteTypes'
  BY DEF WriteTypes
<1>4. ReadTypes'
  BY DEF ReadTypes
<1>5. CloseTypes'
  BY DEF CloseTypes, ManagerTypes
<1>6. NetTypes'
  BY DEF NetTypes
<1>7. TokenInv'
  BY DEF TokenInv, WireInv, CallTypes, ManagerTypes
<1>8. WireInv'
  BY DEF WireInv, Genuine, TokenInv, CallTypes, WriteTypes, NetTypes
<1>9. OwnershipInv'
  BY DEF OwnershipInv, Untouched, InReaderHand, TokenInv, CallTypes,
         ManagerTypes, ReadTypes, CloseTypes
<1>10. WaiterInv'
  <2>1. \A c \in Calls : Owed(c) => Owed(c)'
    <3>1. ASSUME NEW c \in Calls, token[c] \in DOMAIN channels_
          PROVE  c \in cancelling'
      <4>1. channels_[token[c]] = c
        BY <3>1 DEF TokenInv, CallTypes, ManagerTypes
      <4> QED  BY <3>1, <4>1
    <3> QED  BY <3>1 DEF Owed, InReaderHand, CloseInv
  <2> QED
    BY <2>1 DEF WaiterInv, Untouched
<1>11. AnswerInv'
  BY DEF AnswerInv, OwnershipInv, Untouched, InReaderHand, CallTypes,
         ReadTypes
<1>12. CloseInv'
  BY DEF CloseInv, OwnershipInv, Untouched, InReaderHand, AnswerInv,
         CallTypes, ManagerTypes, CloseTypes
<1> QED
  BY <1>1, <1>2, <1>3, <1>4, <1>5, <1>6, <1>7, <1>8, <1>9, <1>10, <1>11, <1>12 DEF TypeOK

\* cancel_all_operations cancels one channel.
LEMMA CancelOneStep ==
  ASSUME IInv, NEW c \in Calls, CancelOne(c)
  PROVE  IInv'
<1> USE DEF IInv, CancelOne
<1>1. CallTypes'
  BY DEF CallTypes
<1>2. ManagerTypes'
  BY DEF ManagerTypes
<1>3. WriteTypes'
  BY DEF WriteTypes
<1>4. ReadTypes'
  BY DEF ReadTypes
<1>5. CloseTypes'
  BY DEF CloseTypes
<1>6. NetTypes'
  BY DEF NetTypes
<1>7. TokenInv'
  BY DEF TokenInv, WireInv, CallTypes, ManagerTypes
<1>8. WireInv'
  BY DEF WireInv, Genuine, TokenInv, CallTypes, WriteTypes, NetTypes
<1>9. OwnershipInv'
  <2>1. \A d \in Calls : pc'[d] = "idle" <=> pc[d] = "idle"
    BY DEF CallTypes
  <2> QED
    BY <2>1 DEF OwnershipInv, Untouched, InReaderHand, TokenInv, CallTypes,
         ManagerTypes, ReadTypes, CloseTypes, Held
<1>10. WaiterInv'
  BY DEF WaiterInv, Owed, Untouched, InReaderHand, OwnershipInv, TokenInv,
         CloseInv, CallTypes, ManagerTypes, ReadTypes, CloseTypes
<1>11. AnswerInv'
  BY DEF AnswerInv, OwnershipInv, Untouched, InReaderHand, CallTypes,
         ReadTypes
<1>12. CloseInv'
  <2>1. \A t \in DOMAIN channels_ : channels_[t] # c
    BY DEF OwnershipInv
  <2>2. closing = "swapped"
    BY DEF CloseInv
  <2>3. \A e \in Calls : e # c => pc'[e] = pc[e]
    BY DEF CallTypes
  <2> QED
    BY <2>1, <2>2, <2>3 DEF CloseInv, ManagerTypes
<1> QED
  BY <1>1, <1>2, <1>3, <1>4, <1>5, <1>6, <1>7, <1>8, <1>9, <1>10, <1>11, <1>12 DEF TypeOK

\* close() closes the socket, with all channels cancelled.
LEMMA CloseSocketStep ==
  ASSUME IInv, CloseSocket
  PROVE  IInv'
<1> USE DEF IInv, CloseSocket
<1>1. CallTypes'
  BY DEF CallTypes
<1>2. ManagerTypes'
  BY DEF ManagerTypes
<1>3. WriteTypes'
  BY DEF WriteTypes
<1>4. ReadTypes'
  BY DEF ReadTypes
<1>5. CloseTypes'
  BY DEF CloseTypes
<1>6. NetTypes'
  BY DEF NetTypes
<1>7. TokenInv'
  BY DEF TokenInv, WireInv, CallTypes, ManagerTypes
<1>8. WireInv'
  BY DEF WireInv, Genuine, TokenInv, CallTypes, WriteTypes, NetTypes
<1>9. OwnershipInv'
  BY DEF OwnershipInv, Untouched, InReaderHand, TokenInv, CallTypes,
         ManagerTypes, ReadTypes, CloseTypes
<1>10. WaiterInv'
  BY DEF WaiterInv, Owed, Untouched, InReaderHand, OwnershipInv, TokenInv,
         CloseInv, CallTypes, ManagerTypes, ReadTypes, CloseTypes
<1>11. AnswerInv'
  BY DEF AnswerInv, OwnershipInv, Untouched, InReaderHand, CallTypes,
         ReadTypes
<1>12. CloseInv'
  BY DEF CloseInv, OwnershipInv, Untouched, InReaderHand, AnswerInv,
         CallTypes, ManagerTypes, CloseTypes
<1> QED
  BY <1>1, <1>2, <1>3, <1>4, <1>5, <1>6, <1>7, <1>8, <1>9, <1>10, <1>11, <1>12 DEF TypeOK

\* The peer answers.
LEMMA PeerAnswersStep ==
  ASSUME IInv, NEW q \in requests, NEW kind \in AnswerKind, PeerAnswers(q, kind)
  PROVE  IInv'
<1> USE DEF IInv, PeerAnswers
<1>1. CallTypes'
  BY DEF CallTypes
<1>2. ManagerTypes'
  BY DEF ManagerTypes
<1>3. WriteTypes'
  BY DEF WriteTypes
<1>4. ReadTypes'
  BY DEF ReadTypes
<1>5. CloseTypes'
  BY DEF CloseTypes
<1>6. NetTypes'
  BY DEF NetTypes, Item, Frame, WireInv
<1>7. TokenInv'
  BY DEF TokenInv, WireInv, CallTypes, ManagerTypes
<1>8. WireInv'
  BY DEF WireInv, Genuine, TokenInv, CallTypes, WriteTypes, NetTypes, Item,
         Frame
<1>9. OwnershipInv'
  BY DEF OwnershipInv, Untouched, InReaderHand, TokenInv, CallTypes,
         ManagerTypes, ReadTypes, CloseTypes
<1>10. WaiterInv'
  BY DEF WaiterInv, Owed, Untouched, InReaderHand, OwnershipInv, TokenInv,
         CloseInv, CallTypes, ManagerTypes, ReadTypes, CloseTypes
<1>11. AnswerInv'
  BY DEF AnswerInv, OwnershipInv, Untouched, InReaderHand, CallTypes,
         ReadTypes
<1>12. CloseInv'
  BY DEF CloseInv, OwnershipInv, Untouched, InReaderHand, AnswerInv,
         CallTypes, ManagerTypes, CloseTypes
<1> QED
  BY <1>1, <1>2, <1>3, <1>4, <1>5, <1>6, <1>7, <1>8, <1>9, <1>10, <1>11, <1>12 DEF TypeOK

-----------------------------------------------------------------------------
(* The theorems *)

\* A new session satisfies the inductive invariant.
LEMMA InitIInv == Init => IInv
<1> SUFFICES ASSUME Init PROVE IInv
  OBVIOUS
<1> USE DEF Init
<1>1. TypeOK
  BY DEF CallTypes, ManagerTypes, WriteTypes, ReadTypes, CloseTypes, NetTypes
<1>2. TokenInv /\ WireInv
  BY DEF TokenInv, WireInv
<1>3. OwnershipInv /\ WaiterInv
  BY DEF OwnershipInv, WaiterInv, Untouched, InReaderHand
<1>4. AnswerInv /\ CloseInv
  BY DEF AnswerInv, CloseInv
<1> QED
  BY <1>1, <1>2, <1>3, <1>4 DEF IInv

\* So does a state that does not change.
LEMMA StutterIInv == ASSUME IInv, UNCHANGED vars PROVE IInv'
  BY DEF vars, IInv, TokenInv, WireInv, Genuine, OwnershipInv, Untouched,
         InReaderHand, WaiterInv, Owed, AnswerInv, CloseInv, CallTypes,
         ManagerTypes, WriteTypes, ReadTypes, CloseTypes, NetTypes

LEMMA NextIInv == IInv /\ [Next]_vars => IInv'
<1> SUFFICES ASSUME IInv, [Next]_vars PROVE IInv'
  OBVIOUS
<1>1. CASE UNCHANGED vars
  BY <1>1, StutterIInv
<1>2. CASE TryNotify
  BY <1>2, TryNotifyStep
<1>3. ASSUME NEW c \in Calls, CallNext(c) PROVE IInv'
  BY <1>3, CreateOperationStep, QueueWriteStep, SendFailsStep,
     ArmTimerStep, BeginReceiveStep, ResumeStep,
     TimerFiresStep, TimerFlagsStep, TimerCancelsStep DEF CallNext
<1>4. CASE WriterNext
  BY <1>4, WriterTakesStep, WriterWritesStep, WriterFailsStep, WriterExitsStep
  DEF WriterNext
<1>5. CASE ReaderNext
  BY <1>5, ReadFrameStep, CompleteSendStep, RejectRequestStep, CloseRejectedStep,
     ReaderFailsStep DEF ReaderNext
<1>6. CASE CloseNext
  BY <1>6, DisconnectStep, CloseWriteChannelStep, CancelAllSwapStep,
     CancelOneStep, CloseSocketStep DEF CloseNext
<1>7. CASE PeerNext
  BY <1>7, PeerAnswersStep DEF PeerNext
<1> QED
  BY <1>1, <1>2, <1>3, <1>4, <1>5, <1>6, <1>7 DEF Next

LEMMA Invariance == Spec => []IInv
  BY InitIInv, NextIInv, PTL DEF Spec

\* Types and capacities hold in every reachable state.
THEOREM TypeCorrect == Spec => []TypeOK
<1>1. IInv => TypeOK  BY DEF IInv
<1> QED  BY <1>1, Invariance, PTL

\* A call returns the answer the peer gave to this very call, or a failure.
THEOREM CallsGetTheirOwnAnswer == Spec => []OwnAnswer
<1>1. IInv => OwnAnswer  BY DEF IInv, AnswerInv, OwnAnswer
<1> QED  BY <1>1, Invariance, PTL

\* complete_operation never suspends or throws in the session's only reader.
THEOREM ReaderIsNeverBlocked == Spec => []CompletionNeverBlocks
<1>1. IInv => CompletionNeverBlocks
  BY DEF IInv, OwnershipInv, Untouched, CompletionNeverBlocks
<1> QED  BY <1>1, Invariance, PTL

\* A frame that finds room in the write channel finds no suspended sender.
LEMMA ParkedStep == IInv /\ ParkedInv /\ [Next]_vars => ParkedInv'
<1> SUFFICES ASSUME IInv, ParkedInv, [Next]_vars PROVE ParkedInv'
  OBVIOUS
<1>0. /\ write_buf \in Seq(Item) /\ parked \in Seq(Item)
      /\ Len(write_buf) \in Nat /\ Len(parked) \in Nat
      /\ pc \in [Calls -> PCs]
  BY DEF IInv, CallTypes, WriteTypes
\* Steps that leave channel and suspended senders alone.
<1>1. ASSUME UNCHANGED parked,
             parked = <<>> \/ UNCHANGED write_buf,
             \A c \in Calls : pc'[c] = "parked" => pc[c] = "parked"
      PROVE  ParkedInv'
  BY <1>1 DEF ParkedInv, Behind
\* Steps that suspend one more sender.
<1>2. ASSUME NEW item \in Item,
             parked' = Append(parked, item), UNCHANGED write_buf,
             ~HasRoom,
             \A c \in Calls : pc'[c] = "parked" => pc[c] = "parked" \/ c = item.call
      PROVE  ParkedInv'
  <2>1. Len(write_buf') = WriteCap
    BY <1>0, <1>2 DEF HasRoom, IInv, WriteTypes
  <2>2. /\ Len(parked') = Len(parked) + 1
        /\ \A i \in 1 .. Len(parked) : i \in 1 .. Len(parked') /\ parked'[i] = parked[i]
        /\ Len(parked') \in 1 .. Len(parked') /\ parked'[Len(parked')] = item
    BY <1>0, <1>2, AppendFacts
  <2> QED
    BY <1>2, <2>1, <2>2 DEF ParkedInv, Behind
<1>3. CASE UNCHANGED vars
  BY <1>1, <1>3 DEF vars
<1>4. CASE TryNotify
  <2>1. HasRoom => parked = <<>>
    BY <1>0 DEF ParkedInv, HasRoom
  <2> QED
    BY <1>1, <1>4, <2>1 DEF TryNotify
<1>5. ASSUME NEW c \in Calls, CallNext(c) PROVE ParkedInv'
  <2>1. CASE QueueWrite(c)
    <3> DEFINE item == [token |-> token[c], call |-> c]
    <3>1. item \in Item /\ item.call = c
      BY DEF Item, IInv, CallTypes
    <3>2. HasRoom => parked = <<>>
      BY <1>0 DEF ParkedInv, HasRoom
    <3>3. CASE parked' = Append(parked, item) /\ ~HasRoom
      <4>1. UNCHANGED write_buf /\ pc' = [pc EXCEPT ![c] = "parked"]
        BY <2>1, <3>3, <1>0, AppendFacts, <3>1 DEF QueueWrite
      <4> HIDE DEF item
      <4> QED
        BY <1>0, <1>2, <3>1, <3>3, <4>1
    <3>4. CASE ~(parked' = Append(parked, item) /\ ~HasRoom)
      <4>1. /\ UNCHANGED parked
            /\ parked = <<>> \/ UNCHANGED write_buf
            /\ pc' = [pc EXCEPT ![c] = "sent"]
        BY <2>1, <3>2, <3>4 DEF QueueWrite
      <4> QED
        BY <1>0, <1>1, <4>1
    <3> QED
      BY <3>3, <3>4
  <2>2. CASE \/ CreateOperation(c) \/ SendFails(c) \/ ArmTimer(c)
             \/ BeginReceive(c) \/ Resume(c)
             \/ TimerFires(c) \/ TimerFlags(c) \/ TimerCancels(c)
    <3>1. /\ UNCHANGED <<write_buf, parked>>
          /\ \A d \in Calls : pc'[d] = "parked" => pc[d] = "parked"
      BY <1>0, <2>2 DEF CreateOperation, SendFails, ArmTimer, BeginReceive, Resume,
         TimerFires, TimerFlags, TimerCancels
    <3> QED
      BY <1>1, <3>1
  <2> QED
    BY <1>5, <2>1, <2>2 DEF CallNext
<1>6. CASE WriterTakes
  <2>1. CASE parked = <<>>
    BY <1>1, <1>6, <2>1 DEF WriterTakes
  <2>2. CASE parked # <<>>
    <3>1. /\ Head(parked) = parked[1] /\ parked[1] \in Item
          /\ Len(Tail(parked)) = Len(parked) - 1
          /\ \A i \in 1 .. Len(parked) - 1 : Tail(parked)[i] = parked[i + 1]
      BY <1>0, <2>2, TailFacts
    <3>2. Len(write_buf') = Len(write_buf)
      BY <1>0, <1>6, <2>2, <3>1, ShiftFacts DEF WriterTakes
    <3>3. ASSUME NEW c \in Calls, pc'[c] = "parked" PROVE Behind(c)'
      <4>1. pc[c] = "parked" /\ c # parked[1].call
        BY <1>6, <2>2, <3>1, <3>3 DEF WriterTakes
      <4>2. PICK i \in 1 .. Len(parked) : parked[i].call = c
        BY <4>1 DEF ParkedInv, Behind
      <4>3. i # 1
        BY <4>1, <4>2
      <4>4. i - 1 \in 1 .. Len(parked) - 1 /\ (i - 1) + 1 = i
        BY <1>0, <4>3
      <4>5. /\ parked' = Tail(parked) /\ Len(parked') = Len(parked) - 1
            /\ parked'[i - 1] = parked[i]
        BY <1>6, <2>2, <3>1, <4>4 DEF WriterTakes
      <4> QED
        BY <4>2, <4>4, <4>5 DEF Behind
    <3> QED
      BY <2>2, <3>2, <3>3 DEF ParkedInv
  <2> QED
    BY <2>1, <2>2
<1>7. CASE WriterWrites \/ WriterFails \/ WriterExits
  BY <1>1, <1>7 DEF WriterWrites, WriterFails, WriterExits
<1>8. ASSUME NEW at \in {"responding", "rejecting"}, RejectRequest(at)
      PROVE  ParkedInv'
  <2>1. Reply \in Item /\ Reply.call = NoCall
    BY DEF Reply, Item
  <2>2. HasRoom => parked = <<>>
    BY <1>0 DEF ParkedInv, HasRoom
  <2>3. UNCHANGED pc
    BY <1>8 DEF RejectRequest
  <2>4. \/ UNCHANGED parked /\ (parked = <<>> \/ UNCHANGED write_buf)
        \/ parked' = Append(parked, Reply) /\ UNCHANGED write_buf /\ ~HasRoom
    BY <1>8, <2>2 DEF RejectRequest
  <2> QED
    BY <1>1, <1>2, <2>1, <2>3, <2>4
<1>9. CASE CompleteSend \/ CloseRejected \/ ReaderFails \/ \E f \in inbound : ReadFrame(f)
  <2>1. /\ UNCHANGED <<write_buf, parked>>
        /\ \A d \in Calls : pc'[d] = "parked" => pc[d] = "parked"
    BY <1>0, <1>9 DEF CompleteSend, CloseRejected, ReaderFails, ReadFrame
  <2> QED
    BY <1>1, <2>1
<1>10. CASE CloseNext
  <2>1. /\ UNCHANGED <<write_buf, parked>>
        /\ \A d \in Calls : pc'[d] = "parked" => pc[d] = "parked"
    BY <1>0, <1>10 DEF CloseNext, Disconnect, CloseWriteChannel, CancelAllSwap,
       CancelOne, CloseSocket
  <2> QED
    BY <1>1, <2>1
<1>11. CASE PeerNext
  BY <1>1, <1>11 DEF PeerNext, PeerAnswers
<1> QED
  BY <1>3, <1>4, <1>5, <1>6, <1>7, <1>8, <1>9, <1>10, <1>11
  DEF Next, WriterNext, ReaderNext

\* After close() the callers still suspended are the one that is being answered
\* and those close() found behind the full write channel, which it does not wake.
THEOREM CloseOrphansOnlyParked == Spec => []OnlyParkedCallsOrphaned
<1>1. Init => ParkedInv
  BY DEF Init, ParkedInv
<1>2. IInv /\ ParkedInv => OnlyParkedCallsOrphaned
  <2> SUFFICES ASSUME IInv, ParkedInv, closing = "closed", NEW c \in Calls
               PROVE  /\ pc[c] = "receiving" => InReaderHand(c)
                      /\ pc[c] = "parked" => Behind(c) /\ Len(write_buf) = WriteCap
    BY DEF OnlyParkedCallsOrphaned, InReaderHand
  <2>1. ASSUME pc[c] = "receiving" PROVE InReaderHand(c)
    <3>1. Owed(c) /\ c \notin cancelling
      BY <2>1 DEF IInv, WaiterInv, CloseInv
    <3>2. ASSUME token[c] \in DOMAIN channels_ PROVE FALSE
      <4>1. channels_[token[c]] = c
        BY <3>2 DEF IInv, TokenInv, CallTypes, ManagerTypes
      <4> QED
        BY <2>1, <3>2, <4>1 DEF IInv, CloseInv
    <3> QED
      BY <3>1, <3>2 DEF Owed
  <2>2. ASSUME pc[c] = "parked" PROVE Behind(c) /\ Len(write_buf) = WriteCap
    <3>1. Behind(c)
      BY <2>2 DEF ParkedInv
    <3>2. parked # <<>>
      BY <3>1 DEF Behind
    <3> QED
      BY <3>1, <3>2 DEF ParkedInv
  <2> QED
    BY <2>1, <2>2
<1> QED  BY <1>1, <1>2, InitIInv, NextIInv, ParkedStep, PTL DEF Spec

\* Only timed-out and refused calls leave an entry behind in channels_.
THEOREM OnlyFailedCallsLeaveEntries == Spec => []LeftoverEntries
<1>1. IInv => LeftoverEntries
  BY DEF IInv, CloseInv, LeftoverEntries, Owners, finished
<1> QED  BY <1>1, Invariance, PTL

-----------------------------------------------------------------------------
(***************************************************************************)
(* SessionCalls implements RpcCall: whatever tokens, channels, timers and  *)
(* close() do, a call is answered at most once and returns once, with the  *)
(* answer to its own request or with a local failure.  The refinement      *)
(* needs two facts beyond IInv: a request is in one place at a time until  *)
(* it is answered, and an answer keeps its kind on the way to its caller.  *)
(***************************************************************************)

(* The clauses the refinement adds to the inductive invariant *)

\* Before queue_write has taken it, the request of a call is nowhere.
Unqueued == {"idle", "registered", "parked"}

\* A request on its way to the peer's answer: queued, and not answered yet.
Outstanding(i) ==
  i.call \in Calls => pc[i.call] \notin Unqueued /\ answered[i.call] = "none"

\* The same call is on its way in one place only.
Apart(i, j) == i.call = j.call => i.call = NoCall

RequestInv ==
  /\ \A c \in Calls : pc[c] \in Unqueued => answered[c] = "none"
  /\ \A i \in 1 .. Len(write_buf) :
       /\ Outstanding(write_buf[i])
       /\ \A j \in 1 .. Len(write_buf) : i # j => Apart(write_buf[i], write_buf[j])
       /\ \A j \in 1 .. Len(writing) : Apart(write_buf[i], writing[j])
       /\ \A q \in requests : Apart(write_buf[i], q)
  /\ \A i \in 1 .. Len(writing) :
       /\ Outstanding(writing[i])
       /\ \A q \in requests : Apart(writing[i], q)
  /\ \A q \in requests : Outstanding(q)

\* Frame, reader, response channel and completion hold what the peer answered.
KindInv ==
  /\ \A f \in inbound : answered[f.for] = f.kind
  /\ reader = "completing" => answered[held.for] = held.kind
  /\ \A c \in Calls :
       /\ inbox[c] # Nothing => answered[c] = inbox[c].kind
       /\ ready[c] \notin {Nothing, Aborted} => answered[c] = ready[c].kind

RInv == IInv /\ RequestInv /\ KindInv

-----------------------------------------------------------------------------
(* A request is in one place at a time *)

\* A step that queues nothing, writes nothing and answers nothing: requests may
\* be lost, and calls may only leave the states before queue_write.
LEMMA RequestInvKept ==
  ASSUME RequestInv,
         UNCHANGED <<write_buf, answered>>,
         writing' = writing \/ writing' = <<>>,
         requests' \subseteq requests,
         \A c \in Calls : pc'[c] \in Unqueued => pc[c] \in Unqueued
  PROVE  RequestInv'
<1>1. \A i : Outstanding(i) => Outstanding(i)'
  BY DEF Outstanding
<1>2. \A i, j : Apart(i, j)' = Apart(i, j)
  BY DEF Apart
<1>3. CASE writing' = writing
  BY <1>1, <1>2, <1>3 DEF RequestInv
<1>4. CASE writing' = <<>>
  BY <1>1, <1>2, <1>4 DEF RequestInv
<1> QED
  BY <1>3, <1>4

\* The request of a call that is about to queue it is nowhere yet.
LEMMA NotQueuedYet ==
  ASSUME RInv, NEW c \in Calls, pc[c] \in Unqueued
  PROVE  /\ answered[c] = "none"
         /\ \A i \in 1 .. Len(write_buf) : write_buf[i].call # c
         /\ \A i \in 1 .. Len(writing) : writing[i].call # c
         /\ \A q \in requests : q.call # c
  BY DEF RInv, RequestInv, Outstanding

\* queue_write puts the request in one place.
LEMMA QueueWriteRequests ==
  ASSUME RInv, NEW c \in Calls, QueueWrite(c)
  PROVE  RequestInv'
<1> DEFINE Out(i) == i.call \in Calls => pc'[i.call] \notin Unqueued /\ answered'[i.call] = "none"
<1> DEFINE item == [token |-> token[c], call |-> c]
<1>1. /\ pc[c] = "registered"
      /\ UNCHANGED <<requests, answered>>
      /\ \/ /\ writing' = <<item>>
            /\ write_buf = <<>>
            /\ pc' = [pc EXCEPT ![c] = "sent"]
            /\ UNCHANGED write_buf
         \/ /\ write_buf' = Append(write_buf, item)
            /\ pc' = [pc EXCEPT ![c] = "sent"]
            /\ UNCHANGED writing
         \/ /\ pc' = [pc EXCEPT ![c] = "parked"]
            /\ UNCHANGED <<write_buf, writing>>
  BY DEF QueueWrite
<1>2. /\ item \in Item
      /\ item.call = c
      /\ write_buf \in Seq(Item)
      /\ pc \in [Calls -> PCs]
  BY DEF RInv, IInv, CallTypes, WriteTypes, Item
<1>3. /\ answered[c] = "none"
      /\ \A i \in 1 .. Len(write_buf) : write_buf[i].call # c
      /\ \A i \in 1 .. Len(writing) : writing[i].call # c
      /\ \A q \in requests : q.call # c
  BY <1>1, NotQueuedYet DEF Unqueued
<1>4. \A i : i.call # c /\ Outstanding(i) => Out(i)
  BY <1>1, <1>2 DEF Outstanding
<1>5. RequestInv
  BY DEF RInv
<1> HIDE DEF item
<1>6. CASE /\ writing' = <<item>>
           /\ write_buf = <<>>
           /\ pc' = [pc EXCEPT ![c] = "sent"]
           /\ UNCHANGED write_buf
  <2>1. Out(item)
    BY <1>1, <1>2, <1>3, <1>6 DEF Outstanding, Unqueued
  <2>2. \A q \in requests' : Out(q) /\ Apart(item, q)
    BY <1>1, <1>2, <1>3, <1>4, <1>5 DEF RequestInv, Apart
  <2>3. \A d \in Calls : pc'[d] \in Unqueued => answered'[d] = "none"
    BY <1>1, <1>2, <1>5, <1>6 DEF RequestInv, Unqueued
  <2>4. \A i \in 1 .. Len(writing') : writing'[i] = item
    BY <1>2, <1>6, SingletonFacts
  <2>5. 1 .. Len(write_buf') = {}
    BY <1>6
  <2> QED
    BY <2>1, <2>2, <2>3, <2>4, <2>5 DEF RequestInv, Apart, Outstanding
<1>7. CASE /\ write_buf' = Append(write_buf, item)
           /\ pc' = [pc EXCEPT ![c] = "sent"]
           /\ UNCHANGED writing
  <2>1. Out(item)
    BY <1>1, <1>2, <1>3, <1>7 DEF Outstanding, Unqueued
  <2>2. \A q \in requests' : Out(q) /\ Apart(item, q)
    BY <1>1, <1>2, <1>3, <1>4, <1>5 DEF RequestInv, Apart
  <2>3. \A d \in Calls : pc'[d] \in Unqueued => answered'[d] = "none"
    BY <1>1, <1>2, <1>5, <1>7 DEF RequestInv, Unqueued
  <2>4. /\ Len(write_buf) \in Nat
        /\ Len(write_buf') = Len(write_buf) + 1
        /\ \A i \in 1 .. Len(write_buf) + 1 :
             write_buf'[i] = IF i <= Len(write_buf) THEN write_buf[i] ELSE item
    BY <1>2, <1>7, AppendFacts
  <2>5. \A i \in 1 .. Len(writing') :
          /\ Out(writing'[i])
          /\ Apart(item, writing'[i])
          /\ \A q \in requests' : Apart(writing'[i], q)
    BY <1>1, <1>2, <1>3, <1>4, <1>5, <1>7 DEF RequestInv, Apart
  <2>6. \A i \in 1 .. Len(write_buf) :
          /\ Out(write_buf[i])
          /\ Apart(write_buf[i], item) /\ Apart(item, write_buf[i])
          /\ \A j \in 1 .. Len(write_buf) : i # j => Apart(write_buf[i], write_buf[j])
          /\ \A j \in 1 .. Len(writing') : Apart(write_buf[i], writing'[j])
          /\ \A q \in requests' : Apart(write_buf[i], q)
    BY <1>1, <1>2, <1>3, <1>4, <1>5, <1>7 DEF RequestInv, Apart
  <2>7. \A i \in 1 .. Len(write_buf') :
          /\ Out(write_buf'[i])
          /\ \A j \in 1 .. Len(write_buf') : i # j => Apart(write_buf'[i], write_buf'[j])
          /\ \A j \in 1 .. Len(writing') : Apart(write_buf'[i], writing'[j])
          /\ \A q \in requests' : Apart(write_buf'[i], q)
    BY <2>1, <2>2, <2>4, <2>5, <2>6
  <2> QED
    BY <2>2, <2>3, <2>5, <2>7 DEF RequestInv, Apart, Outstanding
<1>8. CASE pc' = [pc EXCEPT ![c] = "parked"] /\ UNCHANGED <<write_buf, writing>>
  BY <1>1, <1>2, <1>5, <1>8, RequestInvKept DEF Unqueued
<1> QED
  BY <1>1, <1>6, <1>7, <1>8

\* A notification, and the reader's own answer to the peer, stand for no call.
LEMMA UncalledRequests ==
  ASSUME RInv, NEW item \in Item, item.call = NoCall,
         UNCHANGED <<pc, requests, answered>>,
         \/ writing' = <<item>> /\ write_buf = <<>> /\ UNCHANGED write_buf
         \/ write_buf' = Append(write_buf, item) /\ UNCHANGED writing
  PROVE  RequestInv'
<1> DEFINE Out(i) == i.call \in Calls => pc'[i.call] \notin Unqueued /\ answered'[i.call] = "none"
<1>1. /\ UNCHANGED <<pc, requests, answered>>
      /\ \/ /\ writing' = <<item>>
            /\ write_buf = <<>>
            /\ UNCHANGED write_buf
         \/ write_buf' = Append(write_buf, item) /\ UNCHANGED writing
  OBVIOUS
<1>2. /\ item \in Item
      /\ item.call = NoCall
      /\ write_buf \in Seq(Item)
  BY DEF RInv, IInv, WriteTypes, Item
<1>3. \A i : Outstanding(i) => Out(i)
  BY <1>1 DEF Outstanding
<1>4. Out(item) /\ \A i : Apart(item, i)
  BY <1>2 DEF Outstanding, Apart
<1>5. RequestInv
  BY DEF RInv
<1>6. CASE /\ writing' = <<item>>
           /\ write_buf = <<>>
           /\ UNCHANGED write_buf
  <2>1. \A i \in 1 .. Len(writing') : writing'[i] = item
    BY <1>2, <1>6, SingletonFacts
  <2>2. 1 .. Len(write_buf') = {}
    BY <1>6
  <2> QED
    BY <1>1, <1>3, <1>4, <1>5, <2>1, <2>2 DEF RequestInv, Apart, Outstanding
<1>7. CASE write_buf' = Append(write_buf, item) /\ UNCHANGED writing
  <2>1. /\ Len(write_buf) \in Nat
        /\ Len(write_buf') = Len(write_buf) + 1
        /\ \A i \in 1 .. Len(write_buf) + 1 : write_buf'[i] =
             IF i <= Len(write_buf) THEN write_buf[i] ELSE item
    BY <1>2, <1>7, AppendFacts
  <2>2. \A i \in 1 .. Len(write_buf) : Apart(write_buf[i], item)
    BY <1>2 DEF Apart
  <2>3. \A i \in 1 .. Len(write_buf') :
          /\ Out(write_buf'[i])
          /\ \A j \in 1 .. Len(write_buf') : i # j => Apart(write_buf'[i], write_buf'[j])
          /\ \A j \in 1 .. Len(writing) : Apart(write_buf'[i], writing[j])
          /\ \A q \in requests : Apart(write_buf'[i], q)
    BY <1>3, <1>4, <1>5, <2>1, <2>2 DEF RequestInv
  <2>4. \A i \in 1 .. Len(writing) :
          Out(writing[i]) /\ \A q \in requests : Apart(writing[i], q)
    BY <1>3, <1>5 DEF RequestInv
  <2>5. \A q \in requests : Out(q)
    BY <1>3, <1>5 DEF RequestInv
  <2>6. \A c \in Calls : pc'[c] \in Unqueued => answered'[c] = "none"
    BY <1>1, <1>5 DEF RequestInv
  <2> QED
    BY <1>1, <1>7, <2>3, <2>4, <2>5, <2>6 DEF RequestInv, Apart, Outstanding
<1> QED
  BY <1>1, <1>6, <1>7

LEMMA TryNotifyRequests ==
  ASSUME RInv, TryNotify
  PROVE  RequestInv'
<1>1. Notification \in Item /\ Notification.call = NoCall
  BY DEF Notification, Item
<1>2. /\ UNCHANGED <<pc, requests, answered>>
      /\ \/ /\ writing' = <<Notification>>
            /\ write_buf = <<>>
            /\ UNCHANGED write_buf
         \/ write_buf' = Append(write_buf, Notification) /\ UNCHANGED writing
  BY DEF TryNotify
<1> QED
  BY <1>1, <1>2, UncalledRequests

\* A suspended answer of the reader is in no place of RequestInv.
LEMMA RejectRequestRequests ==
  ASSUME RInv, NEW at \in {"responding", "rejecting"}, RejectRequest(at)
  PROVE  RequestInv'
<1>1. Reply \in Item /\ Reply.call = NoCall
  BY DEF Reply, Item
<1>2. /\ UNCHANGED <<pc, requests, answered>>
      /\ \/ /\ writing' = <<Reply>>
            /\ write_buf = <<>>
            /\ UNCHANGED write_buf
         \/ write_buf' = Append(write_buf, Reply) /\ UNCHANGED writing
         \/ UNCHANGED <<write_buf, writing>>
  BY DEF RejectRequest
<1>3. CASE UNCHANGED <<write_buf, writing>>
  BY <1>2, <1>3, RequestInvKept DEF RInv
<1> QED
  BY <1>1, <1>2, <1>3, UncalledRequests

\* msg_writer takes the first item and lets the first suspended sender in.
LEMMA WriterTakesRequests ==
  ASSUME RInv, WriterTakes
  PROVE  RequestInv'
<1> DEFINE Out(i) == i.call \in Calls => pc'[i.call] \notin Unqueued /\ answered'[i.call] = "none"
<1>1. /\ UNCHANGED <<requests, answered>>
      /\ write_buf # <<>>
      /\ writing' = <<Head(write_buf)>>
      /\ \/ /\ write_buf' = Tail(write_buf)
            /\ UNCHANGED pc
         \/ /\ parked # <<>>
            /\ write_buf' = Append(Tail(write_buf), Head(parked))
            /\ pc' = [c \in Calls |-> IF c = Head(parked).call THEN "sent" ELSE pc[c]]
  BY DEF WriterTakes
<1>2. /\ RequestInv
      /\ write_buf \in Seq(Item)
      /\ parked \in Seq(Item)
      /\ pc \in [Calls -> PCs]
  BY DEF RInv, IInv, WriteTypes, CallTypes
<1>3. /\ Len(write_buf) \in Nat \ {0}
      /\ write_buf[1] \in Item
      /\ Head(write_buf) = write_buf[1]
      /\ Len(Tail(write_buf)) = Len(write_buf) - 1
      /\ \A i \in 1 .. Len(write_buf) - 1 : Tail(write_buf)[i] = write_buf[i + 1]
  BY <1>1, <1>2, TailFacts
<1>4. Len(writing') = 1 /\ writing'[1] = write_buf[1]
  BY <1>1, <1>3, SingletonFacts
<1>5. CASE write_buf' = Tail(write_buf) /\ UNCHANGED pc
  <2>1. \A i : Outstanding(i) => Out(i)
    BY <1>1, <1>5 DEF Outstanding
  <2>2. \A i \in 1 .. Len(write_buf') :
          /\ Out(write_buf'[i])
          /\ \A j \in 1 .. Len(write_buf') : i # j => Apart(write_buf'[i], write_buf'[j])
          /\ Apart(write_buf'[i], write_buf[1])
          /\ \A q \in requests' : Apart(write_buf'[i], q)
    BY <1>1, <1>2, <1>3, <1>5, <2>1 DEF RequestInv
  <2>3. Out(write_buf[1]) /\ \A q \in requests' : Apart(write_buf[1], q) /\ Out(q)
    BY <1>1, <1>2, <1>3, <2>1 DEF RequestInv
  <2>4. \A c \in Calls : pc'[c] \in Unqueued => answered'[c] = "none"
    BY <1>1, <1>2, <1>5 DEF RequestInv
  <2>5. 1 .. Len(writing') = {1}
    BY <1>4
  <2> QED
    BY <1>4, <2>2, <2>3, <2>4, <2>5 DEF RequestInv, Apart, Outstanding
<1>6. CASE /\ parked # <<>>
           /\ write_buf' = Append(Tail(write_buf), Head(parked))
           /\ pc' = [c \in Calls |-> IF c = Head(parked).call THEN "sent" ELSE pc[c]]
  <2> DEFINE first == Head(parked)
             c == first.call
  <2>1. first \in Item /\ (c \in Calls => pc[c] \in Unqueued)
    BY <1>2, <1>6, TailFacts DEF RInv, IInv, WireInv, Unqueued
  <2>2. c \in Calls =>
          /\ answered[c] = "none"
          /\ \A i \in 1 .. Len(write_buf) : write_buf[i].call # c
          /\ \A q \in requests : q.call # c
    BY <2>1, NotQueuedYet
  <2>0. c \in Calls \/ c = NoCall
    BY <2>1 DEF Item
  <2>3. /\ Len(write_buf') = Len(write_buf)
        /\ \A i \in 1 .. Len(write_buf) : write_buf'[i] =
             IF i < Len(write_buf) THEN write_buf[i + 1] ELSE first
    BY <1>1, <1>2, <1>6, <2>1, ShiftFacts
  <2>4. Out(first)
    BY <1>1, <1>2, <1>6, <2>1, <2>2 DEF Unqueued
  <2>5. \A d \in Calls : pc'[d] \in Unqueued => pc[d] \in Unqueued
    BY <1>2, <1>6, <2>1 DEF Unqueued
  <2> HIDE DEF first
  <2>6. \A i : Outstanding(i) => Out(i)
    BY <1>1, <2>5 DEF Outstanding
  <2>7. /\ \A i \in 1 .. Len(write_buf) :
             Apart(first, write_buf[i]) /\ Apart(write_buf[i], first)
        /\ \A q \in requests : Apart(first, q)
    BY <2>0, <2>2 DEF Apart
  <2>8. \A i \in 1 .. Len(write_buf') :
          /\ Out(write_buf'[i])
          /\ \A j \in 1 .. Len(write_buf') : i # j => Apart(write_buf'[i], write_buf'[j])
          /\ Apart(write_buf'[i], write_buf[1])
          /\ \A q \in requests' : Apart(write_buf'[i], q)
    <3> DEFINE Good(i) ==
          /\ Out(write_buf'[i])
          /\ \A j \in 1 .. Len(write_buf') : i # j => Apart(write_buf'[i], write_buf'[j])
          /\ Apart(write_buf'[i], write_buf[1])
          /\ \A q \in requests' : Apart(write_buf'[i], q)
    <3>1. ASSUME NEW i \in 1 .. Len(write_buf'), i = Len(write_buf) PROVE Good(i)
      <4>1. write_buf'[i] = first
        BY <1>3, <2>3, <3>1
      <4>2. \A q \in requests' : Apart(first, q)
        BY <1>1, <2>7
      <4>3. ASSUME NEW j \in 1 .. Len(write_buf'), i # j
            PROVE  j + 1 \in 1 .. Len(write_buf) /\ write_buf'[j] = write_buf[j + 1]
        <5>1. j \in 1 .. Len(write_buf) /\ j # Len(write_buf)
          BY <2>3, <3>1, <4>3
        <5>2. Len(write_buf) \in Nat
          BY <1>3
        <5>3. j < Len(write_buf) /\ j + 1 \in 1 .. Len(write_buf)
          BY <5>1, <5>2
        <5> QED
          BY <2>3, <5>1, <5>3
      <4> QED
        BY <1>3, <2>4, <2>7, <4>1, <4>2, <4>3
    <3>2. ASSUME NEW i \in 1 .. Len(write_buf'), i < Len(write_buf) PROVE Good(i)
      <4>1. i + 1 \in 1 .. Len(write_buf) /\ write_buf'[i] = write_buf[i + 1]
        BY <1>3, <2>3, <3>2
      <4>2. /\ Out(write_buf[i + 1])
            /\ \A q \in requests' : Apart(write_buf[i + 1], q)
            /\ Apart(write_buf[i + 1], write_buf[1])
        <5> DEFINE k == i + 1
        <5>1. k \in 1 .. Len(write_buf) /\ 1 \in 1 .. Len(write_buf) /\ k # 1
          BY <1>3, <2>3, <3>2
        <5> HIDE DEF k
        <5>2. /\ Outstanding(write_buf[k])
              /\ \A q \in requests : Apart(write_buf[k], q)
              /\ Apart(write_buf[k], write_buf[1])
          BY <1>2, <5>1 DEF RequestInv
        <5>3. /\ Out(write_buf[k])
              /\ \A q \in requests' : Apart(write_buf[k], q)
              /\ Apart(write_buf[k], write_buf[1])
          BY <1>1, <2>6, <5>2
        <5> QED
          BY <5>3 DEF k
      <4>3. ASSUME NEW j \in 1 .. Len(write_buf'), i # j
            PROVE  Apart(write_buf'[i], write_buf'[j])
        BY <1>2, <1>3, <2>3, <2>7, <3>2, <4>1, <4>3 DEF RequestInv
      <4> QED
        BY <4>1, <4>2, <4>3
    <3>3. \A i \in 1 .. Len(write_buf') : i = Len(write_buf) \/ i < Len(write_buf)
      <4>1. Len(write_buf) \in Nat
        BY <1>3
      <4>2. Len(write_buf') = Len(write_buf)
        BY <2>3
      <4> QED
        BY <4>1, <4>2
    <3> HIDE DEF Good
    <3>4. \A i \in 1 .. Len(write_buf') : Good(i)
      BY <3>1, <3>2, <3>3, Zenon
    <3> QED
      BY <3>4 DEF Good
  <2>9. Out(write_buf[1]) /\ \A q \in requests' : Apart(write_buf[1], q) /\ Out(q)
    BY <1>1, <1>2, <1>3, <2>6 DEF RequestInv
  <2>10. \A d \in Calls : pc'[d] \in Unqueued => answered'[d] = "none"
    BY <1>1, <1>2, <2>5 DEF RequestInv
  <2>11. 1 .. Len(writing') = {1}
    BY <1>4
  <2> QED
    BY <1>4, <2>8, <2>9, <2>10, <2>11 DEF RequestInv, Apart, Outstanding
<1> QED
  BY <1>1, <1>5, <1>6

\* async_write brings the request to the peer.
LEMMA WriterWritesRequests ==
  ASSUME RInv, WriterWrites
  PROVE  RequestInv'
<1>1. /\ UNCHANGED <<pc, write_buf, answered>>
      /\ requests' \subseteq requests \cup {writing[1]}
      /\ writing' = <<>>
      /\ writer = "writing"
  BY DEF WriterWrites
<1>2. RequestInv /\ 1 \in 1 .. Len(writing)
  BY <1>1 DEF RInv, IInv, WriteTypes
<1>3. \A i \in 1 .. Len(write_buf) : \A q \in requests' : Apart(write_buf[i], q)
  BY <1>1, <1>2 DEF RequestInv
<1>4. \A q \in requests' : Outstanding(q)
  BY <1>1, <1>2 DEF RequestInv
<1>5. 1 .. Len(writing') = {}
  BY <1>1
<1> QED
  BY <1>1, <1>2, <1>3, <1>4, <1>5 DEF RequestInv, Apart, Outstanding

\* The peer answers a request once.
LEMMA PeerAnswersRequests ==
  ASSUME RInv, NEW q \in requests, NEW kind \in AnswerKind, PeerAnswers(q, kind)
  PROVE  RequestInv'
<1>1. /\ UNCHANGED <<pc, write_buf, writing>>
      /\ requests' = requests \ {q}
      /\ answered' = [answered EXCEPT ![q.call] = kind]
  BY DEF PeerAnswers
<1>2. /\ RequestInv
      /\ answered \in [Calls -> AnswerKind \cup {"none"}]
      /\ q.call \in Calls
      /\ pc[q.call] \notin Unqueued
  BY DEF RInv, IInv, NetTypes, WireInv, RequestInv, Outstanding
<1>3. \A p \in requests' : p.call # q.call
  BY <1>1 DEF RInv, IInv, NetTypes, WireInv, Genuine, Item
<1>4. \A i : i.call # q.call /\ Outstanding(i) => Outstanding(i)'
  BY <1>1, <1>2 DEF Outstanding
<1>5. /\ \A i \in 1 .. Len(write_buf) : write_buf[i].call # q.call
      /\ \A i \in 1 .. Len(writing) : writing[i].call # q.call
  BY <1>2 DEF RequestInv, Apart
<1> QED
  BY <1>1, <1>2, <1>3, <1>5 DEF RequestInv, Apart, Outstanding

\* Every step keeps requests in one place.
LEMMA RequestStep ==
  ASSUME RInv, [Next]_vars
  PROVE  RequestInv'
<1> DEFINE Quiet == /\ UNCHANGED <<write_buf, answered>>
                    /\ writing' = writing \/ writing' = <<>>
                    /\ requests' \subseteq requests
                    /\ \A c \in Calls : pc'[c] \in Unqueued => pc[c] \in Unqueued
<1>1. RequestInv /\ pc \in [Calls -> PCs]
  BY DEF RInv, IInv, CallTypes
<1>2. ASSUME Quiet PROVE RequestInv'
  BY <1>1, <1>2, RequestInvKept
<1>3. CASE UNCHANGED vars
  BY <1>2, <1>3 DEF vars
<1>4. CASE TryNotify
  BY <1>4, TryNotifyRequests
<1>5. ASSUME NEW c \in Calls, CallNext(c) PROVE RequestInv'
  <2> HIDE DEF Quiet
  <2>1. CASE QueueWrite(c)
    BY <2>1, QueueWriteRequests
  <2>2. CASE CreateOperation(c) \/ SendFails(c) \/ ArmTimer(c)
    BY <1>1, <1>2, <2>2
    DEF Quiet, CreateOperation, SendFails, ArmTimer, Unqueued
  <2>3. CASE BeginReceive(c) \/ Resume(c)
    BY <1>1, <1>2, <2>3 DEF Quiet, BeginReceive, Resume, Unqueued
  <2>4. CASE TimerFires(c) \/ TimerFlags(c) \/ TimerCancels(c)
    BY <1>1, <1>2, <2>4 DEF Quiet, TimerFires, TimerFlags, TimerCancels, Unqueued
  <2> QED
    BY <1>5, <2>1, <2>2, <2>3, <2>4 DEF CallNext
<1>6. CASE WriterNext
  BY <1>2, <1>6, WriterTakesRequests, WriterWritesRequests
  DEF WriterNext, WriterFails, WriterExits
<1>7. CASE ReaderNext
  <2>1. CASE CompleteSend
    <3>1. held.to \in Calls
      BY <2>1 DEF RInv, IInv, ReadTypes, Held, CompleteSend
    <3> QED
      BY <1>1, <1>2, <2>1, <3>1 DEF CompleteSend, Unqueued
  <2>2. CASE CloseRejected \/ ReaderFails \/ \E f \in inbound : ReadFrame(f)
    BY <1>2, <2>2 DEF CloseRejected, ReaderFails, ReadFrame
  <2> QED
    BY <1>7, <2>1, <2>2, RejectRequestRequests DEF ReaderNext
<1>8. CASE CloseNext
  <2>1. ASSUME NEW c \in Calls, CancelOne(c) PROVE RequestInv'
    BY <1>1, <1>2, <2>1 DEF CancelOne, Unqueued
  <2>2. CASE Disconnect \/ CloseWriteChannel \/ CancelAllSwap \/ CloseSocket
    BY <1>2, <2>2 DEF Disconnect, CloseWriteChannel, CancelAllSwap, CloseSocket
  <2> QED
    BY <1>8, <2>1, <2>2 DEF CloseNext
<1>9. CASE PeerNext
  BY <1>9, PeerAnswersRequests DEF PeerNext
<1> QED
  BY <1>3, <1>4, <1>5, <1>6, <1>7, <1>8, <1>9 DEF Next

-----------------------------------------------------------------------------
(* An answer keeps its kind *)

\* A step that moves no answer.
LEMMA KindInvKept ==
  ASSUME KindInv, UNCHANGED <<answered, held, inbox>>,
         reader' = "completing" => reader = "completing",
         inbound' \subseteq inbound,
         \A c \in Calls : ready'[c] \in {ready[c], Aborted}
  PROVE  KindInv'
  BY DEF KindInv

\* The caller takes what its channel holds.
LEMMA BeginReceiveKind ==
  ASSUME RInv, NEW c \in Calls, BeginReceive(c)
  PROVE  KindInv'
<1>1. /\ inbox \in [Calls -> Message \cup {Nothing}]
      /\ ready \in [Calls -> Message \cup {Nothing, Aborted}]
      /\ UNCHANGED <<answered, reader, held, inbound>>
  BY DEF RInv, IInv, CallTypes, BeginReceive
<1> QED
  BY <1>1 DEF RInv, KindInv, BeginReceive

\* complete_operation takes the frame's kind out of the stream ...
LEMMA ReadFrameKind ==
  ASSUME RInv, NEW f \in inbound, ReadFrame(f)
  PROVE  KindInv'
  BY DEF RInv, KindInv, ReadFrame

\* ... and sends it to the channel of the call the frame answers.
LEMMA CompleteSendKind ==
  ASSUME RInv, CompleteSend
  PROVE  KindInv'
<1>1. /\ reader = "completing"
      /\ held \in Held
      /\ held.for = held.to
      /\ answered[held.to] = held.kind
  BY DEF RInv, IInv, ReadTypes, OwnershipInv, KindInv, CompleteSend
<1>2. /\ inbox \in [Calls -> Message \cup {Nothing}]
      /\ ready \in [Calls -> Message \cup {Nothing, Aborted}]
  BY DEF RInv, IInv, CallTypes
<1>3. /\ UNCHANGED <<answered, inbound>>
      /\ reader' # "completing"
      /\ held.to \in Calls
  BY <1>1 DEF CompleteSend, Held
<1>4. \A c \in Calls : inbox'[c] # Nothing => answered[c] = inbox'[c].kind
  BY <1>1, <1>2, <1>3 DEF RInv, KindInv, CompleteSend
<1>5. \A c \in Calls : ready'[c] \notin {Nothing, Aborted} => answered[c] = ready'[c].kind
  BY <1>1, <1>2, <1>3 DEF RInv, KindInv, CompleteSend
<1> QED
  BY <1>3, <1>4, <1>5 DEF RInv, KindInv

\* The answer to a call that had none spoils no other.
LEMMA PeerAnswersKind ==
  ASSUME RInv, NEW q \in requests, NEW kind \in AnswerKind, PeerAnswers(q, kind)
  PROVE  KindInv'
<1>1. /\ answered' = [answered EXCEPT ![q.call] = kind]
      /\ inbound' = inbound \cup {[token |-> q.token, kind |-> kind, for |-> q.call]}
      /\ UNCHANGED <<inbox, ready, reader, held>>
  BY DEF PeerAnswers
<1>2. /\ q.call \in Calls
      /\ answered[q.call] = "none"
      /\ answered \in [Calls -> AnswerKind \cup {"none"}]
  BY DEF RInv, IInv, WireInv, RequestInv, Outstanding, NetTypes
<1>3. \A f \in inbound : f.for # q.call
  BY <1>2 DEF RInv, IInv, KindInv, NetTypes, Frame
<1>4. reader = "completing" => held.for # q.call
  BY <1>2 DEF RInv, IInv, KindInv, ReadTypes, Held
<1>5. inbox[q.call] = Nothing /\ ready[q.call] \in {Nothing, Aborted}
  BY <1>2 DEF RInv, IInv, KindInv, CallTypes, Message
<1> QED
  BY <1>1, <1>2, <1>3, <1>4, <1>5 DEF RInv, KindInv

\* Every step keeps the kinds of answers.
LEMMA KindStep ==
  ASSUME RInv, [Next]_vars
  PROVE  KindInv'
<1> DEFINE Quiet == /\ UNCHANGED <<answered, held, inbox>>
                    /\ reader' = "completing" => reader = "completing"
                    /\ inbound' \subseteq inbound
                    /\ \A c \in Calls : ready'[c] \in {ready[c], Aborted}
<1>1. KindInv /\ ready \in [Calls -> Message \cup {Nothing, Aborted}]
  BY DEF RInv, IInv, CallTypes
<1>2. ASSUME Quiet PROVE KindInv'
  BY <1>1, <1>2, KindInvKept
<1>3. CASE UNCHANGED vars
  BY <1>2, <1>3 DEF vars
<1>4. CASE TryNotify
  BY <1>2, <1>4 DEF TryNotify
<1>5. ASSUME NEW c \in Calls, CallNext(c) PROVE KindInv'
  <2> HIDE DEF Quiet
  <2>1. CASE BeginReceive(c)
    BY <2>1, BeginReceiveKind
  <2>2. CASE CreateOperation(c) \/ SendFails(c) \/ ArmTimer(c)
    BY <1>2, <2>2
    DEF Quiet, CreateOperation, SendFails, ArmTimer
  <2>3. CASE QueueWrite(c) \/ Resume(c)
    BY <1>2, <2>3 DEF Quiet, QueueWrite, Resume
  <2>4. CASE TimerFires(c) \/ TimerFlags(c) \/ TimerCancels(c)
    BY <1>1, <1>2, <2>4 DEF Quiet, TimerFires, TimerFlags, TimerCancels
  <2> QED
    BY <1>5, <2>1, <2>2, <2>3, <2>4 DEF CallNext
<1>6. CASE WriterNext
  BY <1>2, <1>6 DEF WriterNext, WriterTakes, WriterWrites, WriterFails, WriterExits,
     AfterRespond
<1>7. CASE ReaderNext
  <2>1. CASE ReaderFails \/ CloseRejected
    BY <1>1, <2>1 DEF ReaderFails, CloseRejected, KindInv
  <2>2. ASSUME NEW at \in {"responding", "rejecting"}, RejectRequest(at)
        PROVE  KindInv'
    BY <1>2, <2>2 DEF RejectRequest, AfterRespond
  <2> QED
    BY <1>7, <2>1, <2>2, CompleteSendKind, ReadFrameKind DEF ReaderNext
<1>8. CASE CloseNext
  <2>1. ASSUME NEW c \in Calls, CancelOne(c) PROVE KindInv'
    BY <1>1, <1>2, <2>1 DEF CancelOne
  <2>2. CASE Disconnect \/ CloseWriteChannel \/ CancelAllSwap \/ CloseSocket
    BY <1>2, <2>2 DEF Disconnect, CloseWriteChannel, CancelAllSwap, CloseSocket
  <2> QED
    BY <1>8, <2>1, <2>2 DEF CloseNext
<1>9. CASE PeerNext
  BY <1>9, PeerAnswersKind DEF PeerNext
<1> QED
  BY <1>3, <1>4, <1>5, <1>6, <1>7, <1>8, <1>9 DEF Next

\* The strengthened invariant holds in every reachable state.
LEMMA RInvariance == Spec => []RInv
<1>1. Init => RInv
  <2>1. Init => RequestInv /\ KindInv
    BY DEF Init, RequestInv, KindInv
  <2> QED
    BY <2>1, InitIInv DEF RInv
<1>2. RInv /\ [Next]_vars => RInv'
  BY NextIInv, RequestStep, KindStep DEF RInv
<1> QED
  BY <1>1, <1>2, PTL DEF Spec

-----------------------------------------------------------------------------
(* The refinement *)

\* A call that neither starts nor returns looks the same from outside.
LEMMA StatusKept ==
  ASSUME UNCHANGED outcome,
         \A c \in Calls : \/ pc'[c] = pc[c]
                          \/ {pc[c], pc'[c]} \cap {"idle", "done"} = {}
  PROVE  Status' = Status
  BY DEF Status

\* One call moves on; every other keeps its status.
LEMMA StatusMoves ==
  ASSUME NEW c \in Calls, NEW p, NEW o,
         pc \in [Calls -> PCs], outcome \in [Calls -> Outcomes \cup {"none"}],
         pc' = [pc EXCEPT ![c] = p],
         outcome' = outcome \/ outcome' = [outcome EXCEPT ![c] = o]
  PROVE  Status' = [Status EXCEPT ![c] = Status'[c]]
  BY DEF Status

\* create_operation is the invocation.
LEMMA CreateOperationInvokes ==
  ASSUME RInv, NEW c \in Calls, CreateOperation(c)
  PROVE  Abstract!Invoke(c)
<1>1. /\ pc \in [Calls -> PCs]
      /\ outcome \in [Calls -> Outcomes \cup {"none"}]
  BY DEF RInv, IInv, CallTypes
<1>2. /\ pc[c] = "idle"
      /\ pc' = [pc EXCEPT ![c] = "registered"]
      /\ UNCHANGED <<outcome, answered>>
  BY DEF CreateOperation
<1>3. Status[c] = "idle" /\ Status'[c] = "pending"
  BY <1>1, <1>2 DEF Status
<1>4. Status' = [Status EXCEPT ![c] = Status'[c]]
  BY <1>1, <1>2, StatusMoves
<1> QED
  BY <1>2, <1>3, <1>4 DEF Abstract!Invoke

\* The end of the coroutine, however it comes about, is the return.
LEMMA DoneReturns ==
  ASSUME RInv, NEW c \in Calls, NEW o \in Outcomes,
         pc[c] \notin {"idle", "done"},
         pc' = [pc EXCEPT ![c] = "done"],
         outcome' = [outcome EXCEPT ![c] = o],
         UNCHANGED answered,
         o = "ok" => answered[c] = "response",
         o = "error" => answered[c] = "error"
  PROVE  Abstract!Return(c, o)
<1>1. /\ pc \in [Calls -> PCs]
      /\ outcome \in [Calls -> Outcomes \cup {"none"}]
  BY DEF RInv, IInv, CallTypes
<1>2. Status[c] = "pending" /\ Status'[c] = o
  BY <1>1 DEF Status
<1>3. Status' = [Status EXCEPT ![c] = Status'[c]]
  BY <1>1, StatusMoves
<1> QED
  BY <1>2, <1>3 DEF Abstract!Return

\* The caller resumes with the peer's answer to it, or with a failure.
LEMMA ResumeReturns ==
  ASSUME RInv, NEW c \in Calls, Resume(c)
  PROVE  Abstract!Return(c, OutcomeOf(c))
<1>1. /\ pc[c] = "resumed"
      /\ pc' = [pc EXCEPT ![c] = "done"]
      /\ outcome' = [outcome EXCEPT ![c] = OutcomeOf(c)]
      /\ UNCHANGED answered
  BY DEF Resume
<1>2. OutcomeOf(c) \in Outcomes
  BY DEF OutcomeOf
<1>3. ready[c] \in Message \cup {Aborted}
  BY <1>1 DEF RInv, IInv, CallTypes, AnswerInv
<1>4. OutcomeOf(c) \in {"ok", "error"} =>
        ready[c] \notin {Nothing, Aborted} /\ ready[c].kind = answered[c]
  BY <1>3 DEF OutcomeOf, RInv, KindInv, Message
<1>5. /\ OutcomeOf(c) = "ok" => answered[c] = "response"
      /\ OutcomeOf(c) = "error" => answered[c] = "error"
  BY <1>3, <1>4 DEF OutcomeOf, Message
<1> QED
  BY <1>1, <1>2, <1>5, DoneReturns

\* The peer answers a call that has been made, and for the first time.
LEMMA PeerAnswersAnswer ==
  ASSUME RInv, NEW q \in requests, NEW kind \in AnswerKind, PeerAnswers(q, kind)
  PROVE  Abstract!Answer(q.call, kind)
<1>1. /\ q.call \in Calls
      /\ answered[q.call] = "none"
      /\ pc[q.call] # "idle"
      /\ pc[q.call] = "done" => outcome[q.call] # "idle"
  BY DEF RInv, IInv, WireInv, RequestInv, Outstanding, Unqueued, CallTypes
<1>2. Status[q.call] # "idle" /\ UNCHANGED Status
  BY <1>1 DEF Status, PeerAnswers
<1> QED
  BY <1>1, <1>2 DEF Abstract!Answer, PeerAnswers

\* Every step of the session is a step of the promise, or invisible to callers.
LEMMA RefinementStep ==
  ASSUME RInv, [Next]_vars
  PROVE  [Abstract!Next]_(Abstract!vars)
<1> DEFINE Quiet == /\ UNCHANGED <<outcome, answered>>
                    /\ \A c \in Calls : \/ pc'[c] = pc[c]
                                        \/ {pc[c], pc'[c]} \cap {"idle", "done"} = {}
           Goal == [Abstract!Next]_(Abstract!vars)
<1>1. pc \in [Calls -> PCs]
  BY DEF RInv, IInv, CallTypes
<1>2. ASSUME Quiet PROVE Goal
  BY <1>2, StatusKept DEF Abstract!vars
<1>3. ASSUME NEW c \in Calls, NEW o \in Outcomes, Abstract!Return(c, o) PROVE Goal
  BY <1>3 DEF Abstract!Next, Abstract!Outcomes, Abstract!LocalFailures
<1> SUFFICES Goal
  OBVIOUS
<1> HIDE DEF Goal, Quiet
<1>4. CASE UNCHANGED vars
  BY <1>2, <1>4 DEF vars, Quiet
<1>5. CASE TryNotify
  BY <1>2, <1>5 DEF TryNotify, Quiet
<1>6. ASSUME NEW c \in Calls, CallNext(c) PROVE Goal
  <2>1. CASE CreateOperation(c)
    BY <2>1, CreateOperationInvokes DEF Goal, Abstract!Next
  <2>2. CASE SendFails(c)
    <3>1. /\ pc[c] = "registered"
          /\ pc' = [pc EXCEPT ![c] = "done"]
          /\ outcome' = [outcome EXCEPT ![c] = "send_failed"]
          /\ UNCHANGED answered
      BY <2>2 DEF SendFails
    <3>2. Abstract!Return(c, "send_failed")
      BY <3>1, DoneReturns
    <3> QED
      BY <1>3, <3>2
  <2>3. CASE Resume(c)
    <3>1. OutcomeOf(c) \in Outcomes
      BY DEF OutcomeOf
    <3> QED
      BY <1>3, <2>3, <3>1, ResumeReturns
  <2>4. CASE QueueWrite(c) \/ ArmTimer(c) \/ BeginReceive(c)
    <3>1. Quiet
      BY <1>1, <2>4 DEF Quiet, QueueWrite, ArmTimer, BeginReceive
    <3> QED
      BY <1>2, <3>1
  <2>5. CASE TimerFires(c) \/ TimerFlags(c) \/ TimerCancels(c)
    <3>1. Quiet
      BY <1>1, <2>5 DEF Quiet, TimerFires, TimerFlags, TimerCancels
    <3> QED
      BY <1>2, <3>1
  <2> QED
    BY <1>6, <2>1, <2>2, <2>3, <2>4, <2>5 DEF CallNext
<1>7. CASE WriterNext
  <2>1. CASE WriterTakes
    <3>1. /\ UNCHANGED <<outcome, answered>>
          /\ \/ UNCHANGED pc
             \/ /\ parked # <<>>
                /\ pc' = [c \in Calls |->
                            IF c = Head(parked).call THEN "sent" ELSE pc[c]]
      BY <2>1 DEF WriterTakes
    <3>2. parked # <<>> /\ Head(parked).call \in Calls =>
            pc[Head(parked).call] = "parked"
      BY TailFacts DEF RInv, IInv, WireInv, WriteTypes
    <3>3. Quiet
      BY <1>1, <3>1, <3>2 DEF Quiet
    <3> QED
      BY <1>2, <3>3
  <2>2. CASE WriterWrites \/ WriterFails \/ WriterExits
    BY <1>2, <2>2 DEF Quiet, WriterWrites, WriterFails, WriterExits
  <2> QED
    BY <1>7, <2>1, <2>2 DEF WriterNext
<1>8. CASE ReaderNext
  <2>1. Quiet
    BY <1>1, <1>8 DEF Quiet, ReaderNext, CompleteSend, RejectRequest, CloseRejected,
       ReaderFails, ReadFrame
  <2> QED
    BY <1>2, <2>1
<1>9. CASE CloseNext
  <2>1. ASSUME NEW c \in Calls, CancelOne(c) PROVE Quiet
    BY <1>1, <2>1 DEF Quiet, CancelOne
  <2>2. CASE Disconnect \/ CloseWriteChannel \/ CancelAllSwap \/ CloseSocket
    BY <1>2, <2>2 DEF Quiet, Disconnect, CloseWriteChannel, CancelAllSwap, CloseSocket
  <2> QED
    BY <1>2, <1>9, <2>1, <2>2 DEF CloseNext
<1>10. CASE PeerNext
  <2>1. PICK q \in requests, kind \in AnswerKind : PeerAnswers(q, kind)
    BY <1>10 DEF PeerNext
  <2>2. q.call \in Calls
    BY DEF RInv, IInv, WireInv
  <2>3. Abstract!Answer(q.call, kind)
    BY <2>1, PeerAnswersAnswer
  <2> QED
    BY <2>2, <2>3 DEF Goal, Abstract!Next
<1> QED
  BY <1>4, <1>5, <1>6, <1>7, <1>8, <1>9, <1>10 DEF Next

\* session::call implements its promise: the session's behaviours, seen through
\* the status of the calls and the peer's answers, are behaviours of RpcCall.
THEOREM CallsKeepTheirPromise == Spec => CallPromise
<1>1. Init => Abstract!Init
  BY DEF Init, Abstract!Init, Status
<1>2. RInv /\ [Next]_vars => [Abstract!Next]_(Abstract!vars)
  BY RefinementStep
<1> QED
  BY <1>1, <1>2, RInvariance, PTL DEF Spec, CallPromise, Abstract!Spec

=============================================================================
