--------------------------- MODULE TimeCache_proofs ---------------------------
(***************************************************************************)
(* Proofs about TimeCache for every number of slots from two on, every     *)
(* depth of nested handlers and every run of the clock.                    *)
(***************************************************************************)
EXTENDS TimeCache, TLAPS

LEMMA InitType == Init => TypeOK
<1> SUFFICES ASSUME Init PROVE TypeOK
  OBVIOUS
<1>1. 2 % N \in Slots /\ 1 \in Second
  BY TimeAssumption DEF Slots, Second
<1>2. slot \in Slots /\ pubTime \in Slots /\ pubErr \in Slots /\ now \in Second
  BY <1>1 DEF Init
<1>3. sec \in [Slots -> {0} \cup Second]
  BY <1>2 DEF Init
<1>4. err \in [Slots -> ({0} \cup Second) \X ({0} \cup Second)]
  BY <1>2 DEF Init
<1>5. stack \in Seq(Act)
  BY DEF Init
<1> QED BY <1>2, <1>3, <1>4, <1>5 DEF Init, TypeOK

LEMMA NextSlotIsNext == slot \in Slots => NextSlot \in Slots /\ NextSlot # slot
  BY TimeAssumption DEF NextSlot, Slots

(* What the three operations on the stack do to it.                        *)
LEMMA PushStack ==
  ASSUME stack \in Seq(Act), NEW a \in Act, Push(a)
  PROVE  /\ stack' \in Seq(Act) /\ DOMAIN stack' = DOMAIN stack \cup {Len(stack) + 1}
         /\ \A i \in DOMAIN stack : stack'[i] = stack[i]
         /\ stack'[Len(stack) + 1] = a
         /\ Len(stack) + 1 \notin DOMAIN stack
  BY DEF Push

LEMMA ReplaceStack ==
  ASSUME stack \in Seq(Act), stack # << >>, NEW a \in Act, Replace(a)
  PROVE  /\ stack' \in Seq(Act) /\ DOMAIN stack' = DOMAIN stack
         /\ \A i \in DOMAIN stack : i # Len(stack) => stack'[i] = stack[i]
         /\ stack'[Len(stack)] = a /\ Len(stack) \in DOMAIN stack
  BY DEF Replace

LEMMA ReturnStack ==
  ASSUME stack \in Seq(Act), stack # << >>, Return
  PROVE  /\ stack' \in Seq(Act) /\ DOMAIN stack' = DOMAIN stack \ {Len(stack)}
         /\ \A i \in DOMAIN stack' : stack'[i] = stack[i]
  BY DEF Return

(* Where an activation may go when its update is over.                     *)
LEMMA UpdateReturnsStack ==
  ASSUME stack \in Seq(Act), stack # << >>, UpdateReturns
  PROVE  /\ stack' \in Seq(Act) /\ DOMAIN stack' \subseteq DOMAIN stack
         /\ Len(stack) \in DOMAIN stack
         /\ \A i \in DOMAIN stack \ {Len(stack)} : i \in DOMAIN stack' /\ stack'[i] = stack[i]
         /\ Len(stack) \in DOMAIN stack' => stack'[Len(stack)].pc = "copy"
<1>0. Len(stack) \in DOMAIN stack /\ Top \in Act
  BY DEF Top
<1>1. CASE Top.op = "handler"
  <2>1. [Top EXCEPT !.pc = "copy"] \in Act /\ [Top EXCEPT !.pc = "copy"].pc = "copy"
    BY <1>0 DEF Act
  <2>2. Replace([Top EXCEPT !.pc = "copy"])
    BY <1>1 DEF UpdateReturns
  <2> HIDE DEF Top
  <2> QED BY <1>0, <2>1, <2>2, ReplaceStack
<1>2. CASE Top.op # "handler"
  <2>1. Return
    BY <1>2 DEF UpdateReturns
  <2> QED BY <1>0, <2>1, ReturnStack
<1> QED BY <1>1, <1>2

(* The top activation moves to another place, the rest stays.              *)
Moves(pc) ==
  /\ stack' \in Seq(Act) /\ DOMAIN stack' = DOMAIN stack
  /\ \A i \in DOMAIN stack : i # Len(stack) => stack'[i].pc = stack[i].pc
                                               /\ stack'[i].at = stack[i].at
  /\ stack'[Len(stack)].pc = pc /\ Len(stack) \in DOMAIN stack

LEMMA ReplaceMoves ==
  ASSUME stack \in Seq(Act), stack # << >>, NEW a \in Act, Replace(a)
  PROVE  Moves(a.pc) /\ stack'[Len(stack)].at = a.at
  BY ReplaceStack DEF Moves

LEMMA TakeSlotMoves ==
  ASSUME TypeOK, TakeSlot
  PROVE  Moves("first") /\ stack'[Len(stack)].at = now
<1> DEFINE f(i) == IF i = Len(stack) THEN [Top EXCEPT !.pc = "first", !.at = now]
                                     ELSE OneMore(stack[i])
<1>1. stack' = [i \in DOMAIN stack |-> f(i)] /\ stack # << >> /\ stack \in Seq(Act)
  BY DEF TakeSlot, Running, TypeOK
<1>2. Len(stack) \in DOMAIN stack /\ Top = stack[Len(stack)]
  BY <1>1 DEF Top
<1>3. ASSUME NEW i \in DOMAIN stack, i # Len(stack)
      PROVE  f(i) \in Act /\ f(i).pc = stack[i].pc /\ f(i).at = stack[i].at
  <2>1. stack[i] \in Act
    BY <1>1
  <2>2. f(i) = OneMore(stack[i])
    BY <1>3
  <2> HIDE DEF f
  <2> QED BY <2>1, <2>2, TimeAssumption DEF OneMore, Act
<1>4. f(Len(stack)) \in Act /\ f(Len(stack)).pc = "first" /\ f(Len(stack)).at = now
  <2>1. stack[Len(stack)] \in Act /\ now \in {0} \cup Second /\ "first" \in Updating
    BY <1>1, <1>2 DEF TypeOK, Updating
  <2>2. f(Len(stack)) = [Top EXCEPT !.pc = "first", !.at = now]
    OBVIOUS
  <2> HIDE DEF f
  <2> QED BY <2>1, <2>2, <1>2 DEF Act
<1> HIDE DEF f
<1> QED BY <1>1, <1>2, <1>3, <1>4 DEF Moves

-------------------------------------------------------------------------------
(* Types.                                                                  *)

LEMMA TypeStep == TypeOK /\ [Next]_vars => TypeOK'
<1> SUFFICES ASSUME TypeOK, [Next]_vars PROVE TypeOK'
  OBVIOUS
<1>0. stack \in Seq(Act) /\ NextSlot \in Slots
  BY NextSlotIsNext DEF TypeOK
<1>00. ASSUME stack # << >> PROVE Top \in Act
  BY <1>0, <1>00 DEF Top
<1>1. CASE Tick
  BY <1>1, TimeAssumption DEF Tick, TypeOK, shared, Second
<1>2. CASE Signal \/ MainLogs \/ MainUpdates
  <2>1. ASSUME NEW op \in {"handler", "update", "log"}, NEW pc \in {"try", "copy"}
        PROVE  Activation(op, pc) \in Act
    BY TimeAssumption DEF Activation, Act, Slots
  <2>2. stack' \in Seq(Act)
    BY <1>0, <1>2, <2>1, PushStack DEF Signal, MainLogs, MainUpdates
  <2> QED BY <1>2, <2>2 DEF Signal, MainLogs, MainUpdates, TypeOK, shared
<1>3. CASE TryLock
  <2>1. stack # << >> /\ (lock = 0 => Replace([Top EXCEPT !.pc = "check"]))
        /\ (lock # 0 => UpdateReturns)
    BY <1>3 DEF TryLock, Running
  <2>2. [Top EXCEPT !.pc = "check"] \in Act
    BY <2>1, <1>00 DEF Act, Updating
  <2>3. stack' \in Seq(Act)
    BY <1>0, <2>1, <2>2, ReplaceStack, UpdateReturnsStack
  <2> QED BY <1>3, <2>3 DEF TryLock, TypeOK
<1>4. CASE SameSecond
  BY <1>0, <1>4, UpdateReturnsStack DEF SameSecond, Running, TypeOK
<1>5. CASE TakeSlot
  <2>1. stack' \in Seq(Act)
    BY <1>5, TakeSlotMoves DEF Moves
  <2>2. sec' \in [Slots -> {0} \cup Second]
    BY <1>5 DEF TakeSlot, TypeOK
  <2> QED BY <1>0, <1>5, <2>1, <2>2 DEF TakeSlot, TypeOK
<1>6. CASE FirstHalf
  <2>1. stack # << >> /\ Replace([Top EXCEPT !.pc = "second"])
    BY <1>6 DEF FirstHalf, Running
  <2>2. [Top EXCEPT !.pc = "second"] \in Act
    BY <2>1, <1>00 DEF Act, Updating
  <2>3. err' \in [Slots -> ({0} \cup Second) \X ({0} \cup Second)]
    BY <2>1, <1>00, <1>6 DEF FirstHalf, TypeOK, Act
  <2> QED BY <1>0, <1>6, <2>1, <2>2, <2>3, ReplaceStack DEF FirstHalf, TypeOK
<1>7. CASE SecondHalf
  <2>1. stack # << >> /\ Replace([Top EXCEPT !.pc = "publish"])
    BY <1>7 DEF SecondHalf, Running
  <2>2. [Top EXCEPT !.pc = "publish"] \in Act
    BY <2>1, <1>00 DEF Act, Updating
  <2>3. err' \in [Slots -> ({0} \cup Second) \X ({0} \cup Second)]
    BY <2>1, <1>00, <1>7 DEF SecondHalf, TypeOK, Act
  <2> QED BY <1>0, <1>7, <2>1, <2>2, <2>3, ReplaceStack DEF SecondHalf, TypeOK
<1>8. CASE Publish
  <2>1. stack # << >> /\ Replace([Top EXCEPT !.pc = "unlock"])
    BY <1>8 DEF Publish, Running
  <2>2. [Top EXCEPT !.pc = "unlock"] \in Act
    BY <2>1, <1>00 DEF Act, Updating
  <2> QED BY <1>0, <1>8, <2>1, <2>2, ReplaceStack DEF Publish, TypeOK
<1>9. CASE Unlock
  BY <1>0, <1>9, UpdateReturnsStack DEF Unlock, Running, TypeOK
<1>10. CASE Copy
  <2>1. stack # << >> /\ Replace([Top EXCEPT !.pc = "rest", !.from = pubErr, !.filled = 0,
                                             !.line = <<err[pubErr][1], 0>>])
    BY <1>10 DEF Copy, Running
  <2>2. [Top EXCEPT !.pc = "rest", !.from = pubErr, !.filled = 0,
                    !.line = <<err[pubErr][1], 0>>] \in Act
    <3>1. <<err[pubErr][1], 0>> \in ({0} \cup Second) \X ({0} \cup Second)
          /\ 0 \in 0 .. N /\ pubErr \in Slots
      BY TimeAssumption DEF TypeOK
    <3>2. Top \in Act
      BY <2>1, <1>00
    <3> HIDE DEF Top
    <3> QED BY <3>1, <3>2 DEF Act
  <2> QED BY <1>0, <1>10, <2>1, <2>2, ReplaceStack DEF Copy, TypeOK, shared
<1>11. CASE CopyRest
  <2>1. stack # << >>
        /\ Replace([Top EXCEPT !.pc = "write", !.line = <<@[1], err[Top.from][2]>>])
    BY <1>11 DEF CopyRest, Running
  <2>2. [Top EXCEPT !.pc = "write", !.line = <<@[1], err[Top.from][2]>>] \in Act
    BY <2>1, <1>00 DEF Act, TypeOK
  <2> QED BY <1>0, <1>11, <2>1, <2>2, ReplaceStack DEF CopyRest, TypeOK, shared
<1>12. CASE Skip \/ Write \/ WriteFails
  <2>1. stack' \in Seq(Act)
    BY <1>0, <1>12, ReturnStack DEF Skip, Write, WriteFails, Running
  <2> QED BY <1>12, <2>1 DEF Skip, Write, WriteFails, TypeOK, shared
<1>13. CASE UNCHANGED vars
  BY <1>13 DEF vars, shared, TypeOK
<1> QED BY <1>1, <1>2, <1>3, <1>4, <1>5, <1>6, <1>7, <1>8, <1>9, <1>10, <1>11,
           <1>12, <1>13 DEF Next, Update, Log

(* Types, with every slot index inside the arrays, for every N >= 2.       *)
THEOREM TypeCorrect == Spec => []TypeOK
  BY InitType, TypeStep, PTL DEF Spec
-------------------------------------------------------------------------------
(* The lock and the published string.                                      *)

(* At most one activation updates and it holds the lock; it fills a slot   *)
(* that is not published, and publishes it when both halves agree.         *)
Filling == {"first", "second", "publish"}

FillInv ==
  /\ \A i, j \in DOMAIN stack :
       stack[i].pc \in Updating /\ stack[j].pc \in Updating => i = j
  /\ lock = 0 => \A i \in DOMAIN stack : stack[i].pc \notin Updating
  /\ lock # 0 => \E i \in DOMAIN stack : stack[i].pc \in Updating
  /\ \A i \in DOMAIN stack :
       /\ stack[i].pc \in Filling => slot # pubErr
       /\ stack[i].pc = "second" => err[slot][1] = stack[i].at
       /\ stack[i].pc = "publish" => err[slot][1] = err[slot][2]
  /\ slot # pubErr => \E i \in DOMAIN stack : stack[i].pc \in Filling
  /\ PublishedIsWhole

LEMMA FillInit == Init => FillInv
<1> SUFFICES ASSUME Init PROVE FillInv
  OBVIOUS
<1>1. stack = << >> /\ lock = 0 /\ slot = pubErr
  BY DEF Init
<1>2. pubErr \in Slots /\ err[pubErr] = <<now, now>>
  BY <1>1, InitType DEF Init, TypeOK
<1> QED BY <1>1, <1>2 DEF FillInv, PublishedIsWhole

(* Activations that are not updating begin, move and end.                  *)
LEMMA OutsideStep ==
  ASSUME FillInv, UNCHANGED <<lock, slot, err, pubErr>>,
         \A i \in DOMAIN stack' : stack'[i].pc \in Updating => i \in DOMAIN stack /\ stack'[i] = stack[i],
         \A i \in DOMAIN stack : stack[i].pc \in Updating => i \in DOMAIN stack' /\ stack'[i] = stack[i]
  PROVE  FillInv'
<1>1. Filling \subseteq Updating
  BY DEF Filling, Updating
<1> QED BY <1>1 DEF FillInv, PublishedIsWhole, Filling

(* The owner of the lock moves on and keeps it.                            *)
LEMMA OwnerStep ==
  ASSUME FillInv, NEW pc \in Updating, Moves(pc), stack[Len(stack)].pc \in Updating,
         lock' = lock
  PROVE  /\ \A i, j \in DOMAIN stack' :
              stack'[i].pc \in Updating /\ stack'[j].pc \in Updating => i = j
         /\ lock' = 0 => \A i \in DOMAIN stack' : stack'[i].pc \notin Updating
         /\ lock' # 0 => \E i \in DOMAIN stack' : stack'[i].pc \in Updating
         /\ \A i \in DOMAIN stack' : stack'[i].pc \in Updating => i = Len(stack)
  BY DEF FillInv, Moves

LEMMA FillStep == TypeOK /\ FillInv /\ [Next]_vars => FillInv'
<1> SUFFICES ASSUME TypeOK, FillInv, [Next]_vars PROVE FillInv'
  OBVIOUS
<1>0. stack \in Seq(Act) /\ NextSlot \in Slots /\ NextSlot # slot
      /\ err \in [Slots -> ({0} \cup Second) \X ({0} \cup Second)] /\ slot \in Slots
      /\ pubErr \in Slots
  BY NextSlotIsNext DEF TypeOK
<1>00. ASSUME stack # << >> PROVE Top \in Act /\ Top = stack[Len(stack)] /\ Len(stack) \in DOMAIN stack
  BY <1>0, <1>00 DEF Top
<1>01. Filling \subseteq Updating
  BY DEF Filling, Updating
<1>1. CASE Tick \/ UNCHANGED vars
  BY <1>1, OutsideStep DEF Tick, shared, vars
<1>2. CASE Signal \/ MainLogs \/ MainUpdates
  <2>1. ASSUME NEW op \in {"handler", "update", "log"}, NEW pc \in {"try", "copy"}
        PROVE  Activation(op, pc) \in Act /\ Activation(op, pc).pc \notin Updating
    BY TimeAssumption DEF Activation, Act, Slots, Updating
  <2>2. PICK a \in Act : a.pc \notin Updating /\ Push(a)
    BY <2>1, <1>2 DEF Signal, MainLogs, MainUpdates
  <2>3. UNCHANGED <<lock, slot, err, pubErr>>
    BY <1>2 DEF Signal, MainLogs, MainUpdates, shared
  <2> QED BY <1>0, <2>2, <2>3, PushStack, OutsideStep
<1>3. CASE TryLock
  <2>1. CASE lock = 0
    <3>1. stack # << >> /\ Replace([Top EXCEPT !.pc = "check"]) /\ lock' = 1
          /\ UNCHANGED <<slot, err, pubErr>>
      BY <1>3, <2>1 DEF TryLock, Running
    <3>2. [Top EXCEPT !.pc = "check"] \in Act /\ [Top EXCEPT !.pc = "check"].pc = "check"
      BY <3>1, <1>00 DEF Act, Updating
    <3>3. Moves("check")
      BY <1>0, <3>1, <3>2, ReplaceMoves
    <3>4. \A i \in DOMAIN stack' : i # Len(stack) => stack'[i].pc \notin Updating
      BY <2>1, <3>3 DEF FillInv, Moves
    <3>5. \A i \in DOMAIN stack' : stack'[i].pc \notin Filling
      BY <3>3, <3>4, <1>01 DEF Moves, Filling
    <3>6. slot = pubErr
      BY <2>1, <1>01 DEF FillInv
    <3> QED BY <3>1, <3>3, <3>4, <3>5, <3>6 DEF FillInv, PublishedIsWhole, Moves, Updating, Filling
  <2>2. CASE lock # 0
    <3>1. stack # << >> /\ UpdateReturns /\ UNCHANGED <<lock, slot, err, pubErr>>
          /\ Top.pc = "try"
      BY <1>3, <2>2 DEF TryLock, Running
    <3>2. stack[Len(stack)].pc \notin Updating
      BY <3>1, <1>00 DEF Updating
    <3>3. "copy" \notin Updating
      BY DEF Updating
    <3> QED BY <1>0, <3>1, <3>2, <3>3, UpdateReturnsStack, OutsideStep
  <2> QED BY <2>1, <2>2
<1>4. CASE SameSecond \/ Unlock
  <2>1. stack # << >> /\ UpdateReturns /\ lock' = 0 /\ UNCHANGED <<slot, err, pubErr>>
        /\ Top.pc \in Updating \ Filling
    BY <1>4 DEF SameSecond, Unlock, Running, Updating, Filling
  <2>2. \A i \in DOMAIN stack : i # Len(stack) => stack[i].pc \notin Updating
    BY <2>1, <1>00 DEF FillInv
  <2>3. \A i \in DOMAIN stack' : stack'[i].pc \notin Updating
    <3>1. "copy" \notin Updating
      BY DEF Updating
    <3> QED BY <1>0, <2>1, <2>2, <3>1, UpdateReturnsStack
  <2>4. slot = pubErr
    BY <2>1, <2>2, <1>00, <1>01 DEF FillInv
  <2> QED BY <2>1, <2>3, <2>4, <1>01 DEF FillInv, PublishedIsWhole, Filling
<1>5. CASE TakeSlot
  <2>1. Moves("first") /\ stack # << >> /\ Top.pc = "check" /\ lock' = lock
        /\ slot' = NextSlot /\ UNCHANGED <<err, pubErr>>
    BY <1>5, TakeSlotMoves DEF TakeSlot, Running
  <2>2. Top.pc \in Updating /\ Top.pc \notin Filling /\ "first" \in Updating
    BY <2>1 DEF Updating, Filling
  <2>3. slot = pubErr
    BY <2>1, <2>2, <1>00, <1>01 DEF FillInv
  <2>4. /\ \A i, j \in DOMAIN stack' :
             stack'[i].pc \in Updating /\ stack'[j].pc \in Updating => i = j
        /\ lock' = 0 => \A i \in DOMAIN stack' : stack'[i].pc \notin Updating
        /\ lock' # 0 => \E i \in DOMAIN stack' : stack'[i].pc \in Updating
        /\ \A i \in DOMAIN stack' : stack'[i].pc \in Updating => i = Len(stack)
    BY <2>1, <2>2, <1>00, OwnerStep
  <2>5. \A i \in DOMAIN stack' : stack'[i].pc \in Filling => stack'[i].pc = "first"
    BY <2>1, <2>4, <1>01 DEF Moves
  <2> QED BY <2>1, <2>3, <2>4, <2>5, <1>0 DEF FillInv, PublishedIsWhole, Moves, Filling
<1>6. CASE FirstHalf \/ SecondHalf \/ Publish
  <2>1. PICK pc \in {"second", "publish", "unlock"} :
          /\ stack # << >> /\ Replace([Top EXCEPT !.pc = pc])
          /\ UNCHANGED <<lock, slot>>
          /\ Top.pc \in Filling
          /\ pc = "second" => err' = [err EXCEPT ![slot] = <<Top.at, @[2]>>] /\ pubErr' = pubErr
          /\ pc = "publish" => /\ Top.pc = "second" /\ pubErr' = pubErr
                               /\ err' = [err EXCEPT ![slot] = <<@[1], Top.at>>]
          /\ pc = "unlock" => /\ Top.pc = "publish" /\ pubErr' = slot /\ err' = err
    BY <1>6 DEF FirstHalf, SecondHalf, Publish, Running, Filling
  <2>2. [Top EXCEPT !.pc = pc] \in Act /\ [Top EXCEPT !.pc = pc].pc = pc
        /\ [Top EXCEPT !.pc = pc].at = Top.at /\ pc \in Updating
    BY <2>1, <1>00 DEF Act, Updating
  <2>3. Moves(pc) /\ stack'[Len(stack)].at = Top.at
    BY <1>0, <2>1, <2>2, ReplaceMoves
  <2>4. /\ \A i, j \in DOMAIN stack' :
             stack'[i].pc \in Updating /\ stack'[j].pc \in Updating => i = j
        /\ lock' = 0 => \A i \in DOMAIN stack' : stack'[i].pc \notin Updating
        /\ lock' # 0 => \E i \in DOMAIN stack' : stack'[i].pc \in Updating
        /\ \A i \in DOMAIN stack' : stack'[i].pc \in Updating => i = Len(stack)
    BY <2>1, <2>2, <2>3, <1>00, <1>01, OwnerStep
  <2>5. \A i \in DOMAIN stack' : stack'[i].pc \in Filling => i = Len(stack) /\ stack'[i].pc = pc
    BY <2>3, <2>4, <1>01 DEF Moves
  <2>6. slot # pubErr /\ Len(stack) \in DOMAIN stack' /\ stack'[Len(stack)].pc = pc
    BY <2>1, <2>3, <1>00 DEF FillInv, Moves
  <2>7. CASE pc = "second"
    <3>1. err'[slot'][1] = Top.at /\ err'[pubErr'] = err[pubErr] /\ slot' # pubErr'
      BY <2>1, <2>6, <2>7, <1>0
    <3> QED BY <2>3, <2>4, <2>5, <2>6, <2>7, <3>1 DEF FillInv, PublishedIsWhole, Filling
  <2>8. CASE pc = "publish"
    <3>1. err[slot][1] = Top.at
      BY <2>1, <2>8, <1>00 DEF FillInv
    <3>2. err'[slot'][1] = err'[slot'][2] /\ err'[pubErr'] = err[pubErr] /\ slot' # pubErr'
      BY <2>1, <2>6, <2>8, <3>1, <1>0
    <3> QED BY <2>4, <2>5, <2>6, <2>8, <3>2 DEF FillInv, PublishedIsWhole, Filling
  <2>9. CASE pc = "unlock"
    <3>1. err'[pubErr'][1] = err'[pubErr'][2] /\ slot' = pubErr'
      BY <2>1, <2>9, <1>00 DEF FillInv
    <3>2. \A i \in DOMAIN stack' : stack'[i].pc \notin Filling
      BY <2>5, <2>9 DEF Filling
    <3> QED BY <2>4, <3>1, <3>2 DEF FillInv, PublishedIsWhole, Filling
  <2> QED BY <2>1, <2>7, <2>8, <2>9
<1>7. CASE Copy \/ CopyRest
  <2>1. PICK a \in Act : a.pc \in {"rest", "write"} /\ Replace(a)
    <3>1. stack' \in Seq(Act) /\ stack # << >>
      BY TypeStep, <1>7 DEF TypeOK, Copy, CopyRest, Running
    <3>2. CASE Copy
      <4> DEFINE a == [Top EXCEPT !.pc = "rest", !.from = pubErr, !.filled = 0,
                                  !.line = <<err[pubErr][1], 0>>]
      <4>1. Replace(a) /\ a.pc = "rest"
        BY <3>1, <3>2, <1>00 DEF Copy, Act
      <4>2. a = stack'[Len(stack)] /\ Len(stack) \in DOMAIN stack'
        BY <4>1, <3>1, <1>0, <1>00 DEF Replace
      <4>3. a \in Act
        BY <3>1, <4>2
      <4> QED BY <4>1, <4>3
    <3>3. CASE CopyRest
      <4> DEFINE a == [Top EXCEPT !.pc = "write", !.line = <<@[1], err[Top.from][2]>>]
      <4>1. Replace(a) /\ a.pc = "write"
        BY <3>1, <3>3, <1>00 DEF CopyRest, Act
      <4>2. a = stack'[Len(stack)] /\ Len(stack) \in DOMAIN stack'
        BY <4>1, <3>1, <1>0, <1>00 DEF Replace
      <4>3. a \in Act
        BY <3>1, <4>2
      <4> QED BY <4>1, <4>3
    <3> QED BY <1>7, <3>2, <3>3
  <2>2. stack # << >> /\ Top.pc \in {"copy", "rest"} /\ UNCHANGED <<lock, slot, err, pubErr>>
    BY <1>7 DEF Copy, CopyRest, Running, shared
  <2>3. Top.pc \notin Updating /\ a.pc \notin Updating
    BY <2>1, <2>2 DEF Updating
  <2> QED BY <1>0, <1>00, <2>1, <2>2, <2>3, ReplaceStack, OutsideStep
<1>8. CASE Skip \/ Write \/ WriteFails
  <2>1. Return /\ stack # << >> /\ Top.pc = "write" /\ UNCHANGED <<lock, slot, err, pubErr>>
    BY <1>8 DEF Skip, Write, WriteFails, Running, shared
  <2>2. Top.pc \notin Updating
    BY <2>1 DEF Updating
  <2> QED BY <1>0, <1>00, <2>1, <2>2, ReturnStack, OutsideStep
<1> QED BY <1>1, <1>2, <1>3, <1>4, <1>5, <1>6, <1>7, <1>8 DEF Next, Update, Log

LEMMA FillCorrect == Spec => []FillInv
  BY FillInit, FillStep, TypeCorrect, PTL DEF Spec

(* Trying the lock is enough under any nesting of handlers: one owner at   *)
(* most, and never a lock that is left behind.                             *)
THEOREM LockIsOwned == Spec => []LockHasItsOwner
<1>1. FillInv => LockHasItsOwner
  BY DEF FillInv, LockHasItsOwner
<1> QED BY <1>1, FillCorrect, PTL

(* Readers need no lock to start from a whole string, for any number of    *)
(* slots from two on.                                                      *)
THEOREM PublishedStaysWhole == Spec => []PublishedIsWhole
<1>1. FillInv => PublishedIsWhole
  BY DEF FillInv
<1> QED BY <1>1, FillCorrect, PTL

-------------------------------------------------------------------------------
(* The line that is being copied.                                          *)

(* The slot that is k slots on.                                            *)
Ahead(from, k) == IF from + k < N THEN from + k ELSE from + k - N

LEMMA AheadIsNext ==
  ASSUME NEW from \in Slots, NEW k \in Nat, k + 1 < N, slot = Ahead(from, k)
  PROVE  NextSlot = Ahead(from, k + 1)
  BY TimeAssumption DEF Ahead, NextSlot, Slots

Copying == {"rest", "write"}

(* Where activation i is copying and was not lapped: it interrupted an     *)
(* update, which cannot go on before i is over, or else slot has moved by  *)
(* as many slots as were filled, and none is being filled that it needs.   *)
FollowsSlot(i) ==
  \/ \E j \in DOMAIN stack : j < i /\ stack[j].pc \in Updating
  \/ /\ slot = Ahead(stack[i].from, stack[i].filled)
     /\ \A j \in DOMAIN stack : stack[j].pc \in Filling => stack[i].filled > 0

CopyOK(i) ==
  stack[i].pc \in Copying /\ stack[i].filled < N =>
    /\ stack[i].pc = "write" => stack[i].line[1] = stack[i].line[2]
    /\ stack[i].pc = "rest" => LET e == err[stack[i].from]
                               IN e[1] = stack[i].line[1] /\ e[2] = stack[i].line[1]
    /\ FollowsSlot(i)

CopyInv == \A i \in DOMAIN stack : CopyOK(i)

(* Steps that neither fill a slot nor copy.                                *)
LEMMA CopyKept ==
  ASSUME TypeOK, CopyInv, UNCHANGED <<slot, err>>,
         \A i \in DOMAIN stack' : stack'[i].pc \in Copying => i \in DOMAIN stack /\ stack'[i] = stack[i],
         \A i \in DOMAIN stack : i # Len(stack) => i \in DOMAIN stack' /\ stack'[i] = stack[i],
         (\E i \in DOMAIN stack' : stack'[i].pc \in Filling) => \E i \in DOMAIN stack : stack[i].pc \in Filling
  PROVE  CopyInv'
<1> SUFFICES ASSUME NEW i \in DOMAIN stack', stack'[i].pc \in Copying, stack'[i].filled < N
             PROVE  /\ stack'[i].pc = "write" => stack'[i].line[1] = stack'[i].line[2]
                    /\ stack'[i].pc = "rest" => LET e == err'[stack'[i].from]
                                                IN e[1] = stack'[i].line[1] /\ e[2] = stack'[i].line[1]
                    /\ FollowsSlot(i)'
  BY DEF CopyInv, CopyOK
<1>1. i \in DOMAIN stack /\ stack'[i] = stack[i] /\ CopyOK(i)
  BY DEF CopyInv
<1>2. FollowsSlot(i)'
  <2>1. CASE \E j \in DOMAIN stack : j < i /\ stack[j].pc \in Updating
    <3>1. PICK j \in DOMAIN stack : j < i /\ stack[j].pc \in Updating
      BY <2>1
    <3>2. j # Len(stack)
      BY <1>1, <3>1 DEF TypeOK
    <3> QED BY <3>1, <3>2 DEF FollowsSlot
  <2>2. CASE ~ \E j \in DOMAIN stack : j < i /\ stack[j].pc \in Updating
    BY <1>1, <2>2 DEF CopyOK, FollowsSlot
  <2> QED BY <2>1, <2>2
<1> QED BY <1>1, <1>2 DEF CopyOK

(* The owner of the lock is on top: what is copying below it follows slot. *)
LEMMA OwnerAbove ==
  ASSUME TypeOK, FillInv, CopyInv, stack # << >>, Top.pc \in Updating,
         NEW i \in DOMAIN stack, stack[i].pc \in Copying, stack[i].filled < N
  PROVE  /\ i # Len(stack) /\ stack[i].from \in Slots /\ stack[i].filled \in 0 .. N
         /\ slot = Ahead(stack[i].from, stack[i].filled)
         /\ Top.pc \in Filling => stack[i].filled > 0 /\ slot # stack[i].from
<1>1. Len(stack) \in DOMAIN stack /\ Top = stack[Len(stack)] /\ stack[i] \in Act
  BY DEF TypeOK, Top
<1>2. i # Len(stack)
  BY <1>1 DEF Updating, Copying
<1>3. ~ \E j \in DOMAIN stack : j < i /\ stack[j].pc \in Updating
  <2>1. \A j \in DOMAIN stack : stack[j].pc \in Updating => j = Len(stack)
    BY <1>1 DEF FillInv
  <2> QED BY <2>1, <1>1 DEF TypeOK
<1>4. stack[i].from \in Slots /\ stack[i].filled \in 0 .. N
  BY <1>1 DEF Act
<1>5. FollowsSlot(i)
  BY DEF CopyInv, CopyOK
<1>6. slot = Ahead(stack[i].from, stack[i].filled) /\ (Top.pc \in Filling => stack[i].filled > 0)
  BY <1>1, <1>3, <1>5 DEF FollowsSlot
<1>7. stack[i].filled > 0 => slot # stack[i].from
  BY <1>4, <1>6, TimeAssumption DEF Ahead, Slots
<1> QED BY <1>2, <1>4, <1>6, <1>7

LEMMA CopyStep == TypeOK /\ FillInv /\ CopyInv /\ [Next]_vars => CopyInv'
<1> SUFFICES ASSUME TypeOK, FillInv, CopyInv, [Next]_vars PROVE CopyInv'
  OBVIOUS
<1>0. stack \in Seq(Act) /\ stack' \in Seq(Act) /\ slot \in Slots /\ pubErr \in Slots
      /\ err \in [Slots -> ({0} \cup Second) \X ({0} \cup Second)]
  BY TypeStep DEF TypeOK
<1>00. ASSUME stack # << >> PROVE Top \in Act /\ Top = stack[Len(stack)] /\ Len(stack) \in DOMAIN stack
  BY <1>0, <1>00 DEF Top
<1>01. Filling \cap Copying = {} /\ Updating \cap Copying = {} /\ Filling \subseteq Updating
  BY DEF Filling, Copying, Updating
<1>1. CASE Tick \/ UNCHANGED vars
  BY <1>1, CopyKept DEF Tick, shared, vars
<1>2. CASE Signal \/ MainLogs \/ MainUpdates
  <2>1. ASSUME NEW op \in {"handler", "update", "log"}, NEW pc \in {"try", "copy"}
        PROVE  Activation(op, pc) \in Act /\ Activation(op, pc).pc \notin Copying \cup Filling
    BY TimeAssumption DEF Activation, Act, Slots, Copying, Filling
  <2>2. PICK a \in Act : a.pc \notin Copying \cup Filling /\ Push(a)
    BY <2>1, <1>2 DEF Signal, MainLogs, MainUpdates
  <2>3. UNCHANGED <<slot, err>>
    BY <1>2 DEF Signal, MainLogs, MainUpdates, shared
  <2> QED BY <1>0, <2>2, <2>3, PushStack, CopyKept
<1>3. CASE TryLock \/ SameSecond \/ Unlock
  <2>1. stack # << >> /\ UNCHANGED <<slot, err>> /\ Top.pc \in {"try", "check", "unlock"}
        /\ (UpdateReturns \/ Replace([Top EXCEPT !.pc = "check"]))
    BY <1>3 DEF TryLock, SameSecond, Unlock, Running
  <2>2. CASE UpdateReturns
    <3>1. "copy" \notin Copying \cup Filling
      BY DEF Copying, Filling
    <3> QED BY <1>0, <2>1, <2>2, <3>1, UpdateReturnsStack, CopyKept
  <2>3. CASE Replace([Top EXCEPT !.pc = "check"])
    <3>1. [Top EXCEPT !.pc = "check"] \in Act /\ [Top EXCEPT !.pc = "check"].pc = "check"
      BY <2>1, <1>00 DEF Act, Updating
    <3>2. "check" \notin Copying \cup Filling
      BY DEF Copying, Filling
    <3> HIDE DEF Top
    <3> QED BY <1>0, <2>1, <2>3, <3>1, <3>2, ReplaceStack, CopyKept
  <2> QED BY <2>1, <2>2, <2>3
<1>4. CASE Skip \/ Write \/ WriteFails
  <2>1. Return /\ stack # << >> /\ UNCHANGED <<slot, err>>
    BY <1>4 DEF Skip, Write, WriteFails, Running, shared
  <2> QED BY <1>0, <2>1, ReturnStack, CopyKept
<1>5. CASE Publish
  <2>1. stack # << >> /\ Replace([Top EXCEPT !.pc = "unlock"]) /\ UNCHANGED <<slot, err>>
    BY <1>5 DEF Publish, Running
  <2>2. [Top EXCEPT !.pc = "unlock"] \in Act /\ [Top EXCEPT !.pc = "unlock"].pc = "unlock"
    BY <2>1, <1>00 DEF Act, Updating
  <2>3. "unlock" \notin Copying \cup Filling
    BY DEF Copying, Filling
  <2> HIDE DEF Top
  <2> QED BY <1>0, <2>1, <2>2, <2>3, ReplaceStack, CopyKept
<1>6. CASE TakeSlot
  <2>1. stack # << >> /\ Top.pc = "check" /\ slot' = NextSlot /\ err' = err
        /\ stack' = [i \in DOMAIN stack |-> IF i = Len(stack) THEN [Top EXCEPT !.pc = "first", !.at = now]
                                            ELSE OneMore(stack[i])]
    BY <1>6 DEF TakeSlot, Running
  <2>2. [Top EXCEPT !.pc = "first", !.at = now].pc = "first" /\ "first" \notin Copying
    BY <2>1, <1>00 DEF Act, Copying
  <2>3. ASSUME NEW i \in DOMAIN stack', stack'[i].pc \in Copying, stack'[i].filled < N
        PROVE  CopyOK(i)'
    <3>1. i \in DOMAIN stack /\ i # Len(stack) /\ stack'[i] = OneMore(stack[i]) /\ stack[i] \in Act
      BY <1>0, <2>1, <2>2, <2>3
    <3>2. /\ stack'[i].pc = stack[i].pc /\ stack'[i].line = stack[i].line /\ stack'[i].from = stack[i].from
          /\ stack[i].filled \in 0 .. N
          /\ stack'[i].filled = IF stack[i].filled < N THEN stack[i].filled + 1 ELSE stack[i].filled
      BY <3>1 DEF OneMore, Act
    <3>3. stack[i].filled < N /\ stack'[i].filled = stack[i].filled + 1
      BY <2>3, <3>2, TimeAssumption
    <3>4. /\ stack[i].from \in Slots /\ slot = Ahead(stack[i].from, stack[i].filled)
      <4>1. Top.pc \in Updating
        BY <2>1 DEF Updating
      <4> QED BY <4>1, <2>1, <2>3, <3>1, <3>2, <3>3, OwnerAbove
    <3>5. slot' = Ahead(stack'[i].from, stack'[i].filled)
      <4>1. stack[i].filled + 1 < N
        BY <2>3, <3>3
      <4>2. NextSlot = Ahead(stack[i].from, stack[i].filled + 1)
        BY <3>2, <3>4, <4>1, AheadIsNext
      <4> QED BY <2>1, <3>2, <3>3, <4>2
    <3>6. FollowsSlot(i)'
      BY <3>2, <3>3, <3>5 DEF FollowsSlot
    <3>7. CopyOK(i)
      BY <3>1 DEF CopyInv
    <3> QED BY <2>1, <2>3, <3>2, <3>3, <3>6, <3>7 DEF CopyOK
  <2> QED BY <2>3 DEF CopyInv, CopyOK
<1>7. CASE FirstHalf \/ SecondHalf
  <2>1. PICK pc \in {"second", "publish"} :
          stack # << >> /\ Replace([Top EXCEPT !.pc = pc]) /\ slot' = slot /\ Top.pc \in Filling
    BY <1>7 DEF FirstHalf, SecondHalf, Running, Filling
  <2>2. \A s \in Slots : s # slot => err'[s] = err[s]
    BY <1>0, <1>7 DEF FirstHalf, SecondHalf
  <2>3. [Top EXCEPT !.pc = pc] \in Act /\ [Top EXCEPT !.pc = pc].pc = pc /\ pc \notin Copying
    BY <2>1, <1>00 DEF Act, Updating, Copying
  <2>4. /\ DOMAIN stack' = DOMAIN stack /\ stack'[Len(stack)].pc = pc
        /\ \A i \in DOMAIN stack : i # Len(stack) => stack'[i] = stack[i]
    <3> HIDE DEF Top
    <3> QED BY <1>0, <2>1, <2>3, ReplaceStack
  <2>5. ASSUME NEW i \in DOMAIN stack', stack'[i].pc \in Copying, stack'[i].filled < N
        PROVE  CopyOK(i)'
    <3>1. i \in DOMAIN stack /\ i # Len(stack) /\ stack'[i] = stack[i] /\ CopyOK(i)
      BY <2>3, <2>4, <2>5 DEF CopyInv
    <3>2. /\ stack[i].from \in Slots /\ slot = Ahead(stack[i].from, stack[i].filled)
          /\ stack[i].filled > 0 /\ slot # stack[i].from
      <4>1. Top.pc \in Updating
        BY <2>1, <1>01
      <4> QED BY <4>1, <2>1, <2>5, <3>1, OwnerAbove
    <3>3. err'[stack[i].from] = err[stack[i].from]
      BY <2>2, <3>2
    <3>4. FollowsSlot(i)'
      BY <2>1, <3>1, <3>2 DEF FollowsSlot
    <3> QED BY <2>5, <3>1, <3>3, <3>4 DEF CopyOK
  <2> QED BY <2>5 DEF CopyInv, CopyOK
<1>8. CASE Copy \/ CopyRest
  <2>1. stack # << >> /\ UNCHANGED <<slot, err, pubErr>> /\ Top.pc \in {"copy", "rest"}
    BY <1>8 DEF Copy, CopyRest, Running, shared
  <2>2. PICK n \in DOMAIN stack : n = Len(stack) /\ Top = stack[n] /\ Top \in Act
    BY <2>1, <1>00
  <2>3. DOMAIN stack' = DOMAIN stack /\ \A i \in DOMAIN stack : i # n => stack'[i] = stack[i] /\ i < n
    BY <1>8, <1>0, <2>2 DEF Copy, CopyRest, Replace
  <2>4. PICK a \in Act :
          /\ a = stack'[n] /\ a.pc \in Copying
          /\ Copy => a.pc = "rest" /\ a.from = pubErr /\ a.filled = 0 /\ a.line = <<err[pubErr][1], 0>>
          /\ CopyRest => /\ Top.pc = "rest" /\ a.pc = "write" /\ a.from = Top.from /\ a.filled = Top.filled
                         /\ a.line = <<Top.line[1], err[Top.from][2]>>
    <3>1. stack'[n] \in Act
      BY <1>0, <2>3
    <3>2. CASE Copy
      <4>1. Top.pc = "copy" /\ stack'[n] = [Top EXCEPT !.pc = "rest", !.from = pubErr, !.filled = 0,
                                                      !.line = <<err[pubErr][1], 0>>]
        BY <1>0, <2>2, <3>2 DEF Copy, Replace, Running
      <4> HIDE DEF Top
      <4>2. /\ stack'[n].pc = "rest" /\ stack'[n].from = pubErr /\ stack'[n].filled = 0
            /\ stack'[n].line = <<err[pubErr][1], 0>>
        BY <2>2, <4>1 DEF Act
      <4>3. ~CopyRest
        BY <4>1 DEF CopyRest, Running
      <4> QED BY <3>1, <4>2, <4>3 DEF Copying
    <3>3. CASE CopyRest
      <4>1. Top.pc = "rest" /\ stack'[n] = [Top EXCEPT !.pc = "write", !.line = <<@[1], err[Top.from][2]>>]
        BY <1>0, <2>2, <3>3 DEF CopyRest, Replace, Running
      <4> HIDE DEF Top
      <4>2. /\ stack'[n].pc = "write" /\ stack'[n].from = Top.from /\ stack'[n].filled = Top.filled
            /\ stack'[n].line = <<Top.line[1], err[Top.from][2]>>
        BY <2>2, <4>1 DEF Act
      <4>3. ~Copy
        BY <4>1 DEF Copy, Running
      <4> QED BY <3>1, <4>1, <4>2, <4>3 DEF Copying
    <3> QED BY <1>8, <3>2, <3>3
  <2>5. stack[n].pc \notin Updating /\ stack'[n].pc \notin Updating
    BY <2>1, <2>2, <2>4 DEF Updating, Copying
  <2> HIDE DEF Top
  <2>6. ASSUME NEW i \in DOMAIN stack, stack'[i].from = stack[i].from, stack'[i].filled = stack[i].filled
        PROVE  FollowsSlot(i) => FollowsSlot(i)'
    BY <2>1, <2>3, <2>5, <2>6, <1>01 DEF FollowsSlot
  <2>7. ASSUME NEW i \in DOMAIN stack', i # n PROVE CopyOK(i)'
    <3>1. i \in DOMAIN stack /\ stack'[i] = stack[i] /\ CopyOK(i)
      BY <2>3, <2>7 DEF CopyInv
    <3>2. FollowsSlot(i) => FollowsSlot(i)'
      BY <2>6, <3>1
    <3> QED BY <2>1, <3>1, <3>2 DEF CopyOK
  <2>8. CASE Copy
    <3>1. err[pubErr][1] = err[pubErr][2]
      BY DEF FillInv, PublishedIsWhole
    <3>2. FollowsSlot(n)'
      <4>1. CASE \E j \in DOMAIN stack : stack[j].pc \in Updating
        <5>1. PICK j \in DOMAIN stack : stack[j].pc \in Updating
          BY <4>1
        <5>2. j < n /\ stack'[j] = stack[j]
          BY <2>3, <2>5, <5>1
        <5> QED BY <2>3, <5>1, <5>2 DEF FollowsSlot
      <4>2. CASE ~ \E j \in DOMAIN stack : stack[j].pc \in Updating
        <5>1. slot = pubErr
          BY <4>2, <1>01 DEF FillInv
        <5>2. \A j \in DOMAIN stack' : stack'[j].pc \notin Filling
          BY <4>2, <2>3, <2>5, <1>01
        <5>3. slot' = Ahead(stack'[n].from, stack'[n].filled)
          BY <1>0, <2>1, <2>4, <2>8, <5>1, TimeAssumption DEF Ahead, Slots
        <5> QED BY <5>2, <5>3 DEF FollowsSlot
      <4> QED BY <4>1, <4>2
    <3>3. CopyOK(n)'
      BY <2>1, <2>4, <2>8, <3>1, <3>2 DEF CopyOK
    <3> QED BY <2>7, <3>3 DEF CopyInv
  <2>9. CASE CopyRest
    <3>1. Top.pc = "rest" /\ CopyOK(n) /\ "rest" \in Copying
      BY <2>4, <2>9 DEF CopyInv, Copying
    <3>2. FollowsSlot(n) => FollowsSlot(n)'
      BY <2>2, <2>4, <2>6, <2>9
    <3>3. CopyOK(n)'
      BY <2>1, <2>2, <2>4, <2>9, <3>1, <3>2 DEF CopyOK
    <3> QED BY <2>7, <3>3 DEF CopyInv
  <2> QED BY <1>8, <2>8, <2>9
<1> QED BY <1>1, <1>2, <1>3, <1>4, <1>5, <1>6, <1>7, <1>8 DEF Next, Update, Log

(* A line in the log carries one time, however its copying was interrupted *)
(* and by however many updates, as long as they were fewer than the slots. *)
THEOREM LinesAreWhole == Spec => []LineIsWholeUnlessLapped
<1>1. Init => CopyInv
  BY DEF Init, CopyInv
<1>2. CopyInv => LineIsWholeUnlessLapped
  BY DEF CopyInv, CopyOK, LineIsWholeUnlessLapped, Copying
<1> QED BY <1>1, <1>2, CopyStep, TypeCorrect, FillCorrect, PTL DEF Spec

-------------------------------------------------------------------------------
(* The order of the seconds that are published.                            *)

(* What an update has read is not older than what is published, since only *)
(* the owner of the lock publishes, nor newer than the clock.              *)
OrderInv ==
  /\ err[pubErr][1] <= now
  /\ \A i \in DOMAIN stack :
       /\ stack[i].pc \in Filling => err[pubErr][1] <= stack[i].at /\ stack[i].at <= now
       /\ stack[i].pc = "publish" => err[slot][1] = stack[i].at

OrderStep == OrderInv' /\ err'[pubErr'][1] >= err[pubErr][1]

LEMMA Seconds ==
  ASSUME TypeOK
  PROVE  /\ now \in Int /\ err[pubErr][1] \in Int /\ err[slot][1] \in Int
         /\ \A i \in DOMAIN stack : stack[i].at \in Int
<1>1. now \in Int /\ err[pubErr] \in ({0} \cup Second) \X ({0} \cup Second)
      /\ err[slot] \in ({0} \cup Second) \X ({0} \cup Second)
  BY TimeAssumption DEF TypeOK, Second
<1>2. \A x \in {0} \cup Second : x \in Int
  BY TimeAssumption DEF Second
<1>3. \A i \in DOMAIN stack : stack[i].at \in {0} \cup Second
  <2>1. \A i \in DOMAIN stack : stack[i] \in Act
    BY DEF TypeOK
  <2> QED BY <2>1 DEF Act
<1> QED BY <1>1, <1>2, <1>3

(* Steps that fill and publish nothing.                                    *)
LEMMA OrderKept ==
  ASSUME TypeOK, OrderInv, UNCHANGED <<slot, err, pubErr>>, now' = now \/ now' = now + 1,
         \A i \in DOMAIN stack' : stack'[i].pc \in Filling => i \in DOMAIN stack /\ stack'[i] = stack[i]
  PROVE  OrderStep
<1>1. now' \in Int /\ now' >= now
  BY Seconds
<1>2. err'[pubErr'][1] = err[pubErr][1] /\ err'[slot'] = err[slot] /\ err[pubErr][1] <= now'
  BY <1>1, Seconds DEF OrderInv
<1>3. ASSUME NEW i \in DOMAIN stack', stack'[i].pc \in Filling
      PROVE  err[pubErr][1] <= stack'[i].at /\ stack'[i].at <= now'
             /\ (stack'[i].pc = "publish" => err[slot][1] = stack'[i].at)
  BY <1>1, <1>3, Seconds DEF OrderInv
<1> QED BY <1>2, <1>3, Seconds DEF OrderInv, OrderStep, Filling

LEMMA NextKeepsOrder == TypeOK /\ FillInv /\ OrderInv /\ [Next]_vars => OrderStep
<1> SUFFICES ASSUME TypeOK, FillInv, OrderInv, [Next]_vars PROVE OrderStep
  OBVIOUS
<1>0. stack \in Seq(Act) /\ slot \in Slots /\ pubErr \in Slots
      /\ err \in [Slots -> ({0} \cup Second) \X ({0} \cup Second)]
  BY DEF TypeOK
<1>00. ASSUME stack # << >> PROVE Top \in Act /\ Top = stack[Len(stack)] /\ Len(stack) \in DOMAIN stack
  BY <1>0, <1>00 DEF Top
<1>01. Filling \subseteq Updating
  BY DEF Filling, Updating
<1>1. CASE Tick \/ UNCHANGED vars
  BY <1>1, OrderKept DEF Tick, shared, vars
<1>2. CASE Signal \/ MainLogs \/ MainUpdates
  <2>1. ASSUME NEW op \in {"handler", "update", "log"}, NEW pc \in {"try", "copy"}
        PROVE  Activation(op, pc) \in Act /\ Activation(op, pc).pc \notin Filling
    BY TimeAssumption DEF Activation, Act, Slots, Filling
  <2>2. PICK a \in Act : a.pc \notin Filling /\ Push(a)
    BY <2>1, <1>2 DEF Signal, MainLogs, MainUpdates
  <2>3. UNCHANGED <<slot, err, pubErr, now>>
    BY <1>2 DEF Signal, MainLogs, MainUpdates, shared
  <2> QED BY <1>0, <2>2, <2>3, PushStack, OrderKept
<1>3. CASE TryLock \/ SameSecond \/ Unlock
  <2>1. stack # << >> /\ UNCHANGED <<slot, err, pubErr, now>>
        /\ (UpdateReturns \/ Replace([Top EXCEPT !.pc = "check"]))
    BY <1>3 DEF TryLock, SameSecond, Unlock, Running
  <2>2. CASE UpdateReturns
    <3>1. "copy" \notin Filling
      BY DEF Filling
    <3> QED BY <1>0, <2>1, <2>2, <3>1, UpdateReturnsStack, OrderKept
  <2>3. CASE Replace([Top EXCEPT !.pc = "check"])
    <3>1. [Top EXCEPT !.pc = "check"] \in Act /\ [Top EXCEPT !.pc = "check"].pc = "check"
      BY <2>1, <1>00 DEF Act, Updating
    <3>2. "check" \notin Filling
      BY DEF Filling
    <3> HIDE DEF Top
    <3> QED BY <1>0, <2>1, <2>3, <3>1, <3>2, ReplaceStack, OrderKept
  <2> QED BY <2>1, <2>2, <2>3
<1>4. CASE Skip \/ Write \/ WriteFails
  <2>1. Return /\ stack # << >> /\ UNCHANGED <<slot, err, pubErr, now>>
    BY <1>4 DEF Skip, Write, WriteFails, Running, shared
  <2> QED BY <1>0, <2>1, ReturnStack, OrderKept
<1>5. CASE Copy \/ CopyRest
  <2>1. stack # << >> /\ UNCHANGED <<slot, err, pubErr, now>>
    BY <1>5 DEF Copy, CopyRest, Running, shared
  <2>2. PICK n \in DOMAIN stack : n = Len(stack) /\ Top = stack[n] /\ Top \in Act
    BY <2>1, <1>00
  <2>3. DOMAIN stack' = DOMAIN stack /\ \A i \in DOMAIN stack : i # n => stack'[i] = stack[i]
    BY <1>5, <1>0, <2>2 DEF Copy, CopyRest, Replace
  <2>4. stack'[n].pc \in {"rest", "write"}
    <3>1. CASE Copy
      <4>1. stack'[n] = [Top EXCEPT !.pc = "rest", !.from = pubErr, !.filled = 0, !.line = <<err[pubErr][1], 0>>]
        BY <1>0, <2>2, <3>1 DEF Copy, Replace
      <4> HIDE DEF Top
      <4> QED BY <2>2, <4>1 DEF Act
    <3>2. CASE CopyRest
      <4>1. stack'[n] = [Top EXCEPT !.pc = "write", !.line = <<@[1], err[Top.from][2]>>]
        BY <1>0, <2>2, <3>2 DEF CopyRest, Replace
      <4> HIDE DEF Top
      <4> QED BY <2>2, <4>1 DEF Act
    <3> QED BY <1>5, <3>1, <3>2
  <2> HIDE DEF Top
  <2>5. stack'[n].pc \notin Filling
    BY <2>4 DEF Filling
  <2> QED BY <2>1, <2>3, <2>5, OrderKept
<1>6. CASE TakeSlot
  <2>1. /\ Moves("first") /\ stack'[Len(stack)].at = now
        /\ stack # << >> /\ Top.pc = "check" /\ UNCHANGED <<err, pubErr, now>>
    BY <1>6, TakeSlotMoves DEF TakeSlot, Running
  <2>2. Top.pc \in Updating
    BY <2>1 DEF Updating
  <2>3. \A i \in DOMAIN stack' : i # Len(stack) => stack'[i].pc \notin Filling
    BY <2>1, <2>2, <1>00, <1>01 DEF Moves, FillInv
  <2>4. ASSUME NEW i \in DOMAIN stack', stack'[i].pc \in Filling
        PROVE  stack'[i].at = now /\ stack'[i].pc = "first"
    BY <2>1, <2>3, <2>4 DEF Moves
  <2>5. err'[pubErr'][1] = err[pubErr][1] /\ now' = now /\ err[pubErr][1] <= now
    BY <2>1 DEF OrderInv
  <2> QED BY <2>4, <2>5, Seconds DEF OrderInv, OrderStep, Filling
<1>7. CASE FirstHalf \/ SecondHalf \/ Publish
  <2>1. PICK pc \in {"second", "publish", "unlock"} :
          /\ stack # << >> /\ Replace([Top EXCEPT !.pc = pc])
          /\ UNCHANGED <<slot, now>>
          /\ Top.pc \in Filling
          /\ pc = "second" => err' = [err EXCEPT ![slot] = <<Top.at, @[2]>>] /\ pubErr' = pubErr
          /\ pc = "publish" => /\ Top.pc = "second" /\ pubErr' = pubErr
                               /\ err' = [err EXCEPT ![slot] = <<@[1], Top.at>>]
          /\ pc = "unlock" => /\ Top.pc = "publish" /\ pubErr' = slot /\ err' = err
    BY <1>7 DEF FirstHalf, SecondHalf, Publish, Running, Filling
  <2>2. [Top EXCEPT !.pc = pc] \in Act /\ [Top EXCEPT !.pc = pc].pc = pc /\ [Top EXCEPT !.pc = pc].at = Top.at
    BY <2>1, <1>00 DEF Act, Updating
  <2>3. Moves(pc) /\ stack'[Len(stack)].at = Top.at
    BY <1>0, <2>1, <2>2, ReplaceMoves
  <2>4. \A i \in DOMAIN stack' : stack'[i].pc \in Filling => i = Len(stack)
    BY <2>1, <2>3, <1>00, <1>01 DEF Moves, FillInv
  <2>5. \A i \in DOMAIN stack' : stack'[i].pc \in Filling => stack'[i].at = Top.at /\ stack'[i].pc = pc
    BY <2>3, <2>4 DEF Moves
  <2>6. err[pubErr][1] <= Top.at /\ Top.at <= now /\ slot # pubErr /\ Top.at \in Int
    BY <2>1, <1>00, Seconds DEF OrderInv, FillInv
  <2>7. CASE pc # "unlock"
    <3>1. err'[pubErr'] = err[pubErr]
      BY <2>1, <2>6, <2>7, <1>0
    <3>2. pc = "publish" => err'[slot'][1] = Top.at
      BY <2>1, <1>0, <1>00 DEF FillInv
    <3>3. err'[pubErr'][1] = err[pubErr][1] /\ now' = now
      BY <2>1, <3>1
    <3> HIDE DEF Top
    <3>4. ASSUME NEW i \in DOMAIN stack', stack'[i].pc \in Filling
          PROVE  /\ err'[pubErr'][1] <= stack'[i].at /\ stack'[i].at <= now'
                 /\ stack'[i].pc = "publish" => err'[slot'][1] = stack'[i].at
      BY <2>5, <2>6, <3>2, <3>3, <3>4
    <3> QED BY <3>3, <3>4, Seconds DEF OrderInv, OrderStep, Filling
  <2>8. CASE pc = "unlock"
    <3>1. err'[pubErr'][1] = Top.at
      BY <2>1, <2>8, <1>00 DEF OrderInv
    <3>2. \A i \in DOMAIN stack' : stack'[i].pc \notin Filling
      BY <2>5, <2>8 DEF Filling
    <3> HIDE DEF Top
    <3> QED BY <2>1, <2>6, <3>1, <3>2, Seconds DEF OrderInv, OrderStep, Filling
  <2> QED BY <2>7, <2>8
<1> QED BY <1>1, <1>2, <1>3, <1>4, <1>5, <1>6, <1>7 DEF Next, Update, Log

(* The second that a log line finds published never goes back: an update   *)
(* that was interrupted does not publish what it read over a newer one.    *)
THEOREM TimeOnlyAdvances == Spec => TimeNeverGoesBack
<1>1. Init => OrderInv
  <2> SUFFICES ASSUME Init PROVE OrderInv
    OBVIOUS
  <2>1. stack = << >> /\ err[pubErr] = <<now, now>> /\ now = 1
    BY InitType DEF Init, TypeOK
  <2> QED BY <2>1 DEF OrderInv
<1>2. TypeOK /\ FillInv /\ OrderInv /\ [Next]_vars => OrderInv' /\ err'[pubErr'][1] >= err[pubErr][1]
  BY NextKeepsOrder DEF OrderStep
<1>3. Spec => [][TypeOK /\ FillInv /\ OrderInv /\ Next]_vars
  BY <1>1, <1>2, TypeCorrect, FillCorrect, PTL DEF Spec
<1>4. [TypeOK /\ FillInv /\ OrderInv /\ Next]_vars => [err'[pubErr'][1] >= err[pubErr][1]]_vars
  BY <1>2
<1> QED BY <1>3, <1>4, PTL DEF TimeNeverGoesBack
===============================================================================
