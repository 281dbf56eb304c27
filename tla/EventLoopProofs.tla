--------------------------- MODULE EventLoopProofs ---------------------------
(***************************************************************************)
(* TLAPS proofs about EventLoop.tla and about its composition with an       *)
(* EventLoopThread, for any set of caller threads and any number of         *)
(* functors.                                                                *)
(***************************************************************************)
EXTENDS EventLoopThread, SequenceTheorems, TLAPS

USE CallersAssumption, MaxFunctorsAssumption

(* How the control state of the loop thread constrains its flags and locals. *)
ControlInv ==
  /\ callingPendingFunctors_ <=> pc \in {"swap", "run"}
  /\ pc # "run" => functors = <<>>
  /\ inCallback => pc \in {"handle", "run"}
  /\ unwoken[LoopThread] # 0 => pc = "idle" \/ inCallback
  /\ unwoken[LoopThread] # 0 /\ pc = "idle" => unwoken[LoopThread] \in early

(* NoLostWakeup at every point of the loop where the wakeup channel is not
   about to be followed by a swap of pendingFunctors_. *)
WakeupInv ==
  pc \notin {"handle", "swap"} =>
    \A i \in 1..Len(pendingFunctors_) :
      \/ wakeupFd_
      \/ pendingFunctors_[i] \in early
      \/ \E t \in Threads : unwoken[t] = pendingFunctors_[i]

IInv == TypeOK /\ ControlInv /\ FifoExactlyOnce /\ WakeupInv /\ QuitNotMissed

-----------------------------------------------------------------------------
(* Moving the head of the middle sequence to the end of the first one leaves
   the concatenation of the three unchanged. *)
LEMMA MoveHead ==
  ASSUME NEW S, NEW e \in Seq(S), NEW f \in Seq(S), NEW p \in Seq(S), f # <<>>
  PROVE  Append(e, Head(f)) \o Tail(f) \o p = e \o f \o p
<1>1. /\ Head(f) \in S /\ Tail(f) \in Seq(S) /\ <<Head(f)>> \in Seq(S)
  BY HeadTailProperties
<1>2. f = <<Head(f)>> \o Tail(f)
  <2>1. Len(<<Head(f)>> \o Tail(f)) = Len(f)
    BY <1>1, HeadTailProperties, ConcatProperties, LenProperties
  <2>2. \A i \in 1..Len(f) : (<<Head(f)>> \o Tail(f))[i] = f[i]
    BY <1>1, HeadTailProperties, ConcatProperties, LenProperties
  <2>3. <<Head(f)>> \o Tail(f) \in Seq(S)
    BY <1>1, ConcatProperties
  <2> QED BY <2>1, <2>2, <2>3, SeqEqual
<1>3. Append(e, Head(f)) = e \o <<Head(f)>>
  BY <1>1, AppendIsConcat
<1>4. (e \o <<Head(f)>>) \o Tail(f) = e \o f
  <2>1. (e \o <<Head(f)>>) \o Tail(f) = e \o (<<Head(f)>> \o Tail(f))
    BY <1>1, ConcatAssociative, SMTT(40)
  <2> QED BY <1>2, <2>1, Zenon
<1> QED BY <1>3, <1>4, Zenon

(* Appending to the second of two sequences appends to their concatenation. *)
LEMMA AppendLast ==
  ASSUME NEW S, NEW e \in Seq(S), NEW p \in Seq(S), NEW x \in S
  PROVE  e \o Append(p, x) = Append(e \o p, x)
<1>1. /\ e \o p \in Seq(S) /\ <<x>> \in Seq(S)
  BY ConcatProperties
<1>2. Append(e \o p, x) = (e \o p) \o <<x>>
  BY <1>1, AppendIsConcat
<1>3. Append(p, x) = p \o <<x>>
  BY AppendIsConcat
<1> QED BY <1>1, <1>2, <1>3, ConcatAssociative

(* The same for the last of three: what queueInLoop() does to
   executed, the batch being run and pendingFunctors_. *)
LEMMA AppendLast3 ==
  ASSUME NEW S, NEW e \in Seq(S), NEW f \in Seq(S), NEW p \in Seq(S), NEW x \in S
  PROVE  (e \o f) \o Append(p, x) = Append((e \o f) \o p, x)
<1> DEFINE ef == e \o f
<1>1. ef \in Seq(S) BY ConcatProperties
<1> HIDE DEF ef
<1>2. ef \o Append(p, x) = Append(ef \o p, x) BY <1>1, AppendLast
<1> QED BY <1>2 DEF ef

(* Head and tail of a concatenation whose first part is not empty. *)
LEMMA HeadTailConcat ==
  ASSUME NEW S, NEW f \in Seq(S), NEW p \in Seq(S), f # <<>>
  PROVE  /\ f \o p # <<>>
         /\ Head(f \o p) = Head(f)
         /\ Tail(f \o p) = Tail(f) \o p
<1>1. /\ f \o p \in Seq(S) /\ Len(f \o p) = Len(f) + Len(p) /\ Len(f) \in Nat \ {0} /\ Len(p) \in Nat
  BY ConcatProperties, EmptySeq, LenProperties
<1>2. f \o p # <<>>
  BY <1>1, EmptySeq
<1>3. Head(f \o p) = Head(f)
  BY <1>1, <1>2, ConcatProperties
<1>4. /\ Tail(f) \in Seq(S) /\ Len(Tail(f)) = Len(f) - 1
      /\ \A i \in 1..Len(Tail(f)) : Tail(f)[i] = f[i+1]
  BY HeadTailProperties
<1>5. /\ Tail(f \o p) \in Seq(S) /\ Len(Tail(f \o p)) = Len(f \o p) - 1
      /\ \A i \in 1..Len(Tail(f \o p)) : Tail(f \o p)[i] = (f \o p)[i+1]
  BY <1>1, <1>2, HeadTailProperties
<1>6. /\ Tail(f) \o p \in Seq(S) /\ Len(Tail(f) \o p) = Len(f) - 1 + Len(p)
      /\ \A i \in 1..(Len(f) - 1 + Len(p)) :
           (Tail(f) \o p)[i] = IF i <= Len(f) - 1 THEN Tail(f)[i] ELSE p[i - (Len(f) - 1)]
  BY <1>4, ConcatProperties
<1>7. \A i \in 1..Len(Tail(f \o p)) : Tail(f \o p)[i] = (Tail(f) \o p)[i]
  <2> TAKE i \in 1..Len(Tail(f \o p))
  <2>1. (f \o p)[i+1] = IF i+1 <= Len(f) THEN f[i+1] ELSE p[i+1 - Len(f)]
    BY <1>1, <1>5, ConcatProperties
  <2> QED BY <1>1, <1>4, <1>5, <1>6, <2>1
<1> QED BY <1>1, <1>2, <1>3, <1>5, <1>6, <1>7, SeqEqual

-----------------------------------------------------------------------------
(* Type correctness: every variable of the model stays in its range. *)
LEMMA TypeInit == Init => TypeOK
<1>1. <<>> \in Seq(Functors)
  BY EmptySeq
<1>2. 0 \in 0..MaxFunctors /\ 1 \in 1..(MaxFunctors + 1)
  OBVIOUS
<1> QED BY <1>1, <1>2 DEF Init, TypeOK, Channels

(* Every action of the loop thread and of the callers keeps the types. *)
LEMMA TypeStep == TypeOK /\ [Next]_vars => TypeOK'
<1> SUFFICES ASSUME TypeOK, [Next]_vars PROVE TypeOK'
  OBVIOUS
<1> USE DEF TypeOK, vars, loopVars, callVars
<1>1. CASE Loop        BY <1>1 DEF Loop
<1>2. CASE TestQuit    BY <1>2 DEF TestQuit
<1>3. CASE PollReady   BY <1>3 DEF PollReady
<1>4. CASE PollTimeout BY <1>4 DEF PollTimeout
<1>5. CASE HandleWakeup BY <1>5 DEF HandleWakeup
<1>6. CASE HandleIo    BY <1>6 DEF HandleIo
<1>7. CASE EndCallback BY <1>7 DEF EndCallback
<1>8. CASE BeginPendingFunctors BY <1>8 DEF BeginPendingFunctors
<1>9. CASE SwapFunctors BY <1>9, EmptySeq DEF SwapFunctors
<1>10. CASE RunFunctor
  <2>1. Head(functors) \in Functors /\ Tail(functors) \in Seq(Functors)
    BY <1>10, HeadTailProperties DEF RunFunctor
  <2> QED BY <1>10, <2>1, AppendProperties DEF RunFunctor
<1>11. CASE EndPendingFunctors BY <1>11 DEF EndPendingFunctors
<1>12. ASSUME NEW t \in Threads, QueueInLoop(t) PROVE TypeOK'
  <2>1. next \in 0..MaxFunctors /\ next + 1 \in 1..(MaxFunctors + 1)
    BY <1>12 DEF QueueInLoop, Functors
  <2> QED BY <1>12, <2>1, AppendProperties DEF QueueInLoop, Enqueue, Functors
<1>13. ASSUME NEW t \in Threads, QueueInLoopWakeup(t) PROVE TypeOK'
  BY <1>13 DEF QueueInLoopWakeup, NeedsWakeup, isInLoopThread
<1>14. CASE RunInLoopDirect
  BY <1>14 DEF RunInLoopDirect, Functors
<1>15. ASSUME NEW t \in Threads, Quit(t) PROVE TypeOK'
  BY <1>15 DEF Quit, isInLoopThread, Threads
<1>16. ASSUME NEW t \in Threads, QuitWakeup(t) PROVE TypeOK'
  BY <1>16 DEF QuitWakeup
<1>17. CASE UNCHANGED vars
  BY <1>17
<1> QED
  BY <1>1, <1>2, <1>3, <1>4, <1>5, <1>6, <1>7, <1>8, <1>9, <1>10, <1>11, <1>12,
     <1>13, <1>14, <1>15, <1>16, <1>17
     DEF Next, Call, CallReturns, RunInLoop
-----------------------------------------------------------------------------
(* The control state invariant. *)
LEMMA ControlStep == TypeOK /\ ControlInv /\ [Next]_vars => ControlInv'
<1> SUFFICES ASSUME TypeOK, ControlInv, [Next]_vars PROVE ControlInv'
  OBVIOUS
<1> USE DEF TypeOK, ControlInv, vars, loopVars, callVars
<1>1. CASE Loop        BY <1>1 DEF Loop, LoopProceeds
<1>2. CASE TestQuit    BY <1>2 DEF TestQuit
<1>3. CASE PollReady   BY <1>3 DEF PollReady
<1>4. CASE PollTimeout BY <1>4 DEF PollTimeout
<1>5. CASE HandleWakeup BY <1>5 DEF HandleWakeup
<1>6. CASE HandleIo    BY <1>6 DEF HandleIo
<1>7. CASE EndCallback BY <1>7 DEF EndCallback
<1>8. CASE BeginPendingFunctors BY <1>8 DEF BeginPendingFunctors, LoopProceeds
<1>9. CASE SwapFunctors BY <1>9 DEF SwapFunctors
<1>10. CASE RunFunctor BY <1>10 DEF RunFunctor
<1>11. CASE EndPendingFunctors BY <1>11 DEF EndPendingFunctors, LoopProceeds
<1>12. ASSUME NEW t \in Threads, QueueInLoop(t) PROVE ControlInv'
  <2>1. CASE t = LoopThread
    BY <1>12, <2>1 DEF QueueInLoop, MayCall, isInLoopThread, Threads
  <2>2. CASE t # LoopThread
    BY <1>12, <2>2 DEF QueueInLoop, isInLoopThread, Threads
  <2> QED BY <2>1, <2>2
<1>13. ASSUME NEW t \in Threads, QueueInLoopWakeup(t) PROVE ControlInv'
  BY <1>13 DEF QueueInLoopWakeup, Threads
<1>14. CASE RunInLoopDirect BY <1>14 DEF RunInLoopDirect
<1>15. ASSUME NEW t \in Threads, Quit(t) PROVE ControlInv'
  BY <1>15 DEF Quit
<1>16. ASSUME NEW t \in Threads, QuitWakeup(t) PROVE ControlInv'
  BY <1>16 DEF QuitWakeup
<1>17. CASE UNCHANGED vars BY <1>17
<1> QED
  BY <1>1, <1>2, <1>3, <1>4, <1>5, <1>6, <1>7, <1>8, <1>9, <1>10, <1>11, <1>12,
     <1>13, <1>14, <1>15, <1>16, <1>17
     DEF Next, Call, CallReturns, RunInLoop

-----------------------------------------------------------------------------
(* First in, first out, exactly once. *)
LEMMA FifoStep ==
  TypeOK /\ ControlInv /\ FifoExactlyOnce /\ [Next]_vars => FifoExactlyOnce'
<1> SUFFICES ASSUME TypeOK, ControlInv, FifoExactlyOnce, [Next]_vars
             PROVE FifoExactlyOnce'
  OBVIOUS
<1> USE DEF FifoExactlyOnce, vars, loopVars, callVars
<1>1. CASE SwapFunctors
  <2>1. functors = <<>> /\ functors' = pendingFunctors_ /\ pendingFunctors_' = <<>>
    BY <1>1 DEF SwapFunctors, ControlInv
  <2>2. executed' = executed /\ submitted' = submitted
    BY <1>1 DEF SwapFunctors
  <2>3. executed \in Seq(Functors) /\ pendingFunctors_ \in Seq(Functors)
    BY DEF TypeOK
  <2>4. executed \o <<>> = executed
    BY <2>3, ConcatEmptySeq
  <2>5. (executed \o pendingFunctors_) \o <<>> = executed \o pendingFunctors_
    BY <2>3, ConcatEmptySeq, ConcatProperties
  <2> QED BY <2>1, <2>2, <2>4, <2>5
<1>2. CASE RunFunctor
  <2>1. /\ executed \in Seq(Functors) /\ functors \in Seq(Functors)
        /\ pendingFunctors_ \in Seq(Functors)
    BY DEF TypeOK
  <2>2. /\ functors # <<>> /\ executed' = Append(executed, Head(functors))
        /\ functors' = Tail(functors) /\ pendingFunctors_' = pendingFunctors_
        /\ submitted' = submitted
    BY <1>2 DEF RunFunctor
  <2>3. Append(executed, Head(functors)) \o Tail(functors) \o pendingFunctors_
          = executed \o functors \o pendingFunctors_
    BY <2>1, <2>2, MoveHead, SMTT(40)
  <2> QED BY <2>2, <2>3, Zenon
<1>3. ASSUME NEW t \in Threads, QueueInLoop(t) PROVE FifoExactlyOnce'
  <2>1. executed \o functors \in Seq(Functors)
    BY ConcatProperties DEF TypeOK
  <2>2. /\ next \in Functors /\ submitted' = Append(submitted, next)
        /\ pendingFunctors_' = Append(pendingFunctors_, next)
        /\ executed' = executed /\ functors' = functors
    BY <1>3 DEF QueueInLoop, Enqueue
  <2>3. Append((executed \o functors) \o pendingFunctors_, next)
          = (executed \o functors) \o Append(pendingFunctors_, next)
    <3>1. /\ executed \in Seq(Functors) /\ functors \in Seq(Functors)
          /\ pendingFunctors_ \in Seq(Functors)
      BY DEF TypeOK
    <3> QED BY <2>2, <3>1, AppendLast3
  <2> QED BY <2>2, <2>3
<1>4. CASE UNCHANGED <<submitted, executed, functors, pendingFunctors_>>
  BY <1>4
<1> QED
  BY <1>1, <1>2, <1>3, <1>4
     DEF Next, Call, CallReturns, RunInLoop, Loop, TestQuit, PollReady, PollTimeout,
         HandleWakeup, HandleIo, EndCallback, BeginPendingFunctors, EndPendingFunctors,
         QueueInLoopWakeup, RunInLoopDirect, Quit, QuitWakeup

-----------------------------------------------------------------------------
(* No wakeup is lost. *)
LEMMA WakeupStep ==
  TypeOK /\ ControlInv /\ WakeupInv /\ [Next]_vars => WakeupInv'
<1> SUFFICES ASSUME TypeOK, ControlInv, WakeupInv, [Next]_vars PROVE WakeupInv'
  OBVIOUS
<1> USE DEF WakeupInv, vars, loopVars, callVars
<1>1. CASE Loop        BY <1>1 DEF Loop
<1>2. CASE TestQuit    BY <1>2 DEF TestQuit
<1>3. CASE PollReady   BY <1>3 DEF PollReady
<1>4. CASE PollTimeout BY <1>4 DEF PollTimeout
<1>5. CASE HandleWakeup BY <1>5 DEF HandleWakeup
<1>6. CASE HandleIo    BY <1>6 DEF HandleIo
<1>7. CASE EndCallback BY <1>7 DEF EndCallback
<1>8. CASE BeginPendingFunctors BY <1>8 DEF BeginPendingFunctors
<1>9. CASE SwapFunctors BY <1>9, EmptySeq DEF SwapFunctors
<1>10. CASE RunFunctor BY <1>10 DEF RunFunctor
<1>11. CASE EndPendingFunctors BY <1>11 DEF EndPendingFunctors
<1>12. ASSUME NEW t \in Threads, QueueInLoop(t) PROVE WakeupInv'
  <2> SUFFICES ASSUME pc' \notin {"handle", "swap"},
                      NEW i \in 1..Len(pendingFunctors_'), ~wakeupFd_'
               PROVE \/ pendingFunctors_'[i] \in early'
                     \/ \E s \in Threads : unwoken'[s] = pendingFunctors_'[i]
    OBVIOUS
  <2>1. /\ next \in Functors /\ pendingFunctors_' = Append(pendingFunctors_, next)
        /\ unwoken' = [unwoken EXCEPT ![t] = next]
        /\ unwoken[t] = 0 /\ early \subseteq early' /\ pc' = pc /\ wakeupFd_' = wakeupFd_
    BY <1>12 DEF QueueInLoop, Enqueue, MayCall
  <2>2. CASE i = Len(pendingFunctors_) + 1
    <3>1. pendingFunctors_'[i] = next
      BY <2>1, <2>2, AppendProperties DEF TypeOK
    <3> QED BY <2>1, <3>1 DEF TypeOK
  <2>3. CASE i \in 1..Len(pendingFunctors_)
    <3>1. pendingFunctors_'[i] = pendingFunctors_[i] /\ pendingFunctors_[i] \in Functors
      BY <2>1, <2>3, AppendProperties, ElementOfSeq DEF TypeOK
    <3>2. CASE pendingFunctors_[i] \in early
      BY <2>1, <3>1, <3>2
    <3>3. ASSUME NEW s \in Threads, unwoken[s] = pendingFunctors_[i]
          PROVE  unwoken'[s] = pendingFunctors_'[i]
      BY <2>1, <3>1, <3>3 DEF TypeOK, Functors
    <3> QED BY <2>1, <2>3, <3>1, <3>2, <3>3
  <2> QED BY <2>1, <2>2, <2>3, AppendProperties, LenProperties DEF TypeOK
<1>13. ASSUME NEW t \in Threads, QueueInLoopWakeup(t) PROVE WakeupInv'
  <2>1. CASE NeedsWakeup(t)
    BY <1>13, <2>1 DEF QueueInLoopWakeup
  <2>2. CASE ~NeedsWakeup(t)
    <3>1. t = LoopThread /\ pc \notin {"swap", "run"}
      BY <2>2 DEF NeedsWakeup, isInLoopThread, ControlInv
    <3>2. pc \notin {"handle", "swap"} => pc = "idle" /\ unwoken[t] \in early
      BY <1>13, <3>1 DEF QueueInLoopWakeup, ControlInv
    <3>3. /\ pendingFunctors_' = pendingFunctors_ /\ early' = early /\ pc' = pc
          /\ unwoken' = [unwoken EXCEPT ![t] = 0] /\ wakeupFd_' = wakeupFd_
      BY <1>13, <2>2 DEF QueueInLoopWakeup, TypeOK
    <3>4. ASSUME pc \notin {"handle", "swap"}, NEW i \in 1..Len(pendingFunctors_), ~wakeupFd_,
                 pendingFunctors_[i] \notin early
          PROVE \E s \in Threads : unwoken'[s] = pendingFunctors_[i]
      BY <3>2, <3>3, <3>4 DEF TypeOK
    <3> QED BY <3>3, <3>4
  <2> QED BY <2>1, <2>2
<1>14. CASE RunInLoopDirect BY <1>14 DEF RunInLoopDirect
<1>15. ASSUME NEW t \in Threads, Quit(t) PROVE WakeupInv'
  BY <1>15 DEF Quit
<1>16. ASSUME NEW t \in Threads, QuitWakeup(t) PROVE WakeupInv'
  BY <1>16 DEF QuitWakeup
<1>17. CASE UNCHANGED vars BY <1>17
<1> QED
  BY <1>1, <1>2, <1>3, <1>4, <1>5, <1>6, <1>7, <1>8, <1>9, <1>10, <1>11, <1>12,
     <1>13, <1>14, <1>15, <1>16, <1>17
     DEF Next, Call, CallReturns, RunInLoop

(* No quit() is slept through. *)
LEMMA QuitStep ==
  TypeOK /\ ControlInv /\ QuitNotMissed /\ [Next]_vars => QuitNotMissed'
BY DEF TypeOK, ControlInv, QuitNotMissed, vars, loopVars, callVars, Next, Call, CallReturns,
       RunInLoop, Loop, TestQuit, PollReady, PollTimeout, HandleWakeup, HandleIo,
       EndCallback, BeginPendingFunctors, SwapFunctors, RunFunctor, EndPendingFunctors,
       QueueInLoop, QueueInLoopWakeup, RunInLoopDirect, Quit, QuitWakeup, MayCall,
       isInLoopThread, LoopProceeds

-----------------------------------------------------------------------------
(* A newly constructed EventLoop satisfies the inductive invariant. *)
LEMMA IInvInit == Init => IInv
<1> SUFFICES ASSUME Init PROVE IInv
  OBVIOUS
<1>1. TypeOK BY TypeInit
<1>2. ControlInv BY DEF Init, ControlInv, Threads
<1>3. FifoExactlyOnce
  <2>1. <<>> \o <<>> = <<>> BY ConcatEmptySeq, EmptySeq
  <2> QED BY <2>1 DEF Init, FifoExactlyOnce
<1>4. WakeupInv BY EmptySeq DEF Init, WakeupInv
<1>5. QuitNotMissed BY DEF Init, QuitNotMissed
<1> QED BY <1>1, <1>2, <1>3, <1>4, <1>5 DEF IInv

(* Every step preserves the inductive invariant. *)
LEMMA IInvStep == IInv /\ [Next]_vars => IInv'
BY TypeStep, ControlStep, FifoStep, WakeupStep, QuitStep DEF IInv

(* The inductive invariant holds in every reachable state. *)
THEOREM InductiveInvariant == Spec => []IInv
BY IInvInit, IInvStep, PTL DEF Spec

(* Type correctness of the loop and of its callers. *)
THEOREM TypeCorrect == Spec => []TypeOK
<1>1. IInv => TypeOK BY DEF IInv
<1> QED BY <1>1, InductiveInvariant, PTL

(* queueInLoop() / doPendingFunctors(): every functor queued is started at most
   once, never dropped, and in the order of the queueInLoop() calls. *)
THEOREM FunctorsFifoExactlyOnce == Spec => []FifoExactlyOnce
<1>1. IInv => FifoExactlyOnce BY DEF IInv
<1> QED BY <1>1, InductiveInvariant, PTL

(* queueInLoop() / wakeup(): the loop does not sleep in poll() on a functor
   somebody expects it to run. *)
THEOREM NoWakeupLost == Spec => []NoLostWakeup
<1>1. IInv => NoLostWakeup BY DEF IInv, WakeupInv, NoLostWakeup
<1> QED BY <1>1, InductiveInvariant, PTL

(* quit() / wakeup(): the loop does not sleep in poll() on a stored quit_. *)
THEOREM NoQuitMissed == Spec => []QuitNotMissed
<1>1. IInv => QuitNotMissed BY DEF IInv
<1> QED BY <1>1, InductiveInvariant, PTL

-----------------------------------------------------------------------------
(* Each step of the loop or of a caller is a step of the abstract queue. *)
LEMMA RefinementStep == IInv /\ [Next]_vars => [FQ!Next]_(FQ!vars)
<1> SUFFICES ASSUME IInv, [Next]_vars PROVE [FQ!Next]_(FQ!vars)
  OBVIOUS
<1> USE DEF FQ!Next, FQ!vars, vars, loopVars, callVars
<1>0. TypeOK /\ ControlInv BY DEF IInv
<1>1. CASE SwapFunctors
  <2>1. functors = <<>> BY <1>0, <1>1 DEF SwapFunctors, ControlInv
  <2>2. functors \o pendingFunctors_ = pendingFunctors_ /\ pendingFunctors_ \o <<>> = pendingFunctors_
    BY <1>0, <2>1, ConcatEmptySeq DEF TypeOK
  <2>3. (functors \o pendingFunctors_)' = functors \o pendingFunctors_ /\ executed' = executed
    BY <1>1, <2>2 DEF SwapFunctors
  <2> QED BY <2>3
<1>2. CASE RunFunctor
  <2>1. /\ functors \in Seq(Functors) /\ pendingFunctors_ \in Seq(Functors) /\ functors # <<>>
        /\ executed' = Append(executed, Head(functors))
        /\ functors' = Tail(functors) /\ pendingFunctors_' = pendingFunctors_
    BY <1>0, <1>2 DEF RunFunctor, TypeOK
  <2>2. /\ functors \o pendingFunctors_ # <<>>
        /\ Head(functors \o pendingFunctors_) = Head(functors)
        /\ Tail(functors \o pendingFunctors_) = Tail(functors) \o pendingFunctors_
    BY <2>1, HeadTailConcat
  <2>3. FQ!Execute BY <2>1, <2>2 DEF FQ!Execute
  <2> QED BY <2>3
<1>3. ASSUME NEW t \in Threads, QueueInLoop(t) PROVE FQ!Next
  <2>1. /\ next \in Functors /\ executed' = executed /\ functors' = functors
        /\ pendingFunctors_' = Append(pendingFunctors_, next)
    BY <1>3 DEF QueueInLoop, Enqueue
  <2>2. functors \o Append(pendingFunctors_, next) = Append(functors \o pendingFunctors_, next)
    <3>1. functors \in Seq(Functors) /\ pendingFunctors_ \in Seq(Functors) /\ next \in Functors
      BY <1>0, <2>1 DEF TypeOK
    <3> QED BY <3>1, AppendLast
  <2>3. FQ!Submit(next) BY <2>1, <2>2 DEF FQ!Submit
  <2> QED BY <2>1, <2>3
<1>4. CASE UNCHANGED <<executed, functors, pendingFunctors_>>
  BY <1>4
<1> QED
  BY <1>1, <1>2, <1>3, <1>4
     DEF Next, Call, CallReturns, RunInLoop, Loop, TestQuit, PollReady, PollTimeout,
         HandleWakeup, HandleIo, EndCallback, BeginPendingFunctors, EndPendingFunctors,
         QueueInLoopWakeup, RunInLoopDirect, Quit, QuitWakeup

(* EventLoop implements FunctorQueue: the queue is the batch being run followed
   by pendingFunctors_, and the swap between the two is invisible. *)
THEOREM Refinement == Spec => ImplementsFunctorQueue
<1>1. Init => FQ!Init
  <2>1. <<>> \o <<>> = <<>> BY ConcatEmptySeq, EmptySeq
  <2> QED BY <2>1 DEF Init, FQ!Init
<1> QED
  BY <1>1, RefinementStep, InductiveInvariant, PTL DEF Spec, ImplementsFunctorQueue, FQ!Spec

-----------------------------------------------------------------------------
(* The EventLoopThread *)

threadAll == <<vars, threadVars>>

(* Where the owner and the thread can be at the same time.  Only user code and the
   destructor store quit_, so that without the former loop() cannot return, and
   loop_ stays published, before the destructor has begun. *)
HostInv ==
  /\ ownerPc \in {"none", "new"} => threadPc = "none"
  /\ ownerPc = "none" => userQuits
  /\ threadPc = "looping" => pc # "idle"
  /\ ~userQuits /\ ownerPc \in {"new", "check", "waiting", "running"} =>
       ~quit_ /\ threadPc \in {"none", "init", "published", "looping"}
  /\ ~userQuits /\ ownerPc = "running" => loop_
  /\ DestroyedAfterThread

(* Whatever the owner and the thread do to the loop is a step of EventLoop.tla. *)
LEMMA ThreadStepIsLoopStep == [ThreadNext]_threadAll => [Next]_vars
<1> SUFFICES ASSUME [ThreadNext]_threadAll PROVE [Next]_vars
  OBVIOUS
<1>0. Owner \in Threads /\ LoopThread \in Threads
  BY OwnerAssumption DEF Threads
<1>1. CASE Unhosted(Next) BY <1>1 DEF Unhosted
<1>2. CASE StartLoop \/ SpuriousWakeup \/ Destroy \/ CheckLoop \/ Join \/ Publish \/ Unpublish \/ Finish
  BY <1>2 DEF StartLoop, SpuriousWakeup, Destroy, CheckLoop, Join, Publish, Unpublish, Finish
<1>3. CASE UseLoop \/ UseLoopWakeup \/ DestroyQuit \/ DestroyWakeup
  BY <1>0, <1>3 DEF UseLoop, UseLoopWakeup, DestroyQuit, DestroyWakeup, Next, Call, CallReturns
<1>4. CASE UserCode \/ WakeupAfterQueue
  BY <1>0, <1>4 DEF UserCode, WakeupAfterQueue, Next, Call, CallReturns
<1>5. CASE OtherPoll \/ EnterLoop \/ RunLoop
  BY <1>0, <1>5 DEF OtherPoll, EnterLoop, RunLoop, LoopStep, Next, CallReturns
<1>6. CASE UNCHANGED threadAll BY <1>6 DEF threadAll
<1> QED BY <1>1, <1>2, <1>3, <1>4, <1>5, <1>6 DEF ThreadNext, OwnerStep, ThreadStep

(* The steps of the loop thread inside loop() store no quit_, and leave loop() only
   when it is stored. *)
LEMMA LoopStepKeepsQuit ==
  ASSUME LoopStep
  PROVE  quit_' = quit_ /\ (pc' = "idle" => quit_ \/ pc = "idle")
BY DEF LoopStep, TestQuit, PollReady, HandleWakeup, HandleIo, EndCallback, BeginPendingFunctors,
       SwapFunctors, RunFunctor, EndPendingFunctors, QueueInLoopWakeup, loopVars

(* Each step of owner and thread keeps HostInv. *)
LEMMA HostStep == HostInv /\ [ThreadNext]_threadAll => HostInv'
<1> SUFFICES ASSUME HostInv, [ThreadNext]_threadAll PROVE HostInv'
  OBVIOUS
<1> USE DEF HostInv, DestroyedAfterThread, threadVars
<1>1. CASE Unhosted(Next) BY <1>1 DEF Unhosted
<1>2. CASE StartLoop BY <1>2 DEF StartLoop, vars, loopVars
<1>3. CASE SpuriousWakeup \/ CheckLoop BY <1>3 DEF SpuriousWakeup, CheckLoop, vars, loopVars
<1>4. CASE UseLoop \/ UseLoopWakeup
  BY <1>4 DEF UseLoop, UseLoopWakeup, QueueInLoop, QueueInLoopWakeup, loopVars
<1>5. CASE Destroy BY <1>5 DEF Destroy, vars, loopVars
<1>6. CASE DestroyQuit BY <1>6 DEF DestroyQuit, Quit, loopVars
<1>7. CASE DestroyWakeup BY <1>7 DEF DestroyWakeup, QuitWakeup, loopVars
<1>8. CASE Join BY <1>8 DEF Join, vars, loopVars
<1>9. CASE UserCode
  BY <1>9 DEF UserCode, QueueInLoop, RunInLoop, RunInLoopDirect, Quit, loopVars
<1>10. CASE WakeupAfterQueue BY <1>10 DEF WakeupAfterQueue, QueueInLoopWakeup, loopVars
<1>11. CASE Publish BY <1>11 DEF Publish, Notified, vars, loopVars
<1>12. CASE EnterLoop BY <1>12 DEF EnterLoop, Loop
<1>13. CASE RunLoop BY <1>13, LoopStepKeepsQuit DEF RunLoop
<1>14. CASE OtherPoll BY <1>14 DEF OtherPoll, PollTimeout, PollReady
<1>15. CASE Unpublish \/ Finish BY <1>15 DEF Unpublish, Finish, vars, loopVars
<1>16. CASE UNCHANGED threadAll BY <1>16 DEF threadAll, vars, loopVars
<1> QED
  BY <1>1, <1>2, <1>3, <1>4, <1>5, <1>6, <1>7, <1>8, <1>9, <1>10, <1>11, <1>12, <1>13, <1>14,
     <1>15, <1>16 DEF ThreadNext, OwnerStep, ThreadStep

(* event_loop_thread.cc uses the loop as any thread may: all that is proved of an
   EventLoop holds of one that lives in an EventLoopThread, from startLoop() to the
   end of the destructor. *)
THEOREM HostedLoopCorrect ==
  ThreadSpec => [](FifoExactlyOnce /\ NoLostWakeup /\ QuitNotMissed) /\ ImplementsFunctorQueue
<1>1. ThreadInit => Init BY DEF ThreadInit
<1>2. ThreadSpec => Spec
  BY <1>1, ThreadStepIsLoopStep, PTL DEF ThreadSpec, Spec, threadAll
<1> QED
  BY <1>2, FunctorsFifoExactlyOnce, NoWakeupLost, NoQuitMissed, Refinement, PTL

(* ~EventLoopThread(): when it has returned, and user code did not quit the loop, the
   thread was never started or is at its end: it cannot touch the mutex or loop_ of
   the destroyed object, wherever it was when the destructor read loop_ unlocked. *)
THEOREM ThreadDestroyed == ThreadSpec => []DestroyedAfterThread
<1>1. ThreadInit => HostInv
  BY DEF ThreadInit, Init, HostInv, DestroyedAfterThread
<1>2. HostInv => DestroyedAfterThread BY DEF HostInv
<1> QED BY <1>1, <1>2, HostStep, PTL DEF ThreadSpec, threadAll
=============================================================================
