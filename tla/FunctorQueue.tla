---------------------------- MODULE FunctorQueue ----------------------------
(***************************************************************************)
(* What EventLoop promises to the callers of queueInLoop(): callbacks are   *)
(* kept in one queue and executed one at a time, first in, first out, each  *)
(* exactly once.  EventLoop.tla is shown to implement this specification.   *)
(***************************************************************************)
EXTENDS Naturals, Sequences

CONSTANT Functors

VARIABLES
  queue,      \* functors handed to the loop and not yet started
  executed    \* functors started, oldest first

vars == <<queue, executed>>

TypeOK ==
  /\ queue    \in Seq(Functors)
  /\ executed \in Seq(Functors)

Init ==
  /\ queue    = <<>>
  /\ executed = <<>>

Submit(f) ==
  /\ queue' = Append(queue, f)
  /\ UNCHANGED executed

Execute ==
  /\ queue # <<>>
  /\ executed' = Append(executed, Head(queue))
  /\ queue'    = Tail(queue)

Next == Execute \/ \E f \in Functors : Submit(f)

Spec == Init /\ [][Next]_vars
=============================================================================
