------------------------------- MODULE Channel -------------------------------
(***************************************************************************)
(* fishnet/net/channel.{h,cc}: the events a channel asks for and those it is *)
(* told of.  Event masks are sets; POLLIN and POLLPRI, which kReadEvent      *)
(* always sets together, are one event.                                      *)
(***************************************************************************)
EXTENDS Naturals, Sequences

kNoneEvent  == {}
kReadEvent  == {"in"}
kWriteEvent == {"out"}

Events  == SUBSET (kReadEvent \cup kWriteEvent)
Revents == {"in", "out", "hup", "err"}

enableReading(e)  == e \cup kReadEvent
disableReading(e) == e \ kReadEvent
enableWriting(e)  == e \cup kWriteEvent
disableWriting(e) == e \ kWriteEvent
disableAll(e)     == kNoneEvent

(* The masks one call on a channel with mask e can lead to. *)
Changes(e) == {enableReading(e), disableReading(e), enableWriting(e), disableWriting(e), disableAll(e)}

isWriting(e) == kWriteEvent \subseteq e
isReading(e) == kReadEvent \subseteq e

(* handleEventWithGuard(): the callbacks it makes, in order. *)
handleEvent(revents) ==
  LET Cb(condition, name) == IF condition THEN <<name>> ELSE <<>>
  IN  Cb("hup" \in revents /\ "in" \notin revents, "close") \o Cb("err" \in revents, "error")
        \o Cb("in" \in revents, "read") \o Cb("out" \in revents, "write")
=============================================================================
