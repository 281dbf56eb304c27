--------------------------- MODULE MCTcpConnection ---------------------------
EXTENDS TcpConnection

(* Orderly use; every call in every place; a server that is destroyed;
   forceClose() in another thread *)
OrderlyUse ==
  [loopOps |-> {"send", "shutdown", "forceClose", "forceCloseWithDelay"}, foreignOps |-> {"send"},
   whenConnected |-> TRUE, serverDies |-> FALSE, maxCalls |-> 3, maxInbox |-> 1]

AnyUse ==
  [loopOps |-> Ops, foreignOps |-> Ops,
   whenConnected |-> FALSE, serverDies |-> FALSE, maxCalls |-> 2, maxInbox |-> 0]

ServerDestroyed == [OrderlyUse EXCEPT !.serverDies = TRUE, !.maxCalls = 2, !.maxInbox = 0]

ForeignForceClose ==
  [loopOps |-> {}, foreignOps |-> {"forceClose"},
   whenConnected |-> TRUE, serverDies |-> FALSE, maxCalls |-> 1, maxInbox |-> 0]

ThreeUses == {OrderlyUse, AnyUse, ServerDestroyed}

ForceUse == {ForeignForceClose}
=============================================================================
