---------------------------- MODULE MCHandlerTree ----------------------------
(* Trees of handlers for TLC: the default handlers of the package, and the *)
(* two ways of nesting one kind of handler in the other.                   *)
EXTENDS HandlerTree, TLC

CONSTANTS g1, g2

\* The streams of a tree are the nodes without children.
Tree(kind, kids, types, buffered, reliable) ==
  [kind |-> kind, kids |-> kids, types |-> types, buffered |-> buffered,
   reliable |-> reliable]

Both == Types

\* MultiHandler(stdoutHandler, stderrHandler)
DefaultHandlers ==
  Tree(<<"list", "stream", "stream", "absent", "absent">>,
       <<<<2, 3>>, <<>>, <<>>, <<>>, <<>>>>,
       <<{}, {"info"}, {"error"}, {}, {}>>, {2}, {})

FailoverOfList ==
  Tree(<<"failover", "list", "stream", "stream", "stream">>,
       <<<<2, 5>>, <<3, 4>>, <<>>, <<>>, <<>>>>,
       <<{}, {}, Both, {"error"}, Both>>, {}, {4})

ListOfFailover ==
  Tree(<<"list", "failover", "stream", "stream", "stream">>,
       <<<<2, 5>>, <<3, 4>>, <<>>, <<>>, <<>>>>,
       <<{}, {}, Both, Both, {"info"}>>, {}, {4})

SomeTrees == {DefaultHandlers, FailoverOfList, ListOfFailover}

\* What LogOutcome takes for granted.
ASSUME NoneShared == \A t \in SomeTrees : Unshared(t)

Interchangeable == Permutations({g1, g2})
=============================================================================
