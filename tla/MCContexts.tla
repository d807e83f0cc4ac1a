------------------------------ MODULE MCContexts ------------------------------
EXTENDS Contexts
CONSTANTS a, x, y
SomeNames  == {<<a, x>>, <<Star, y>>, <<a, x, y>>}
SomeHellos == {<<>>, <<a, x>>, <<a, y>>, <<Star, y>>, <<y, x>>, <<a, x, y>>}
TheOptions == {[passphrase |-> TRUE, valid |-> v] : v \in BOOLEAN}
Reply(i, s, b, o) == [infos |-> i, sockets |-> s, binds |-> b, source |-> o]
TheReplies ==
  {Reply(<<>>, {1}, TRUE, "none"), Reply(<<"inet", "inet6">>, {1, 2}, TRUE, "none"),
   Reply(<<"inet", "inet6">>, {1, 2}, FALSE, "found"), Reply(<<"inet", "inet">>, {}, TRUE, "unknown"),
   Reply(<<"inet6", "inet">>, {1}, TRUE, "found"), Reply(<<"inet6", "inet">>, {2}, FALSE, "unknown")}
ContextSymmetry == Permutations(Contexts) \cup Permutations(SslCtxs)
=============================================================================
