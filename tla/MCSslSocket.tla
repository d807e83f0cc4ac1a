------------------------------ MODULE MCSslSocket ------------------------------
EXTENDS SslSocket, TLC
SomeWindows ==
  {<<"hs">>, <<"hs", "data">>, <<"hs", "hs">>, <<"hs", "fin">>, <<"data">>,
   <<"data", "hs">>, <<"fin">>, <<"bad">>, <<"part">>, <<"rest">>, <<"rest", "data", "part">>}
SocketSymmetry == Permutations(Sockets)
=============================================================================
