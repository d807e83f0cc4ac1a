\* Three contexts, created, freed and swept in every order, while two server
\* names at a time come and go under a handshake that asks for one of them.
CONSTANTS
  Contexts = {c1, c2, c3}
  SslCtxs = {k1, k2, k3}
  Handshakes = {h1}
  Descriptors = {d1}
  NULL = NULL
  Star = Star
  a = a
  x = x
  y = y
  MAX_LABELS = 2
  Names <- SomeNames
  Hellos <- SomeHellos
  SomeReplies <- TheReplies
  SomeOptions <- TheOptions
  Inputs = {}
SPECIFICATION Spec
SYMMETRY ContextSymmetry
INVARIANTS ListSound ReferencesCounted LooksUpBest NothingLeftOpen
PROPERTIES SweepsEach
