CONSTANTS
  m1 = m1
  m2 = m2
  h1 = h1
  h2 = h2
  NoText = NoText
  Messages = {m1, m2}
  Handlers = {h1, h2}
  MaxErasures = 1
SPECIFICATION Spec
INVARIANTS TypeOK PromiseKept AnsweredOnRecord ErasedStaysErased ExchangeOnce
PROPERTIES OnlyTurnsInFlightTalkOver ImplementsHelpdesk
SYMMETRY TextSymmetry
CHECK_DEADLOCK FALSE
