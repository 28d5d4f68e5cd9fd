SPECIFICATION MCSpec
CONSTANTS
  xs = xs
  xw = xw
  xn = xn
  xp = xp
  ev = ev
  sa = sa
  sb = sb
  f1 = f1
  Ex = {xs, xw, xn, xp}
  SpecSeq <- MCSpecSeq
  Periodic = {xp}
  Delayed = {xw}
  Identity <- MCIdentity
  NoName = NoName
  Event = {ev}
  AnyEvent = AnyEvent
  SchemaOf <- MCSchemaOf
  Schema = {sa, sb}
  Fire = {f1}
  Call <- MCCall
  Settings <- MCSettings
  MaxLoad = 3
INVARIANTS RegistriesInStep EmittedOnceInScope NoSubscriberLost ExitCodeTells
PROPERTIES EventsSettle SignalEndsProcess
CHECK_DEADLOCK FALSE
