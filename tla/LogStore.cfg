\* The only states without a successor follow close() with every store()
\* settled or cancelled, or a bootstrap that threw: deadlock is not an error.
CONSTANTS
  m1 = m1
  m2 = m2
  m3 = m3
  w1 = w1
  w2 = w2
  Msgs <- MCMsgs
  Windows <- MCWindows
  MsgWindow <- MCMsgWindow
  NbTrials <- MCNbTrials

SPECIFICATION Spec

INVARIANT ParkedNotDeliveredAfterClose
INVARIANT ThrowsOnlyAfterAllTrials
INVARIANT TypeOK
PROPERTY StoreSettlesUnlessClosed
PROPERTY BootstrapSettles

CHECK_DEADLOCK FALSE
