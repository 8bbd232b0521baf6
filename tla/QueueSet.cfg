SPECIFICATION FairSpec
CONSTANTS
  m_iCQNumber = 3
  Kinds = {"plain", "broken", "stuck"}
  NoFrame = "none"
  Cap = 2
  m_iRLock = FALSE
INVARIANT BoundedOvertaking
INVARIANT SkipsWhatWasHanded
INVARIANT NoLostWakeup
PROPERTY HeadServed
