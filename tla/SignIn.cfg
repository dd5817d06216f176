CONSTANTS
  i1 = i1
  i2 = i2
  i3 = i3
  e1 = e1
  e2 = e2
  u1 = u1
  u2 = u2
  b1 = b1
  b2 = b2
  s1 = s1
  s2 = s2
  r1 = r1
  r2 = r2
  NoEmail = NoEmail
  NoIdentity = NoIdentity
  NoBrowser = NoBrowser
  NoSubject = NoSubject
  NoState = NoState
  Identities <- MCIdentities
  Emails <- MCEmails
  Subjects <- MCSubjects
  EmailsOf <- MCEmailsOf
  Browsers <- MCBrowsers
  States <- MCStates
  Requests <- MCRequests
SPECIFICATION Spec
SYMMETRY Symmetry
CHECK_DEADLOCK FALSE
INVARIANT EveryIdentityCanReturn
INVARIANT SameIdentityEveryTime
INVARIANT LinkedByItsOwner
INVARIANT AttemptWorksOnce
