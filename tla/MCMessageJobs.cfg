SPECIFICATION Spec
CONSTANTS
  m1 = m1
  m2 = m2
  l1 = l1
  l2 = l2
  None = None
  Jobs <- MCJobs
  Leads <- MCLeads
  Kind <- MCKind
  LeadOf <- MCLeadOf
  SourceOf <- MCSourceOf
  Addressed <- MCAddressed
  Length = 2
  Subject <- MCSubject
  Refusing <- MCRefusing
  LoggedOut <- MCNoPages
  Framed <- MCNoPages
CHECK_DEADLOCK FALSE
INVARIANTS
  TypeOK
  MessagesStayInPeriod
  AnswerMeansSent
PROPERTIES
  NoSendAfterVerdict
  ImplementsDelivery
