SPECIFICATION Spec
CONSTANTS
  g = g
  s = s
  l1 = l1
  l2 = l2
  None = None
  Jobs <- MCJobs
  Leads <- MCLeads
  Kind <- MCKind
  LeadOf <- MCLeadOf
  SourceOf <- MCSourceOf
  Addressed <- MCAddressed
  Length = 0
  Subject <- MCSubject
  Refusing <- MCNoPages
  LoggedOut <- MCLoggedOut
  Framed <- MCFramed
CHECK_DEADLOCK FALSE
INVARIANTS
  ResultIsOfItsLead
