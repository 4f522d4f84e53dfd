SPECIFICATION FairSpec
CONSTANTS
  j1 = j1
  j2 = j2
  s1 = s1
  s2 = s2
  w1 = w1
  w2 = w2
  NoItem = NoItem
  Jobs <- OneJob
  Subscriptions <- OneDevice
  Runs <- TwoRuns
  Changing <- Everything
  MaxLease = 2
  MaxVersion = 3
INVARIANT TypeOK JobSummarisesTargets LastLeaseConcludes DeliveredWasAccepted RetiredEndpointIsGone EndsAreExplained
PROPERTY NoJobStaysOpen
