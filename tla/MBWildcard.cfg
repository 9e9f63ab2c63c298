SPECIFICATION Spec
CONSTANTS
  w1 = w1  w2 = w2  u1 = u1  u2 = u2  e1 = e1  e2 = e2  d1 = d1  a1 = a1  a2 = a2  t1 = t1
  None = None
  Workers <- TwoWorkers
  Usernames <- TwoUsernames
  Emails <- TwoEmails
  Domains <- OneDomain
  DomainOf <- InOneDomain
  OneCharacter <- OneShortEmail
  Approvable <- Entries
  Accounts <- TwoAccounts
  Tokens <- OneToken
PROPERTY
  WildcardApproves
