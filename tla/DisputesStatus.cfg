\* Two chargebacks of one funding and their resolutions.
SPECIFICATION Spec
CONSTANTS
  c1 = c1
  c2 = c2
  c3 = c3
  c4 = c4
  o1 = o1
  o2 = o2
  n1 = n1
  n2 = n2
  n3 = n3
  Calls = {c1, c2, c3, c4}
  Originals = {o1}
  Notices = {n1, n2}
  Accounts = Accounts
  Nobody = Nobody
  Funded = 2
INVARIANT
  StatusReflectsDisputes
CHECK_DEADLOCK FALSE
