SPECIFICATION Spec
CONSTANTS
  c1 = c1
  c2 = c2
  l1 = l1
  alice = alice
  Nobody = Nobody
  Creators = {c1, c2}
  Listers = {l1}
  OwnerOf <- MCOwnerOf
  Settings <- MCSettings
  Lease = 1
INVARIANT RetiredMeansNoCell
