SPECIFICATION Spec
CONSTANTS
  Leaf <- MCLeaf
  Domains <- MCDomains
  Invariants <- MCInvariants
INVARIANTS
  VerdictIsSound
  FormsAgree
  DependenciesSettle
PROPERTY VerdictsAreFinal
