CONSTANTS
  Templates <- MCTemplates
  Contexts <- MCContexts
SPECIFICATION Spec
INVARIANTS TypeOK StackIsBalanced WritesWhatTheTreeMeans
