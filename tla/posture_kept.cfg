CONSTANTS
  w1 = w1
  w2 = w2
  Calls = {c1, c2}
  Workspaces = {w1, w2}
  Types <- MCTypes
  Names = {n1}
  Links = {l1}
  Grants <- MCGrants
  Claude = Claude
  Local = Local
  None = None
SPECIFICATION Spec
SYMMETRY Symm
INVARIANTS RevokeHolds NoPromptOnceShut
PROPERTIES LinksStayRevoked
