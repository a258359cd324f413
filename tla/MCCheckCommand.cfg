SPECIFICATION Spec
CONSTANTS
  f1 = f1
  f2 = f2
  style = style
  risk = risk
  safety = safety
  Files = {f1, f2}
  Kinds = {style, risk, safety}
  Texts <- MCTexts
  Fixable = {style}
  Blocking = {risk}
  Always = {safety}
  Profiles = {"recommended", "strict"}
  Catalogs = {1, 2}
SYMMETRY Interchangeable
INVARIANTS
  CountsExact
PROPERTIES
  NewFindingsBlock
  FixesAsTold
  BaselineExplicit
CHECK_DEADLOCK FALSE
