CONSTANTS
  Curves <- MCCurves
  acc = acc
  tmp1 = tmp1
  Points = {acc, tmp1}
SPECIFICATION Spec
INVARIANTS TypeOK GroupLaw Representation EqDecides
SYMMETRY MCSymmetry
