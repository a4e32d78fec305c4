SPECIFICATION Spec
PROPERTY AbsenceIsReported
